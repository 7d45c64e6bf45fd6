---------------------------- MODULE ExtratoProofs ----------------------------
(***************************************************************************)
(* Theorems about the balances the API answers with: what a handler has    *)
(* read, what a transaction was accepted against, and what an extrato      *)
(* shows, for any number of processes, clients and rows.                   *)
(*                                                                         *)
(* The argument has three parts, each inductive over those before:         *)
(*   Leitura   as long as its session lives, what a handler has read is a  *)
(*             sum over rows that are still there, all its process's own   *)
(*             among them;                                                 *)
(*   Enviadas  a message in a session was accepted against such a sum;     *)
(*   Instantes no two transactions began at the same instant.              *)
(* What a query with a limit returns is then a matter of counting rows.    *)
(***************************************************************************)
EXTENDS TextoProofs

(* The numbers of the rows of a client, and its rows among those numbers.  *)
Numeracao(T, c) == {t.num : t \in DoCliente(T, c)}
Vistas(T, c, visto) == {t \in DoCliente(T, c) : t.num \in visto}

(* T became U by rows with numbers that T does not have.                   *)
Cresce(T, U) == T \subseteq U /\ \A t \in U \ T : \A s \in T : s.num # t.num

LEMMA VistasFicam ==
  ASSUME NEW T, NEW U, Cresce(T, U), NEW c, NEW visto, visto \subseteq Numeracao(T, c)
  PROVE  /\ Vistas(U, c, visto) = Vistas(T, c, visto)
         /\ visto \subseteq Numeracao(U, c)
<1>1. \A n \in visto : \E t \in T : t.num = n
  BY DEF Numeracao, DoCliente
<1>2. Vistas(U, c, visto) = Vistas(T, c, visto)
  BY <1>1 DEF Vistas, DoCliente, Cresce
<1>3. Numeracao(T, c) \subseteq Numeracao(U, c)
  BY DEF Numeracao, DoCliente, Cresce
<1>. QED BY <1>2, <1>3

LEMMA CresceIgual == \A T : Cresce(T, T)
  BY DEF Cresce

-----------------------------------------------------------------------------
(* What a step of a session changes.                                       *)
LEMMA ExecutaQuadro ==
  ASSUME Coerente, Numeros, NEW k \in Conexoes, Executa(k)
  PROVE  /\ EmVoo(k)
         /\ \A j \in Conexoes : j # k => cmd'[j] = cmd[j] /\ estado'[j] = estado[j]
         /\ EmVoo(k)' => cmd'[k] = cmd[k] /\ transacao' = transacao
         /\ \/ transacao' = transacao
            \/ Grava(k) /\ transacao' = transacao \cup {NovaLinha(k)}
         /\ \A t \in transacao' : t \in transacao \/ t.via = k
         /\ Cresce(transacao, transacao')
         /\ UNCHANGED <<disco, enviados, quedas>>
<1>0. /\ cmd \in [Conexoes -> Comandos \cup {SemComando}]
      /\ estado \in [Conexoes -> Estados]
  BY DEF Coerente, PgTypeOK
<1>1. EmVoo(k)
  BY DEF Executa, RecusaTexto, Inicia, RecusaBigint, RecusaSaldo, Atualiza,
         RecusaValor, Grava, Coerente, SessoesCoerentes
<1>2. CASE Grava(k)
  <2>1. ~Gravada(cmd[k].num)
    BY <1>1 DEF NaSessao, Numeros, NumerosEnviados, Conservacao
  <2>2. transacao' = transacao \cup {NovaLinha(k)} /\ NovaLinha(k).via = k
    BY <1>2 DEF Grava, NovaLinha
  <2>3. \A s \in transacao : s.num # NovaLinha(k).num
    BY <2>1 DEF Gravada, NovaLinha
  <2>4. Cresce(transacao, transacao')
    BY <2>2, <2>3 DEF Cresce
  <2>. QED BY <1>0, <1>1, <1>2, <2>2, <2>4 DEF Grava, EmVoo
<1>3. CASE Inicia(k) \/ Atualiza(k)
  BY <1>0, <1>1, <1>3, CresceIgual DEF Inicia, Atualiza, Tabelas
<1>4. ASSUME NEW motivo, Falha(k, motivo)
      PROVE  /\ UNCHANGED <<transacao, disco, enviados, quedas>>
             /\ ~EmVoo(k)'
             /\ \A j \in Conexoes : j # k => cmd'[j] = cmd[j] /\ estado'[j] = estado[j]
  BY <1>0, <1>4 DEF Falha, Tabelas, EmVoo
<1>5. CASE RecusaTexto(k) \/ RecusaBigint(k) \/ RecusaSaldo(k) \/ RecusaValor(k)
  BY <1>1, <1>4, <1>5, CresceIgual
  DEF RecusaTexto, RecusaBigint, RecusaSaldo, RecusaValor
<1>. QED BY <1>2, <1>3, <1>5 DEF Executa

(* What a step of a process changes: nothing of the tables, and nothing of *)
(* the other processes.                                                    *)
LEMMA ProcessoQuadro ==
  ASSUME Base, NEW b \in Apis, Chega(b) \/ Atende(b) \/ Sinal(b)
  PROVE  /\ UNCHANGED <<saldo, transacao, disco, inicio, quedas>>
         /\ \A a \in Apis : a # b =>
              /\ pc'[a] = pc[a] /\ pedido'[a] = pedido[a] /\ lido'[a] = lido[a]
              /\ pool'[a] = pool[a] /\ estado'[a] = estado[a] /\ cmd'[a] = cmd[a]
<1>0. /\ pc \in [Apis -> Pcs] /\ pedido \in [Apis -> Pedidos \cup {SemPedido}]
      /\ lido \in [Apis -> [saldo : Int, visto : SUBSET Nat]]
      /\ pool \in [Apis -> {"OK", "BAD"}]
      /\ estado \in [Apis -> Estados]
      /\ cmd \in [Apis -> Comandos \cup {SemComando}]
  BY DEF Base, TipoApi, TypeOK, PoolTypeOK, PgTypeOK, Apis
<1>1. ASSUME NEW p \in Pedidos, SaveTransacao(b, p) \/ FindById(b, p)
      PROVE  /\ UNCHANGED dbVars
             /\ \/ \E status, s : Responde(b, p, status, s)
                \/ Morre(b, p) \/ EntraFindOne(b, p)
  BY <1>1 DEF SaveTransacao, FindById, RecebePedido
<1>2. CASE Chega(b)
  BY <1>0, <1>1, <1>2 DEF Chega, Responde, Morre, EntraFindOne, dbVars, pgVars
<1>3. CASE Conecta(b) \/ RedefineConexao(b)
  BY <1>0, <1>3
  DEF Conecta, RedefineConexao, db_connect, db_get_connection_reset, Reconecta,
      Tabelas, apiVars
<1>4. CASE FindOne(b)
  BY <1>0, <1>4 DEF FindOne, Responde, db_query_ok, dbVars, pgVars
<1>5. CASE FindOneNull(b) \/ SaveAsyncFalse(b)
  BY <1>0, <1>5
  DEF FindOneNull, SaveAsyncFalse, Morre, Responde, db_query_null,
      db_execute_async_false, pgVars
<1>6. CASE LimiteExcedido(b)
  BY <1>0, <1>6 DEF LimiteExcedido, Responde, dbVars, pgVars
<1>7. CASE FindLast10(b) \/ FindLast10Null(b)
  BY <1>0, <1>7
  DEF FindLast10, FindLast10Null, RespondeExtrato, Responde, db_query_ok,
      db_query_null, dbVars, pgVars
<1>8. CASE SaveAsync(b)
  <2>1. /\ UNCHANGED pool
        /\ Recebe(b, Comando(b)) \/ Descarta(b, Comando(b))
        /\ \E status, s : Responde(b, pedido[b], status, s)
    BY <1>8 DEF SaveAsync, db_execute_async_true
  <2>. QED BY <1>0, <2>1 DEF Recebe, Descarta, Tabelas, Responde
<1>9. CASE Sinal(b)
  BY <1>0, <1>9
  DEF Sinal, Mata, EnviaEMorre, Desliga, Matado, db_execute_async_true,
      db_close_pool, Recebe, Descarta, Tabelas, dbVars, pgVars
<1>. QED
  BY <1>2, <1>3, <1>4, <1>5, <1>6, <1>7, <1>8, <1>9 DEF Atende

-----------------------------------------------------------------------------
(* The first part.  Between the two queries of a handler the connection    *)
(* counts as good and its session has nothing to do, or is gone.  While it *)
(* lives, what was read is the sum of rows that are in the table, and none *)
(* of the process's own rows is missing from them.                         *)
LeituraDe(a) ==
  Lendo(a) =>
    /\ pool[a] = "OK"
    /\ estado[a] \in {"ociosa", "fechada"}
    /\ estado[a] = "ociosa" =>
         /\ lido[a].visto \subseteq Numeracao(transacao, pedido[a].id)
         /\ lido[a].saldo = Soma(Vistas(transacao, pedido[a].id, lido[a].visto))
         /\ \A t \in DoCliente(transacao, pedido[a].id) :
              t.via = a => t.num \in lido[a].visto
         /\ RespeitaLimite(pedido[a].id, lido[a].saldo)

Leitura == \A a \in Apis : LeituraDe(a)

LEMMA LeituraContinua ==
  ASSUME NEW a \in Apis, LeituraDe(a),
         Lendo(a)' =>
           /\ Lendo(a)
           /\ UNCHANGED <<pedido[a], lido[a], pool[a]>>
           /\ estado'[a] \in {estado[a], "fechada"}
           /\ estado'[a] = "ociosa" =>
                /\ Cresce(transacao, transacao')
                /\ \A t \in transacao' : t \in transacao \/ t.via # a
  PROVE  LeituraDe(a)'
<1>. SUFFICES ASSUME Lendo(a)'
              PROVE  /\ pool'[a] = "OK"
                     /\ estado'[a] \in {"ociosa", "fechada"}
                     /\ estado'[a] = "ociosa" =>
                          /\ lido'[a].visto \subseteq
                               Numeracao(transacao', pedido'[a].id)
                          /\ lido'[a].saldo =
                               Soma(Vistas(transacao', pedido'[a].id, lido'[a].visto))
                          /\ \A t \in DoCliente(transacao', pedido'[a].id) :
                               t.via = a => t.num \in lido'[a].visto
                          /\ RespeitaLimite(pedido'[a].id, lido'[a].saldo)
  BY DEF LeituraDe, RespeitaLimite
<1>1. pool'[a] = "OK" /\ estado'[a] \in {"ociosa", "fechada"}
  BY DEF LeituraDe
<1>2. ASSUME estado'[a] = "ociosa"
      PROVE  /\ lido'[a].visto \subseteq Numeracao(transacao', pedido'[a].id)
             /\ lido'[a].saldo =
                  Soma(Vistas(transacao', pedido'[a].id, lido'[a].visto))
             /\ \A t \in DoCliente(transacao', pedido'[a].id) :
                  t.via = a => t.num \in lido'[a].visto
             /\ RespeitaLimite(pedido'[a].id, lido'[a].saldo)
  <2>1. estado[a] = "ociosa" /\ Cresce(transacao, transacao')
    BY <1>2
  <2>2. /\ lido[a].visto \subseteq Numeracao(transacao, pedido[a].id)
        /\ lido[a].saldo = Soma(Vistas(transacao, pedido[a].id, lido[a].visto))
        /\ \A t \in DoCliente(transacao, pedido[a].id) :
             t.via = a => t.num \in lido[a].visto
        /\ RespeitaLimite(pedido[a].id, lido[a].saldo)
    BY <2>1 DEF LeituraDe
  <2>3. \A c, visto : visto \subseteq Numeracao(transacao, c) =>
          /\ Vistas(transacao', c, visto) = Vistas(transacao, c, visto)
          /\ visto \subseteq Numeracao(transacao', c)
    BY <2>1, VistasFicam
  <2>4. \A t \in DoCliente(transacao', pedido[a].id) :
          t.via = a => t \in DoCliente(transacao, pedido[a].id)
    BY <1>2 DEF DoCliente
  <2>. QED BY <2>2, <2>3, <2>4 DEF RespeitaLimite
<1>. QED BY <1>1, <1>2

(* The reading itself.                                                     *)
LEMMA LeituraComeca ==
  ASSUME Base, Travas, Somas, NEW a \in Apis, FindOne(a)
  PROVE  LeituraDe(a)'
<1>1. /\ UNCHANGED <<pgVars, pool>>
      /\ pool[a] = "OK" /\ estado[a] = "ociosa"
  BY DEF FindOne, db_query_ok, dbVars
<1>2. CASE pedido[a].id \in Clientes
  <2>. DEFINE c == pedido[a].id
  <2>. DEFINE visto == {t.num : t \in DoCliente(transacao, c)}
  <2>1. /\ lido'[a].visto = visto /\ lido'[a].saldo = saldo[c]
        /\ pedido' = pedido
    BY <1>2 DEF FindOne, Base, TipoApi, TypeOK
  <2>2. Vistas(transacao, c, visto) = DoCliente(transacao, c)
    BY DEF Vistas
  <2>3. saldo[c] = Soma(DoCliente(transacao, c)) /\ RespeitaLimite(c, saldo[c])
    BY <1>2 DEF Somas, Reconcilia, Travas, ChkSaldo
  <2>4. visto = Numeracao(transacao, c)
    BY DEF Numeracao
  <2>5. \A t \in DoCliente(transacao, c) : t.num \in visto
    OBVIOUS
  <2>. HIDE DEF visto
  <2>. QED
    BY <1>1, <2>1, <2>2, <2>3, <2>4, <2>5 DEF LeituraDe, RespeitaLimite, pgVars
<1>3. CASE Responde(a, pedido[a], 404, 0)
  BY <1>3 DEF Responde, LeituraDe, Lendo, Base, TipoApi, TypeOK
<1>. QED BY <1>2, <1>3 DEF FindOne

LEMMA LeituraPasso ==
  ASSUME Base, Travas, Numeros, Somas, Leitura, [Next]_vars
  PROVE  Leitura'
<1>. SUFFICES ASSUME NEW a \in Apis
              PROVE  LeituraDe(a)'
  BY DEF Leitura, Apis
<1>0. LeituraDe(a) /\ Apis = Conexoes /\ Cresce(transacao, transacao)
  BY CresceIgual DEF Leitura, Apis
<1>1. ASSUME NEW b \in Apis, b # a, Chega(b) \/ Atende(b) \/ Sinal(b)
      PROVE  LeituraDe(a)'
  <2>1. /\ UNCHANGED transacao
        /\ pc'[a] = pc[a] /\ pedido'[a] = pedido[a] /\ lido'[a] = lido[a]
        /\ pool'[a] = pool[a] /\ estado'[a] = estado[a]
    BY <1>1, ProcessoQuadro
  <2>. QED BY <1>0, <2>1, LeituraContinua DEF Lendo
<1>2. CASE Chega(a)
  <2>1. ~Lendo(a)'
    BY <1>2 DEF Chega, SaveTransacao, FindById, Responde, Morre, EntraFindOne,
                Lendo, Base, TipoApi, TypeOK
  <2>. QED BY <2>1 DEF LeituraDe
<1>3. CASE Conecta(a) \/ RedefineConexao(a)
  <2>1. ~Lendo(a)'
    BY <1>0, <1>3
    DEF Conecta, RedefineConexao, db_get_connection_reset, apiVars, LeituraDe,
        Lendo, Base, TipoApi, TypeOK
  <2>. QED BY <2>1 DEF LeituraDe
<1>4. CASE FindOne(a)
  BY <1>4, LeituraComeca
<1>5. CASE \/ FindOneNull(a) \/ LimiteExcedido(a) \/ SaveAsync(a)
           \/ SaveAsyncFalse(a) \/ FindLast10(a) \/ FindLast10Null(a)
           \/ Sinal(a)
  <2>1. ~Lendo(a)'
    BY <1>5
    DEF FindOneNull, LimiteExcedido, SaveAsync, SaveAsyncFalse, FindLast10,
        FindLast10Null, RespondeExtrato, Responde, Morre, Sinal, Mata,
        EnviaEMorre, Desliga, Matado, Lendo, Base, TipoApi, TypeOK
  <2>. QED BY <2>1 DEF LeituraDe
<1>6. ASSUME NEW k \in Apis, Servidor(k)
      PROVE  LeituraDe(a)'
  <2>1. Executa(k) /\ UNCHANGED <<pc, pedido, lido, pool>>
    BY <1>6 DEF Servidor, apiVars
  <2>2. /\ EmVoo(k)
        /\ \A j \in Conexoes : j # k => estado'[j] = estado[j]
        /\ \A t \in transacao' : t \in transacao \/ t.via = k
        /\ Cresce(transacao, transacao')
    BY <1>0, <2>1, ExecutaQuadro DEF Base
  <2>3. Lendo(a) => a # k
    BY <1>0, <2>2 DEF LeituraDe, Base, Coerente, SessoesCoerentes
  <2>. QED BY <1>0, <2>1, <2>2, <2>3, LeituraContinua DEF Lendo
<1>7. CASE Ambiente
  <2>1. UNCHANGED <<pc, pedido, lido, pool>>
    BY <1>7 DEF Ambiente, apiVars
  <2>2. /\ estado'[a] \in {estado[a], "fechada"}
        /\ estado'[a] = "ociosa" => transacao' = transacao
    BY <1>0, <1>7 DEF Ambiente, Descarrega, Queda
  <2>. QED BY <1>0, <2>1, <2>2, LeituraContinua DEF Lendo
<1>8. CASE Fim \/ UNCHANGED vars
  BY <1>0, <1>8, LeituraContinua
  DEF Fim, vars, dbVars, pgVars, apiVars, Lendo
<1>. QED
  BY <1>1, <1>2, <1>3, <1>4, <1>5, <1>6, <1>7, <1>8 DEF Next, Atende
-----------------------------------------------------------------------------
(* The second part: what the message of an accepted transaction was        *)
(* decided with, which is what its handler had read.                       *)
SaldoVisto(r) == Soma(Vistas(transacao, r.id_cliente, r.visto))

EnviadaFiel(r, k) ==
  EmVoo(k) /\ cmd[k].num = r.num =>
    /\ r.visto \subseteq Numeracao(transacao, r.id_cliente)
    /\ \A t \in DoCliente(transacao, r.id_cliente) :
         t.via = k => t.num \in r.visto
    /\ cmd[k].tipo = "d" =>
         ~ (ToInt64(SaldoVisto(r) - cmd[k].valor) < -Limite[r.id_cliente])
    /\ r.saldo = ToInt32(ToInt64(SaldoVisto(r) + Efeito(cmd[k])))
    /\ RespeitaLimite(r.id_cliente, SaldoVisto(r))

Enviadas == \A r \in aceitas : \A k \in Conexoes : EnviadaFiel(r, k)

LEMMA EnviadaContinua ==
  ASSUME NEW r, NEW k \in Conexoes, EnviadaFiel(r, k),
         EmVoo(k)' =>
           /\ EmVoo(k) /\ cmd'[k] = cmd[k]
           /\ Cresce(transacao, transacao')
           /\ \A t \in transacao' : t \in transacao \/ t.via # k
  PROVE  EnviadaFiel(r, k)'
<1>. SUFFICES ASSUME EmVoo(k)', cmd'[k].num = r.num
              PROVE  /\ r.visto \subseteq Numeracao(transacao', r.id_cliente)
                     /\ \A t \in DoCliente(transacao', r.id_cliente) :
                          t.via = k => t.num \in r.visto
                     /\ cmd'[k].tipo = "d" =>
                          ~ (ToInt64(SaldoVisto(r)' - cmd'[k].valor)
                               < -Limite[r.id_cliente])
                     /\ r.saldo = ToInt32(ToInt64(SaldoVisto(r)' + Efeito(cmd'[k])))
                     /\ RespeitaLimite(r.id_cliente, SaldoVisto(r)')
  BY DEF EnviadaFiel, RespeitaLimite
<1>1. /\ r.visto \subseteq Numeracao(transacao, r.id_cliente)
      /\ \A t \in DoCliente(transacao, r.id_cliente) :
           t.via = k => t.num \in r.visto
      /\ cmd[k].tipo = "d" =>
           ~ (ToInt64(SaldoVisto(r) - cmd[k].valor) < -Limite[r.id_cliente])
      /\ r.saldo = ToInt32(ToInt64(SaldoVisto(r) + Efeito(cmd[k])))
      /\ RespeitaLimite(r.id_cliente, SaldoVisto(r))
  BY DEF EnviadaFiel
<1>2. /\ Vistas(transacao', r.id_cliente, r.visto)
           = Vistas(transacao, r.id_cliente, r.visto)
      /\ r.visto \subseteq Numeracao(transacao', r.id_cliente)
  <2>1. \A c, visto : visto \subseteq Numeracao(transacao, c) =>
          /\ Vistas(transacao', c, visto) = Vistas(transacao, c, visto)
          /\ visto \subseteq Numeracao(transacao', c)
    BY VistasFicam
  <2>. QED BY <1>1, <2>1
<1>3. \A t \in DoCliente(transacao', r.id_cliente) :
        t.via = k => t \in DoCliente(transacao, r.id_cliente)
  BY DEF DoCliente
<1>4. SaldoVisto(r)' = SaldoVisto(r)
  BY <1>2 DEF SaldoVisto
<1>. QED BY <1>1, <1>2, <1>3, <1>4

(* The message of a new acceptance.                                        *)
LEMMA EnviadaComeca ==
  ASSUME Base, Numeros, AceitasFieis, Leitura, Enviadas,
         NEW a \in Apis, SaveAsync(a)
  PROVE  Enviadas'
<1>. DEFINE p == pedido[a]
<1>a. PICK n : n = [num |-> enviados + 1, via |-> a, id_cliente |-> p.id,
                    descricao |-> p.descricao,
                    saldo |-> ToInt32(update_saldo_cliente(lido[a].saldo, p)),
                    visto |-> lido[a].visto]
  OBVIOUS
<1>b. PICK m : m = Comando(a)
  OBVIOUS
<1>1. /\ aceitas' = aceitas \cup {n}
      /\ transacao' = transacao
      /\ n.num = enviados + 1
  BY <1>a DEF SaveAsync, db_execute_async_true, Recebe, Descarta, Tabelas
<1>2. /\ \A k \in Conexoes :
           EmVoo(k)' => \/ EmVoo(k) /\ cmd'[k] = cmd[k]
                        \/ k = a /\ estado[a] = "ociosa" /\ cmd'[k] = m
      /\ m.num = enviados + 1
  BY <1>b
  DEF SaveAsync, db_execute_async_true, Recebe, Descarta, EmVoo, Comando, Base,
      Coerente, PgTypeOK
<1>3. /\ \A r \in aceitas : r.num \in 1..enviados
      /\ \A k \in Conexoes : EmVoo(k) => cmd[k].num \in 1..enviados
      /\ enviados \in Nat
  BY DEF AceitasFieis, Numeros, NumerosEnviados, Base, Coerente, PgTypeOK
<1>4. EnviadaFiel(n, a)'
  <2>. SUFFICES ASSUME EmVoo(a)', cmd'[a].num = n.num
                PROVE  /\ n.visto \subseteq Numeracao(transacao', n.id_cliente)
                       /\ \A t \in DoCliente(transacao', n.id_cliente) :
                            t.via = a => t.num \in n.visto
                       /\ cmd'[a].tipo = "d" =>
                            ~ (ToInt64(SaldoVisto(n)' - cmd'[a].valor)
                                 < -Limite[n.id_cliente])
                       /\ n.saldo =
                            ToInt32(ToInt64(SaldoVisto(n)' + Efeito(cmd'[a])))
                       /\ RespeitaLimite(n.id_cliente, SaldoVisto(n)')
    BY DEF EnviadaFiel, RespeitaLimite
  <2>1. estado[a] = "ociosa" /\ cmd'[a] = m
    BY <1>1, <1>2, <1>3 DEF Apis
  <2>2. /\ lido[a].visto \subseteq Numeracao(transacao, p.id)
        /\ lido[a].saldo = Soma(Vistas(transacao, p.id, lido[a].visto))
        /\ \A t \in DoCliente(transacao, p.id) :
             t.via = a => t.num \in lido[a].visto
        /\ RespeitaLimite(p.id, lido[a].saldo)
    BY <2>1 DEF Leitura, LeituraDe, Lendo, SaveAsync
  <2>3. n.id_cliente = p.id /\ n.visto = lido[a].visto
    BY <1>a
  <2>4. SaldoVisto(n)' = lido[a].saldo
    BY <1>1, <2>2, <2>3 DEF SaldoVisto
  <2>5. m.tipo = p.tipo /\ m.valor = p.valor
    BY <1>b DEF Comando
  <2>6. p.tipo = "d" => ~ (ToInt64(lido[a].saldo - p.valor) < -Limite[p.id])
    BY DEF SaveAsync, is_limite_excedido
  <2>7. update_saldo_cliente(lido[a].saldo, p) = ToInt64(lido[a].saldo + Efeito(m))
    <3>1. p \in Pedidos /\ TransacaoValida(p)
      BY DEF SaveAsync, Base, TipoApi, PedidosValidados
    <3>2. p.valor \in Nat /\ lido[a].saldo \in Int
      <4>1. p.valor \in Valores \cup {0, NaoInteiro} /\ p.valor # NaoInteiro
        BY <3>1, PedidosAssumption DEF TransacaoValida, is_valor_transacao_valido
      <4>2. p.valor \in Nat
        <5>1. CASE p.valor \in Valores
          BY <5>1, ValoresAssumption
        <5>2. CASE p.valor = 0
          BY <5>2
        <5>. QED BY <4>1, <5>1, <5>2
      <4>. QED BY <4>2 DEF Base, TipoApi, TypeOK
    <3>3. CASE p.tipo = "c"
      BY <2>5, <3>3 DEF update_saldo_cliente, Efeito
    <3>4. CASE p.tipo # "c"
      <4>1. lido[a].saldo - p.valor = lido[a].saldo + (-p.valor)
        BY <3>2
      <4>2. Efeito(m) = -p.valor
        BY <2>5, <3>4 DEF Efeito
      <4>. QED BY <3>4, <4>1, <4>2 DEF update_saldo_cliente
    <3>. QED BY <3>3, <3>4
  <2>8. n.saldo = ToInt32(update_saldo_cliente(lido[a].saldo, p))
    BY <1>a
  <2>. HIDE DEF p
  <2>. QED BY <1>1, <2>1, <2>2, <2>3, <2>4, <2>5, <2>6, <2>7, <2>8
<1>5. ASSUME NEW r \in aceitas, NEW k \in Conexoes
      PROVE  EnviadaFiel(r, k)'
  <2>1. CASE EmVoo(k)' => EmVoo(k) /\ cmd'[k] = cmd[k]
    BY <1>1, <2>1, EnviadaContinua, CresceIgual DEF Enviadas
  <2>2. CASE cmd'[k] = m
    BY <1>2, <1>3, <2>2 DEF EnviadaFiel
  <2>. QED BY <1>2, <2>1, <2>2
<1>6. ASSUME NEW k \in Conexoes, k # a
      PROVE  EnviadaFiel(n, k)'
  BY <1>1, <1>2, <1>3, <1>6 DEF EnviadaFiel
<1>. QED BY <1>1, <1>4, <1>5, <1>6 DEF Enviadas

LEMMA EnviadasPasso ==
  ASSUME Base, Numeros, AceitasFieis, Leitura, Enviadas, [Next]_vars
  PROVE  Enviadas'
<1>0. /\ Apis = Conexoes
      /\ Cresce(transacao, transacao)
      /\ \A r \in aceitas : r.num \in 1..enviados
      /\ enviados \in Nat
      /\ cmd \in [Conexoes -> Comandos \cup {SemComando}]
  BY CresceIgual DEF Apis, AceitasFieis, Base, Coerente, PgTypeOK
<1>1. ASSUME NEW b \in Apis, SaveAsync(b)
      PROVE  Enviadas'
  BY <1>1, EnviadaComeca
<1>2. ASSUME NEW b \in Apis, EnviaEMorre(b)
      PROVE  Enviadas'
  (* Nobody was answered: no accepted transaction has the new number.      *)
  <2>1. /\ UNCHANGED <<transacao, aceitas>>
        /\ \A k \in Conexoes :
             EmVoo(k)' => \/ EmVoo(k) /\ cmd'[k] = cmd[k]
                          \/ cmd'[k].num = enviados + 1
    BY <1>0, <1>2
    DEF EnviaEMorre, Matado, db_execute_async_true, Recebe, Descarta, Tabelas,
        EmVoo
  <2>2. ASSUME NEW r \in aceitas, NEW k \in Conexoes
        PROVE  EnviadaFiel(r, k)'
    <3>1. CASE EmVoo(k)' => EmVoo(k) /\ cmd'[k] = cmd[k]
      BY <1>0, <2>1, <3>1, EnviadaContinua DEF Enviadas
    <3>2. CASE cmd'[k].num = enviados + 1
      BY <1>0, <3>2 DEF EnviadaFiel
    <3>. QED BY <2>1, <3>1, <3>2
  <2>. QED BY <2>1, <2>2 DEF Enviadas
<1>3. ASSUME UNCHANGED <<transacao, aceitas, cmd>>
      PROVE  Enviadas'
  <2>1. ASSUME NEW r \in aceitas, NEW k \in Conexoes
        PROVE  EnviadaFiel(r, k)'
    BY <1>0, <1>3, EnviadaContinua DEF Enviadas, EmVoo
  <2>. QED BY <1>3, <2>1 DEF Enviadas
<1>4. ASSUME NEW b \in Apis,
             \/ Chega(b) \/ Conecta(b) \/ RedefineConexao(b)
             \/ FindOne(b) \/ FindOneNull(b) \/ LimiteExcedido(b)
             \/ SaveAsyncFalse(b) \/ FindLast10(b) \/ FindLast10Null(b)
             \/ Mata(b) \/ Desliga(b)
      PROVE  UNCHANGED <<transacao, aceitas, cmd>>
  BY <1>4
  DEF Chega, SaveTransacao, FindById, RecebePedido, Conecta, RedefineConexao,
      db_connect, db_get_connection_reset, Reconecta, Tabelas, FindOne,
      FindOneNull, LimiteExcedido, SaveAsyncFalse, FindLast10, FindLast10Null,
      RespondeExtrato, Mata, Desliga, Matado, db_close_pool, db_query_ok,
      db_query_null, db_execute_async_false, dbVars, pgVars, apiVars
<1>5. ASSUME NEW k \in Apis, Servidor(k)
      PROVE  Enviadas'
  <2>1. Executa(k) /\ UNCHANGED aceitas
    BY <1>5 DEF Servidor, apiVars
  <2>2. /\ \A j \in Conexoes : j # k => cmd'[j] = cmd[j]
        /\ EmVoo(k) /\ (EmVoo(k)' => cmd'[k] = cmd[k] /\ transacao' = transacao)
        /\ \A t \in transacao' : t \in transacao \/ t.via = k
        /\ Cresce(transacao, transacao')
    BY <1>0, <2>1, ExecutaQuadro DEF Base
  <2>3. ASSUME NEW r \in aceitas, NEW j \in Conexoes
        PROVE  EnviadaFiel(r, j)'
    <3>1. EnviadaFiel(r, j)
      BY DEF Enviadas
    <3>2. CASE j = k
      BY <1>0, <2>2, <3>1, <3>2, EnviadaContinua
    <3>3. CASE j # k
      BY <1>0, <2>2, <3>1, <3>3, EnviadaContinua DEF EmVoo
    <3>. QED BY <3>2, <3>3
  <2>. QED BY <2>1, <2>3 DEF Enviadas
<1>6. CASE Ambiente
  <2>1. UNCHANGED aceitas
    BY <1>6 DEF Ambiente, apiVars
  <2>2. CASE Descarrega
    BY <1>3, <2>1, <2>2 DEF Descarrega
  <2>3. CASE Queda
    <3>1. \A k \in Conexoes : ~EmVoo(k)'
      BY <2>3 DEF Queda, EmVoo
    <3>. QED BY <2>1, <3>1 DEF Enviadas, EnviadaFiel
  <2>. QED BY <1>6, <2>2, <2>3 DEF Ambiente
<1>7. CASE Fim \/ UNCHANGED vars
  BY <1>3, <1>7 DEF Fim, vars, dbVars, pgVars, apiVars
<1>. QED
  BY <1>1, <1>2, <1>3, <1>4, <1>5, <1>6, <1>7 DEF Next, Atende, Sinal
(* The two parts together with what they rest on.                          *)
Leituras ==
  /\ Base /\ Travas /\ Numeros /\ Horas /\ Somas
  /\ Acordo /\ Leitura /\ Enviadas

LEMMA LeiturasInit == Init => Leituras
<1>. SUFFICES ASSUME Init PROVE Leituras
  OBVIOUS
<1>1. Base /\ Travas /\ Numeros /\ Horas /\ Somas
  BY BaseInit, TravasInit, NumerosInit, HorasInit, SomasInit DEF Init
<1>2. Acordo
  BY DEF Init, PgInit, Acordo, AceitasFieis, NadaSemAceite, Presentes,
         LeituraPropria, EmVoo
<1>3. Leitura /\ Enviadas
  BY DEF Init, Leitura, LeituraDe, Lendo, Enviadas
<1>. QED BY <1>1, <1>2, <1>3 DEF Leituras

LEMMA LeiturasPasso ==
  ASSUME Leituras, [Next]_vars
  PROVE  Leituras'
<1>. USE DEF Leituras
<1>1. Base' /\ [PgNext]_pgVars /\ Coerente
  BY BasePasso DEF Base
<1>2. Travas' /\ Numeros' /\ Horas' /\ Somas'
  BY <1>1, TravasPasso, NumerosPasso, HorasPasso, SomasPasso
<1>3. Acordo' /\ Leitura'
  BY AcordoPasso, LeituraPasso
<1>4. Enviadas'
  BY EnviadasPasso DEF Acordo
<1>. QED BY <1>1, <1>2, <1>3, <1>4

LEMMA ApiLeituras == Spec => []Leituras
  BY LeiturasInit, LeiturasPasso, PTL DEF Spec

-----------------------------------------------------------------------------
(* A number that fits its type is not truncated.                           *)
LEMMA TruncaCabe ==
  ASSUME NEW x \in Int, NEW max \in Nat, -(max + 1) <= x, x <= max
  PROVE  Trunca(x, max) = x
<1>. DEFINE y == x + max + 1
<1>. DEFINE m == 2 * (max + 1)
<1>1. y \in Nat /\ m \in Nat \ {0} /\ y < m
  OBVIOUS
<1>. HIDE DEF y, m
<1>2. y % m = y
  BY <1>1
<1>3. Trunca(x, max) = y - (max + 1)
  BY <1>2 DEF Trunca, y, m
<1>. QED BY <1>3 DEF y

(* The limit test of the code does not overflow.  So it is for init.sql's  *)
(* limits and every amount column transacao.valor can store; for an amount *)
(* near the largest of an int64_t, which no table can store but a client   *)
(* may send, the test wraps and accepts it.                                *)
SemEstouro == \A c \in Clientes, v \in Valores : Limite[c] + v <= MaxInt8 + 1

(* Then it means what it says.                                             *)
LEMMA TesteDoLimite ==
  ASSUME SemEstouro, NEW c \in Clientes, NEW v \in Valores, NEW s \in Int,
         RespeitaLimite(c, s), ~ (ToInt64(s - v) < -Limite[c])
  PROVE  RespeitaLimite(c, s - v)
<1>. SUFFICES ASSUME s - v < -Limite[c] PROVE FALSE
  <2>1. Limite[c] \in Nat /\ v \in Nat
    BY LimiteAssumption, ValoresAssumption
  <2>. QED BY <2>1 DEF RespeitaLimite
<1>1. Limite[c] \in Nat /\ v \in Nat /\ MaxInt8 \in Nat /\ s - v \in Int
  BY LimiteAssumption, ValoresAssumption, BoundsAssumption
<1>2. -(MaxInt8 + 1) <= s - v /\ s - v <= MaxInt8
  BY <1>1 DEF RespeitaLimite, SemEstouro
<1>3. ToInt64(s - v) = s - v
  BY <1>1, <1>2, TruncaCabe DEF ToInt64
<1>. QED BY <1>3

(* The refusal of a message: the rows its handler had not seen, all of     *)
(* other processes, took the balance down, so one of them is a debit.      *)
LEMMA RecusaExplicada ==
  ASSUME Leituras, SemEstouro, NEW r \in aceitas, NEW k \in Conexoes,
         RecusaSaldo(k), cmd[k].num = r.num
  PROVE  \E t \in transacao :
           /\ t.id_cliente = r.id_cliente
           /\ t.tipo = "d"
           /\ t.via # r.via
           /\ t.num \notin r.visto
<1>. DEFINE c == r.id_cliente
<1>. DEFINE D == DoCliente(transacao, c)
<1>. DEFINE V == Vistas(transacao, c, r.visto)
<1>. DEFINE v == cmd[k].valor
<1>1. EmVoo(k) /\ cmd[k] \in Comandos /\ cmd[k].via = k
  BY ComandoEmVoo DEF RecusaSaldo, Leituras, Base, Coerente, SessoesCoerentes
<1>2. r.via = k /\ cmd[k].id_cliente = c /\ c \in Clientes /\ v \in Valores
  <2>1. cmd[k] \in Presentes
    BY <1>1 DEF Presentes
  <2>2. r.via = k /\ cmd[k].id_cliente = c
    BY <1>1, <2>1 DEF Leituras, Acordo, AceitasFieis
  <2>. QED BY <1>1, <2>2 DEF Comandos
<1>3. /\ saldo[c] = Soma(D) /\ RespeitaLimite(c, saldo[c])
      /\ ComEfeito(D) /\ Soma(D) \in Int
  BY <1>2, LinhasComEfeito, SomaTipo
  DEF Leituras, Somas, Finitas, Reconcilia, Travas, ChkSaldo, Base, Coerente,
      PgTypeOK
<1>4. ~RespeitaLimite(c, Soma(D) + Efeito(cmd[k]))
  BY <1>2, <1>3 DEF RecusaSaldo, PassaChk, NovoSaldo
<1>5. Limite[c] \in Nat /\ v \in Nat
  BY <1>2, LimiteAssumption, ValoresAssumption
<1>6. cmd[k].tipo = "d" /\ Efeito(cmd[k]) = -v
  <2>1. cmd[k].tipo \in Tipos
    BY <1>1 DEF Comandos
  <2>2. cmd[k].tipo # "c"
    <3>1. cmd[k].tipo = "c" => Efeito(cmd[k]) = v
      BY DEF Efeito
    <3>. HIDE DEF c, v, D
    <3>. QED BY <1>3, <1>4, <1>5, <3>1 DEF RespeitaLimite
  <2>. QED BY <2>1, <2>2 DEF Tipos, Efeito
<1>7. /\ \A t \in D : t.via = k => t.num \in r.visto
      /\ ~ (ToInt64(Soma(V) - v) < -Limite[c])
      /\ RespeitaLimite(c, Soma(V))
  BY <1>1, <1>6 DEF Leituras, Enviadas, EnviadaFiel, SaldoVisto
<1>8. V \subseteq D /\ ComEfeito(V) /\ Soma(V) \in Int
  <2>1. V \subseteq D
    BY DEF Vistas
  <2>. QED BY <1>3, <2>1, SomaDivide, SomaTipo
<1>9. RespeitaLimite(c, Soma(V) - v)
  BY <1>2, <1>7, <1>8, TesteDoLimite
<1>10. SUFFICES ASSUME \A t \in D \ V : t.tipo # "d"
                PROVE  FALSE
  <2>1. \A t \in D \ V : /\ t \in transacao /\ t.id_cliente = c
                         /\ t.num \notin r.visto /\ t.via # k
    BY <1>7 DEF Vistas, DoCliente
  <2>. QED BY <1>2, <2>1
<1>11. \A t \in D \ V : Efeito(t) >= 0
  <2>. SUFFICES ASSUME NEW t \in D \ V
                PROVE  Efeito(t) >= 0
    OBVIOUS
  <2>1. t \in Linhas
    BY DEF DoCliente, Leituras, Base, Coerente, PgTypeOK
  <2>2. t.tipo = "c" /\ t.valor \in Valores
    BY <1>10, <2>1 DEF Linhas, Tipos
  <2>3. t.valor \in Nat
    BY <2>2, ValoresAssumption
  <2>. QED BY <2>2, <2>3 DEF Efeito
<1>12. Soma(V) <= Soma(D)
  BY <1>3, <1>8, <1>11, SomaCresce
<1>. HIDE DEF V, D, c, v
<1>. QED BY <1>3, <1>4, <1>5, <1>6, <1>8, <1>9, <1>12 DEF RespeitaLimite

(* Crashes are only ever added.                                            *)
LEMMA QuedasContam ==
  ASSUME Coerente, [PgNext]_pgVars
  PROVE  /\ quedas \in Nat /\ quedas <= quedas'
         /\ quedas' = 0 => quedas = 0 /\ ~Queda
<1>1. quedas \in Nat
  BY DEF Coerente, PgTypeOK
<1>2. quedas' = quedas \/ (Queda /\ quedas' = quedas + 1)
  BY DEF PgNext, Executa, Pede, Recebe, Descarta, RecusaTexto, RecusaBigint,
         RecusaSaldo, RecusaValor, Falha, Inicia, Atualiza, Grava, Reconecta,
         Descarrega, Queda, pgVars
<1>3. Queda => quedas' = quedas + 1
  BY DEF Queda
<1>. QED BY <1>1, <1>2, <1>3

(* Without a crash rows stay, and who is refused by chk_saldo is refused   *)
(* by RecusaSaldo.                                                         *)
LEMMA RecusadaAgora ==
  ASSUME Coerente, quedas' = 0, [PgNext]_pgVars
  PROVE  /\ transacao \subseteq transacao'
         /\ \A q \in perdidas' :
              q.motivo = "chk_saldo" =>
                \/ q \in perdidas
                \/ \E k \in Conexoes : RecusaSaldo(k) /\ q.num = cmd[k].num
<1>1. ASSUME NEW k \in Conexoes, NEW t \in Comandos, Recebe(k, t) \/ Descarta(k, t)
      PROVE  /\ UNCHANGED transacao
             /\ \A q \in perdidas' : q \in perdidas \/ q.motivo = "queda"
  BY <1>1 DEF Recebe, Descarta, Tabelas
<1>2. ASSUME NEW k \in Conexoes, NEW motivo, Falha(k, motivo)
      PROVE  /\ UNCHANGED transacao
             /\ \A q \in perdidas' : q \in perdidas
                                     \/ q = [num |-> cmd[k].num, motivo |-> motivo]
  BY <1>2 DEF Falha, Tabelas
<1>3. ASSUME NEW k \in Conexoes, RecusaTexto(k) \/ RecusaBigint(k) \/ RecusaValor(k)
      PROVE  /\ UNCHANGED transacao
             /\ \A q \in perdidas' : q \in perdidas \/ q.motivo # "chk_saldo"
  BY <1>2, <1>3 DEF RecusaTexto, RecusaBigint, RecusaValor
<1>4. ASSUME NEW k \in Conexoes, RecusaSaldo(k)
      PROVE  /\ UNCHANGED transacao
             /\ \A q \in perdidas' : q \in perdidas \/ q.num = cmd[k].num
  BY <1>2, <1>4 DEF RecusaSaldo
<1>5. ASSUME NEW k \in Conexoes,
             Inicia(k) \/ Atualiza(k) \/ Reconecta(k) \/ Grava(k)
      PROVE  transacao \subseteq transacao' /\ UNCHANGED perdidas
  BY <1>5 DEF Inicia, Atualiza, Reconecta, Grava, Tabelas
<1>6. CASE Descarrega \/ UNCHANGED pgVars
  BY <1>6 DEF Descarrega, pgVars
<1>7. ~Queda
  BY QuedasContam
<1>. QED
  BY <1>1, <1>3, <1>4, <1>5, <1>6, <1>7 DEF PgNext, Executa, Pede

LEMMA PerdaExplicadaPasso ==
  ASSUME Leituras, SemEstouro, quedas = 0 => PerdaExplicada, [Next]_vars
  PROVE  quedas' = 0 => PerdaExplicada'
<1>. SUFFICES ASSUME quedas' = 0, NEW r \in aceitas',
                     [num |-> r.num, motivo |-> "chk_saldo"] \in perdidas'
              PROVE  \E t \in transacao' : /\ t.id_cliente = r.id_cliente
                                           /\ t.tipo = "d"
                                           /\ t.via # r.via
                                           /\ t.num \notin r.visto
  BY DEF PerdaExplicada
<1>. DEFINE q == [num |-> r.num, motivo |-> "chk_saldo"]
<1>0. Base /\ Coerente /\ [PgNext]_pgVars
  BY BasePasso DEF Leituras, Base
<1>1. Base /\ Coerente /\ PerdaExplicada
  BY <1>0, QuedasContam
<1>2. /\ transacao \subseteq transacao'
      /\ q \in perdidas \/ \E k \in Conexoes : RecusaSaldo(k) /\ r.num = cmd[k].num
  BY <1>0, RecusadaAgora
<1>3. r \in aceitas
  (* A new acceptance has a number that nothing is lost under.             *)
  <2>. SUFFICES ASSUME r \notin aceitas PROVE FALSE
    OBVIOUS
  <2>1. r.num = enviados + 1 /\ q \in perdidas
    BY <1>1, AceitasNovas
  <2>2. r.num \in 1..enviados
    BY <2>1 DEF Leituras, Numeros, NumerosEnviados
  <2>. QED BY <1>1, <2>1, <2>2 DEF Coerente, PgTypeOK
<1>4. CASE q \in perdidas
  BY <1>1, <1>2, <1>3, <1>4 DEF PerdaExplicada
<1>5. CASE \E k \in Conexoes : RecusaSaldo(k) /\ r.num = cmd[k].num
  BY <1>2, <1>3, <1>5, RecusaExplicada
<1>. QED BY <1>2, <1>4, <1>5

(* As long as the database server has not crashed and if no limit test     *)
(* can overflow, for any number of processes: an accepted transaction is   *)
(* refused by the constraint only if another process committed, after the  *)
(* handler read the balance, a debit of the same account.  The texts are   *)
(* those of Textos, which have no quotes.                                  *)
THEOREM ApiPerdaExplicada ==
  ASSUME SemEstouro
  PROVE  Spec => [](quedas = 0 => PerdaExplicada)
<1>1. Init => (quedas = 0 => PerdaExplicada)
  BY DEF Init, PerdaExplicada
<1>2. Leituras /\ (quedas = 0 => PerdaExplicada) /\ [Next]_vars
        => (quedas = 0 => PerdaExplicada)'
  BY PerdaExplicadaPasso
<1>. QED BY <1>1, <1>2, ApiLeituras, PTL DEF Spec
-----------------------------------------------------------------------------
(* What a query with "order by realizada_em desc limit n" returns.  If     *)
(* some row is left out, take one with the fewest newer rows: those are at *)
(* least n, and each of them, having fewer newer rows still, is in.        *)
MaisNovas(T, n) == {u \in T : Cardinality(MaisNovasQue(u, T)) < n}

LEMMA MaisNovasTipo ==
  ASSUME NEW T, IsFiniteSet(T), NEW u
  PROVE  /\ IsFiniteSet(MaisNovasQue(u, T))
         /\ Cardinality(MaisNovasQue(u, T)) \in Nat
  BY FS_Subset, FS_CardinalityType DEF MaisNovasQue

LEMMA LimiteCheio ==
  ASSUME NEW T, IsFiniteSet(T), \A t \in T : t.realizada_em \in Nat,
         NEW n \in Nat, MaisNovas(T, n) # T
  PROVE  Cardinality(MaisNovas(T, n)) >= n
<1>. DEFINE A == MaisNovas(T, n)
<1>. DEFINE quantas(u) == Cardinality(MaisNovasQue(u, T))
<1>. DEFINE Q == {quantas(u) : u \in T \ A}
<1>1. A \subseteq T /\ IsFiniteSet(A) /\ Cardinality(A) \in Nat
  <2>1. A \subseteq T
    BY DEF MaisNovas
  <2>. QED BY <2>1, FS_Subset, FS_CardinalityType
<1>2. PICK q \in Q : \A m \in Q : q <= m
  <2>1. Q \subseteq Nat
    BY MaisNovasTipo
  <2>2. Q # {}
    BY <1>1
  <2>. HIDE DEF Q
  <2>. QED BY <2>1, <2>2, MenorElemento
<1>3. PICK u \in T \ A : quantas(u) = q
  OBVIOUS
<1>4. quantas(u) >= n /\ quantas(u) \in Nat
  BY <1>3, MaisNovasTipo DEF MaisNovas
<1>5. MaisNovasQue(u, T) \subseteq A
  <2>. SUFFICES ASSUME NEW w \in MaisNovasQue(u, T), w \notin A
                PROVE  FALSE
    OBVIOUS
  <2>1. w \in T /\ w.realizada_em > u.realizada_em
    BY DEF MaisNovasQue
  <2>2. MaisNovasQue(w, T) \subseteq MaisNovasQue(u, T) \ {w}
    BY <2>1 DEF MaisNovasQue
  <2>3. IsFiniteSet(MaisNovasQue(u, T) \ {w})
        /\ Cardinality(MaisNovasQue(u, T) \ {w}) = quantas(u) - 1
    BY MaisNovasTipo, MenosUm
  <2>4. quantas(w) <= quantas(u) - 1
    BY <2>2, <2>3, FS_Subset
  <2>5. q <= quantas(w) /\ quantas(w) \in Nat
    BY <1>2, <2>1, MaisNovasTipo
  <2>. HIDE DEF quantas, Q
  <2>. QED BY <1>3, <1>4, <2>4, <2>5
<1>6. quantas(u) <= Cardinality(A)
  BY <1>1, <1>5, FS_Subset
<1>. HIDE DEF quantas, A
<1>7. Cardinality(A) >= n
  BY <1>1, <1>4, <1>6
<1>. QED BY <1>7 DEF A

(* And of rows of different instants no more than n are returned: all but  *)
(* the oldest are newer than it.                                           *)
LEMMA LimiteNuncaPassa ==
  ASSUME NEW T, IsFiniteSet(T), \A t \in T : t.realizada_em \in Nat,
         \A s, t \in T : s.realizada_em = t.realizada_em => s = t,
         NEW n \in Nat
  PROVE  Cardinality(MaisNovas(T, n)) <= n
<1>. DEFINE A == MaisNovas(T, n)
<1>. DEFINE Q == {u.realizada_em : u \in A}
<1>1. A \subseteq T /\ IsFiniteSet(A) /\ Cardinality(A) \in Nat
  <2>1. A \subseteq T
    BY DEF MaisNovas
  <2>. QED BY <2>1, FS_Subset, FS_CardinalityType
<1>2. CASE A = {}
  BY <1>2, FS_EmptySet
<1>3. CASE A # {}
  <2>1. PICK q \in Q : \A m \in Q : q <= m
    <3>1. Q \subseteq Nat /\ Q # {}
      BY <1>1, <1>3
    <3>. HIDE DEF Q
    <3>. QED BY <3>1, MenorElemento
  <2>2. PICK w \in A : w.realizada_em = q
    OBVIOUS
  <2>3. A \ {w} \subseteq MaisNovasQue(w, T)
    <3>. SUFFICES ASSUME NEW u \in A \ {w}
                  PROVE  u \in MaisNovasQue(w, T)
      OBVIOUS
    <3>1. u \in T /\ w \in T /\ u.realizada_em \in Nat /\ w.realizada_em \in Nat
      BY <1>1
    <3>2. w.realizada_em <= u.realizada_em
      BY <2>1, <2>2
    <3>3. u.realizada_em # w.realizada_em
      BY <3>1
    <3>. QED BY <3>1, <3>2, <3>3 DEF MaisNovasQue
  <2>4. Cardinality(A \ {w}) <= Cardinality(MaisNovasQue(w, T))
    BY <2>3, MaisNovasTipo, FS_Subset
  <2>5. Cardinality(MaisNovasQue(w, T)) < n
    BY DEF MaisNovas
  <2>6. Cardinality(A \ {w}) = Cardinality(A) - 1
    BY <1>1, MenosUm
  <2>7. Cardinality(MaisNovasQue(w, T)) \in Nat
    BY MaisNovasTipo
  <2>. HIDE DEF A, Q
  <2>8. Cardinality(A) <= n
    BY <1>1, <2>4, <2>5, <2>6, <2>7
  <2>. QED BY <2>8 DEF A
<1>. QED BY <1>2, <1>3

-----------------------------------------------------------------------------
(* The third part: transactions begin at different instants, and their     *)
(* descriptions were copied before they are read back.                     *)
Comecou(k) == estado[k] \in {"iniciada", "alterada"}

Instantes ==
  /\ \A s, t \in transacao : s.realizada_em = t.realizada_em => s = t
  /\ \A k \in Conexoes : Comecou(k) =>
       /\ \A t \in transacao : t.realizada_em # inicio[k]
       /\ \A j \in Conexoes : Comecou(j) /\ inicio[j] = inicio[k] => j = k

Guardadas == \A t \in transacao : t.descricao \in Descricoes

(* Steps after which there is no new row and no transaction that has begun *)
(* later.                                                                  *)
LEMMA InstantesQuadro ==
  ASSUME Instantes, Guardadas, transacao' \subseteq transacao, UNCHANGED inicio,
         \A k \in Conexoes : Comecou(k)' => Comecou(k)
  PROVE  Instantes' /\ Guardadas'
<1>1. Instantes'
  BY DEF Instantes
<1>. QED BY <1>1 DEF Guardadas

LEMMA InstantesPasso ==
  ASSUME Coerente, Numeros, Horas, Instantes, Guardadas, [PgNext]_pgVars
  PROVE  Instantes' /\ Guardadas'
<1>0. /\ estado \in [Conexoes -> Estados] /\ inicio \in [Conexoes -> Nat]
      /\ relogio \in Nat
      /\ \A t \in transacao : t.realizada_em \in Nat
  BY DEF Coerente, PgTypeOK, Linhas
<1>1. ASSUME NEW k \in Conexoes, NEW t \in Comandos,
             Recebe(k, t) \/ Descarta(k, t)
      PROVE  Instantes' /\ Guardadas'
  BY <1>0, <1>1, InstantesQuadro DEF Recebe, Descarta, Tabelas, Comecou
<1>2. ASSUME NEW k \in Conexoes, NEW motivo, Falha(k, motivo)
      PROVE  Instantes' /\ Guardadas'
  BY <1>0, <1>2, InstantesQuadro DEF Falha, Tabelas, Comecou
<1>3. ASSUME NEW k \in Conexoes,
             \/ RecusaTexto(k) \/ RecusaBigint(k) \/ RecusaSaldo(k)
             \/ RecusaValor(k)
      PROVE  Instantes' /\ Guardadas'
  BY <1>2, <1>3 DEF RecusaTexto, RecusaBigint, RecusaSaldo, RecusaValor
<1>4. ASSUME NEW k \in Conexoes, Inicia(k)
      PROVE  Instantes' /\ Guardadas'
  (* The clock is ahead of everything that has begun.                      *)
  <2>1. /\ UNCHANGED transacao
        /\ inicio'[k] = relogio
        /\ \A j \in Conexoes : j # k =>
             inicio'[j] = inicio[j] /\ (Comecou(j)' <=> Comecou(j))
    BY <1>0, <1>4 DEF Inicia, Tabelas, Comecou
  <2>2. /\ \A t \in transacao : t.realizada_em < relogio
        /\ \A j \in Conexoes : Comecou(j) => inicio[j] < relogio
    BY DEF Horas, RelogioAdiante, Comecou
  <2>3. Instantes'
    BY <1>0, <2>1, <2>2 DEF Instantes
  <2>. QED BY <2>1, <2>3 DEF Guardadas
<1>5. ASSUME NEW k \in Conexoes, Atualiza(k) \/ Reconecta(k)
      PROVE  Instantes' /\ Guardadas'
  BY <1>0, <1>5, InstantesQuadro DEF Atualiza, Reconecta, Tabelas, Comecou
<1>6. ASSUME NEW k \in Conexoes, Grava(k)
      PROVE  Instantes' /\ Guardadas'
  <2>0. PICK n : n = NovaLinha(k)
    OBVIOUS
  <2>1. /\ transacao' = transacao \cup {n} /\ UNCHANGED inicio
        /\ n.realizada_em = inicio[k] /\ n.descricao = cmd[k].descricao
        /\ Comecou(k) /\ ~Comecou(k)'
        /\ \A j \in Conexoes : j # k => (Comecou(j)' <=> Comecou(j))
    BY <1>0, <1>6, <2>0 DEF Grava, NovaLinha, Comecou
  <2>2. cmd[k].descricao \in Descricoes
    <3>1. cmd[k] \in Comandos
      BY <1>6, ComandoEmVoo DEF Grava, Coerente, SessoesCoerentes
    <3>. QED BY <3>1 DEF Comandos
  <2>3. Instantes'
    BY <2>1 DEF Instantes
  <2>. QED BY <2>1, <2>2, <2>3 DEF Guardadas
<1>7. CASE Descarrega \/ UNCHANGED pgVars
  BY <1>7, InstantesQuadro DEF Descarrega, pgVars, Comecou
<1>8. CASE Queda
  BY <1>8, InstantesQuadro DEF Queda, Comecou, Numeros, NumerosUnicos
<1>. QED
  BY <1>1, <1>3, <1>4, <1>5, <1>6, <1>7, <1>8 DEF PgNext, Executa, Pede

(* So the query of an extrato returns rows of the table as they are: all   *)
(* the rows of the client, or exactly as many as its limit.                *)
LEMMA ListaContada ==
  ASSUME Coerente, Somas, Instantes, Guardadas, NEW c
  PROVE  /\ UltimasTransacoes(c) \subseteq DoCliente(transacao, c)
         /\ \/ UltimasTransacoes(c) = DoCliente(transacao, c)
            \/ Cardinality(UltimasTransacoes(c)) = LimiteExtrato
<1>. DEFINE T == DoCliente(transacao, c)
<1>. DEFINE N == LimiteExtrato
<1>. DEFINE lida(t) ==
       [t EXCEPT !.descricao = strzcpy(@, UTF8_TRANSACAO_DESCRICAO_LEN)]
<1>1. /\ T \subseteq transacao /\ T \subseteq Linhas /\ IsFiniteSet(T)
      /\ N \in Nat
  <2>1. T \subseteq transacao
    BY DEF DoCliente
  <2>. QED
    BY <2>1, FS_Subset, BoundsAssumption
    DEF Somas, Finitas, Coerente, PgTypeOK
<1>2. \A t \in T : lida(t) = t
  <2>. SUFFICES ASSUME NEW t \in T PROVE lida(t) = t
    OBVIOUS
  <2>1. UTF8_TRANSACAO_DESCRICAO_LEN \in Nat
    BY TextosAssumption DEF UTF8_TRANSACAO_DESCRICAO_LEN
  <2>2. PICK s \in Textos : t.descricao = strzcpy(s, UTF8_TRANSACAO_DESCRICAO_LEN)
    BY <1>1 DEF Guardadas, Descricoes
  <2>3. strzcpy(t.descricao, UTF8_TRANSACAO_DESCRICAO_LEN) = t.descricao
    BY <2>1, <2>2, TextosAssumption, StrzcpyDuasVezes
  <2>. QED BY <1>1, <2>3 DEF Linhas
<1>3. UltimasTransacoes(c) = {lida(t) : t \in MaisNovas(T, N)}
  BY DEF UltimasTransacoes, MaisNovas
<1>4. MaisNovas(T, N) \subseteq T
  BY DEF MaisNovas
<1>5. UltimasTransacoes(c) = MaisNovas(T, N)
  <2>. HIDE DEF lida, T
  <2>. QED BY <1>2, <1>3, <1>4
<1>6. /\ \A t \in T : t.realizada_em \in Nat
      /\ \A s, t \in T : s.realizada_em = t.realizada_em => s = t
  BY <1>1 DEF Linhas, Instantes
<1>7. MaisNovas(T, N) # T => Cardinality(MaisNovas(T, N)) = N
  <2>. SUFFICES ASSUME MaisNovas(T, N) # T
                PROVE  Cardinality(MaisNovas(T, N)) = N
    OBVIOUS
  <2>1. Cardinality(MaisNovas(T, N)) >= N
    BY <1>1, <1>6, LimiteCheio
  <2>2. Cardinality(MaisNovas(T, N)) <= N
    BY <1>1, <1>6, LimiteNuncaPassa
  <2>3. Cardinality(MaisNovas(T, N)) \in Nat
    BY <1>1, <1>4, FS_Subset, FS_CardinalityType
  <2>. QED BY <1>1, <2>1, <2>2, <2>3
<1>. QED BY <1>4, <1>5, <1>7
-----------------------------------------------------------------------------
(* The answers.  An extrato changes only when its process answers one, and *)
(* then it holds what the handler has read and what the query returned.    *)
ExtratoSoma(a) ==
  LET e == extrato[a]
      novas == {t \in e.lista : t.num \notin e.visto}
  IN e # SemExtrato =>
       /\ \A t \in novas : t.via # a
       /\ /\ Cardinality(e.lista) < LimiteExtrato
          /\ CabeEmInt(Soma(e.lista \ novas))
          => e.total = Soma(e.lista \ novas)

ExtratoTudo(a) ==
  LET e == extrato[a]
  IN e # SemExtrato =>
       \/ e.visto \subseteq {t.num : t \in e.lista}
       \/ Cardinality(e.lista) = LimiteExtrato
       \/ quedas > 0 /\ e.lista = {}

Respondidos ==
  /\ quedas = 0 => \A a \in Apis : ExtratoSoma(a)
  /\ \A a \in Apis : ExtratoTudo(a)

ExtratosFieis == Leituras /\ Vida /\ Instantes /\ Guardadas /\ Respondidos

(* An answer made of two successful queries.                               *)
LEMMA RespondeuInteiro ==
  ASSUME Leituras, Instantes, Guardadas, NEW a \in Apis, FindLast10(a)
  PROVE  ExtratoSoma(a)' /\ ExtratoTudo(a)'
<1>a. PICK c : c = pedido[a].id
  OBVIOUS
<1>b. PICK lista : lista = UltimasTransacoes(c)
  OBVIOUS
<1>c. PICK visto : visto = lido[a].visto
  OBVIOUS
<1>d. PICK e : e = [id |-> c, total |-> ToInt32(lido[a].saldo),
                    visto |-> visto, lista |-> lista]
  OBVIOUS
<1>1. extrato'[a] = e
  <2>1. extrato \in [Apis -> Extratos \cup {SemExtrato}]
    BY DEF Leituras, Base, TipoApi, TypeOK
  <2>. QED
    BY <1>a, <1>b, <1>c, <1>d, <2>1 DEF FindLast10, RespondeExtrato
<1>2. e.visto = visto /\ e.lista = lista /\ e.total = ToInt32(lido[a].saldo)
  BY <1>d
<1>3. /\ visto \subseteq Numeracao(transacao, c)
      /\ lido[a].saldo = Soma(Vistas(transacao, c, visto))
      /\ \A t \in DoCliente(transacao, c) : t.via = a => t.num \in visto
  <2>1. Lendo(a) /\ estado[a] = "ociosa"
    BY DEF FindLast10, RespondeExtrato, db_query_ok, Lendo
  <2>. QED BY <1>a, <1>c, <2>1 DEF Leituras, Leitura, LeituraDe
<1>4. /\ lista \subseteq DoCliente(transacao, c)
      /\ lista = DoCliente(transacao, c) \/ Cardinality(lista) = LimiteExtrato
  BY <1>b, ListaContada DEF Leituras, Base
<1>5. ExtratoTudo(a)'
  <2>1. \/ visto \subseteq {t.num : t \in lista}
        \/ Cardinality(lista) = LimiteExtrato
    BY <1>3, <1>4 DEF Numeracao
  <2>. QED BY <1>1, <1>2, <2>1 DEF ExtratoTudo
<1>6. PICK novas : novas = {t \in lista : t.num \notin visto}
  OBVIOUS
<1>7. \A t \in novas : t.via # a
  BY <1>3, <1>4, <1>6
<1>8. ASSUME Cardinality(lista) < LimiteExtrato, CabeEmInt(Soma(lista \ novas))
      PROVE  ToInt32(lido[a].saldo) = Soma(lista \ novas)
  <2>1. lista = DoCliente(transacao, c)
    BY <1>4, <1>8, BoundsAssumption
  <2>2. lista \ novas = Vistas(transacao, c, visto)
    BY <1>6, <2>1 DEF Vistas
  <2>3. lido[a].saldo \in Int
    BY DEF Leituras, Base, TipoApi, TypeOK
  <2>4. lido[a].saldo = Soma(lista \ novas)
    BY <1>3, <2>2
  <2>. QED
    BY <1>8, <2>3, <2>4, TruncaCabe, LimitesAssumption DEF CabeEmInt, ToInt32
<1>9. ExtratoSoma(a)'
  BY <1>1, <1>2, <1>6, <1>7, <1>8 DEF ExtratoSoma
<1>. QED BY <1>5, <1>9

(* An answer whose second query failed: only after a crash.                *)
LEMMA RespondeuVazio ==
  ASSUME Base, Vida, NEW a \in Apis, FindLast10Null(a)
  PROVE  quedas > 0 /\ quedas' = quedas /\ extrato'[a].lista = {}
<1>1. /\ pc[a] = "find_last_10" /\ UNCHANGED pgVars
      /\ pool[a] = "BAD" \/ estado[a] = "fechada"
  BY DEF FindLast10Null, RespondeExtrato, db_query_null
<1>2. quedas # 0 /\ quedas \in Nat
  BY <1>1 DEF Vida, SessaoViva, Base, TipoApi, TypeOK, PgTypeOK
<1>3. extrato'[a].lista = {}
  BY DEF FindLast10Null, RespondeExtrato, Base, TipoApi, TypeOK
<1>. QED BY <1>1, <1>2, <1>3 DEF pgVars

LEMMA ExtratosMudam ==
  ASSUME [Next]_vars
  PROVE  \/ UNCHANGED extrato
         \/ \E a \in Apis : FindLast10(a) \/ FindLast10Null(a)
  BY DEF Next, Chega, SaveTransacao, FindById, RecebePedido, Atende, Conecta,
         RedefineConexao, FindOne, FindOneNull, LimiteExcedido, SaveAsync,
         SaveAsyncFalse, Sinal, Mata, EnviaEMorre, Desliga, Matado, Servidor,
         Ambiente, Fim, vars, apiVars

LEMMA RespondidosPasso ==
  ASSUME Leituras, Vida, Instantes, Guardadas, Respondidos, [Next]_vars
  PROVE  Respondidos'
<1>0. quedas \in Nat /\ quedas <= quedas' /\ (quedas' = 0 => quedas = 0)
  <2>1. Coerente /\ [PgNext]_pgVars
    BY BasePasso DEF Leituras, Base
  <2>. QED BY <2>1, QuedasContam
<1>1. ASSUME NEW a \in Apis, extrato'[a] = extrato[a]
      PROVE  (quedas' = 0 => ExtratoSoma(a)') /\ ExtratoTudo(a)'
  <2>1. quedas' = 0 => ExtratoSoma(a)'
    BY <1>0, <1>1 DEF Respondidos, ExtratoSoma
  <2>2. ExtratoTudo(a)'
    <3>1. ExtratoTudo(a) /\ (quedas > 0 => quedas' > 0)
      BY <1>0, BasePasso
      DEF Respondidos, Leituras, Base, TipoApi, TypeOK, PgTypeOK
    <3>. QED BY <1>1, <3>1 DEF ExtratoTudo
  <2>. QED BY <2>1, <2>2
<1>2. CASE UNCHANGED extrato
  BY <1>1, <1>2 DEF Respondidos
<1>3. ASSUME NEW a \in Apis, FindLast10(a) \/ FindLast10Null(a)
      PROVE  Respondidos'
  <2>1. \A b \in Apis : b # a => extrato'[b] = extrato[b]
    <3>1. extrato \in [Apis -> Extratos \cup {SemExtrato}]
      BY DEF Leituras, Base, TipoApi, TypeOK
    <3>. QED BY <1>3, <3>1 DEF FindLast10, FindLast10Null, RespondeExtrato
  <2>2. (quedas' = 0 => ExtratoSoma(a)') /\ ExtratoTudo(a)'
    <3>1. CASE FindLast10(a)
      BY <3>1, RespondeuInteiro
    <3>2. CASE FindLast10Null(a)
      <4>1. quedas' > 0 /\ extrato'[a].lista = {} /\ quedas' # 0
        BY <1>0, <3>2, RespondeuVazio DEF Leituras
      <4>. QED BY <4>1 DEF ExtratoTudo
    <3>. QED BY <1>3, <3>1, <3>2
  <2>. QED BY <1>1, <2>1, <2>2 DEF Respondidos
<1>. QED BY <1>2, <1>3, ExtratosMudam

LEMMA ApiExtratos == Spec => []ExtratosFieis
<1>1. Init => ExtratosFieis
  <2>. SUFFICES ASSUME Init PROVE ExtratosFieis
    OBVIOUS
  <2>1. Leituras
    BY LeiturasInit
  <2>2. Vida /\ Instantes /\ Guardadas
    BY DEF Init, PgInit, Vida, MorteExplicada, SessaoViva, Instantes, Comecou,
           Guardadas
  <2>3. Respondidos
    BY DEF Init, Respondidos, ExtratoSoma, ExtratoTudo
  <2>. QED BY <2>1, <2>2, <2>3 DEF ExtratosFieis
<1>2. ExtratosFieis /\ [Next]_vars => ExtratosFieis'
  <2>. SUFFICES ASSUME ExtratosFieis, [Next]_vars PROVE ExtratosFieis'
    OBVIOUS
  <2>1. Leituras' /\ Vida' /\ Respondidos'
    BY LeiturasPasso, VidaPasso, RespondidosPasso DEF ExtratosFieis, Leituras
  <2>2. Coerente /\ [PgNext]_pgVars
    BY BasePasso DEF ExtratosFieis, Leituras, Base
  <2>3. Instantes' /\ Guardadas'
    BY <2>2, InstantesPasso DEF ExtratosFieis, Leituras
  <2>. QED BY <2>1, <2>3 DEF ExtratosFieis
<1>. QED BY <1>1, <1>2, PTL DEF Spec

(* As long as the database server has not crashed, for any number of       *)
(* processes, clients and rows and any limit of the query: the rows an     *)
(* extrato shows that are not in its total are other processes', and the   *)
(* others, when none is left out, add up to it.  The texts are those of     *)
(* Textos, which have no quotes.                                           *)
THEOREM ApiExtratoConsistente == Spec => [](quedas = 0 => ExtratoConsistente)
<1>1. ExtratosFieis => (quedas = 0 => ExtratoConsistente)
  BY DEF ExtratosFieis, Respondidos, ExtratoSoma, ExtratoConsistente
<1>. QED BY <1>1, ApiExtratos, PTL

(* In every behaviour: a row in the total of an extrato is in its list,    *)
(* unless the list is full or a crash emptied it.  The texts are those of  *)
(* Textos, which have no quotes.                                           *)
THEOREM ApiExtratoCompleto == Spec => []ExtratoCompleto
<1>1. ExtratosFieis => ExtratoCompleto
  BY DEF ExtratosFieis, Respondidos, ExtratoTudo, ExtratoCompleto
<1>. QED BY <1>1, ApiExtratos, PTL
=============================================================================
