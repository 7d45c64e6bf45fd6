----------------------------- MODULE ContaProofs -----------------------------
(***************************************************************************)
(* Theorems about the API when it is ONE process: what the asynchronous    *)
(* writes cost does not show.  With two processes each of them is false    *)
(* (run api_limite).                                                       *)
(*                                                                         *)
(* One process waits for its own message before it reads again, so every   *)
(* row of the table is in what it has read (LidoAtual).  It follows that   *)
(*   Cabem   a message is within the limit when it is sent and until it is *)
(*           committed;                                                    *)
(*   Exatos  the rows are committed in the order of their numbers, and     *)
(*           reach the disk in that order, so a crash takes away the last. *)
(***************************************************************************)
EXTENDS ExtratoProofs

SoUmaApi == \A a, b \in Apis : a = b

LEMMA LinhasDaApi ==
  ASSUME SoUmaApi, Coerente, NEW a \in Apis
  PROVE  \A t \in transacao : t.via = a
<1>1. \A t \in transacao : t.via \in Conexoes
  BY DEF Coerente, PgTypeOK, Linhas
<1>. QED BY <1>1 DEF SoUmaApi, Apis

(* Rows that have all been seen are all the rows.                          *)
LEMMA TodasVistas ==
  ASSUME NEW T, NEW c, NEW visto, \A t \in DoCliente(T, c) : t.num \in visto
  PROVE  Vistas(T, c, visto) = DoCliente(T, c)
  BY DEF Vistas

LEMMA LidoAtual ==
  ASSUME SoUmaApi, Leituras, NEW a \in Apis, Lendo(a), estado[a] = "ociosa"
  PROVE  /\ pedido[a].id \in Clientes
         /\ lido[a].saldo = saldo[pedido[a].id]
<1>. DEFINE c == pedido[a].id
<1>1. c \in Clientes
  BY DEF Leituras, Base, TipoApi, PedidosValidados, Lendo
<1>2. lido[a].saldo = Soma(Vistas(transacao, c, lido[a].visto))
      /\ \A t \in DoCliente(transacao, c) : t.via = a => t.num \in lido[a].visto
  BY DEF Leituras, Leitura, LeituraDe
<1>3. \A t \in DoCliente(transacao, c) : t.num \in lido[a].visto
  <2>1. \A t \in transacao : t.via = a
    BY LinhasDaApi DEF Leituras, Base
  <2>. QED BY <1>2, <2>1 DEF DoCliente
<1>4. lido[a].saldo = Soma(DoCliente(transacao, c))
  BY <1>2, <1>3, TodasVistas
<1>. QED BY <1>1, <1>4 DEF Leituras, Somas, Reconcilia

-----------------------------------------------------------------------------
(* What is in flight.                                                      *)
EmVooDe(c) == {k \in Conexoes : EmVoo(k) /\ cmd[k].id_cliente = c}

LEMMA SomaEmVoo ==
  ASSUME NEW c, IsFiniteSet(EmVooDe(c)),
         NEW f, \A k \in EmVooDe(c) : f[k] = Efeito(cmd[k]) /\ f[k] \in Int
  PROVE  Prometido(c) = saldo[c] + SomaDe(f, EmVooDe(c))
<1>. DEFINE K == EmVooDe(c)
<1>. DEFINE Tabela(g) ==
       g = [s \in SUBSET K |->
              IF s = {} THEN 0
              ELSE Efeito(cmd[Escolhido(s)]) + g[s \ {Escolhido(s)}]]
<1>. DEFINE e == CHOOSE g : Tabela(g)
<1>1. Inteira(f, K)
  BY DEF Inteira
<1>2. \A s \in SUBSET K : s # {} => f[Escolhido(s)] = Efeito(cmd[Escolhido(s)])
  BY EscolhidoPertence
<1>3. \A g : Tabela(g) <=> Parciais(f, K, g)
  BY <1>2 DEF Parciais
<1>4. PICK h \in [SUBSET K -> Int] : Parciais(f, K, h) /\ SomaDe(f, K) = h[K]
  BY <1>1, SomaDeParciais
<1>5. Tabela(e)
  <2>1. Tabela(h)
    BY <1>3, <1>4
  <2>. HIDE DEF Tabela
  <2>. QED BY <2>1
<1>6. Prometido(c) = saldo[c] + e[K]
  BY DEF Prometido, EmVooDe, MapThenSumSet, MapThenFoldSet, Escolhido
<1>. HIDE DEF e, Tabela, K
<1>7. Parciais(f, K, e)
  BY <1>3, <1>5
<1>8. e[K] = h[K]
  BY <1>4, <1>7, ParciaisUnicas DEF K
<1>. QED BY <1>4, <1>6, <1>8 DEF K

(* Of one process there is at most one message.                            *)
LEMMA PrometidoDeUma ==
  ASSUME SoUmaApi, Coerente, NEW c \in Clientes
  PROVE  /\ (\A k \in Conexoes : ~(EmVoo(k) /\ cmd[k].id_cliente = c)) =>
              Prometido(c) = saldo[c]
         /\ \A k \in Conexoes : EmVoo(k) /\ cmd[k].id_cliente = c =>
              Prometido(c) = NovoSaldo(k)
<1>0. saldo[c] \in Int
  BY DEF Coerente, PgTypeOK
<1>1. ASSUME \A k \in Conexoes : ~(EmVoo(k) /\ cmd[k].id_cliente = c)
      PROVE  Prometido(c) = saldo[c]
  <2>1. EmVooDe(c) = {}
    BY <1>1 DEF EmVooDe
  <2>. DEFINE f == [k \in {} |-> 0]
  <2>2. Prometido(c) = saldo[c] + SomaDe(f, EmVooDe(c))
    BY <2>1, FS_EmptySet, SomaEmVoo
  <2>3. SomaDe(f, {}) = 0
    BY SomaDeVazia
  <2>. HIDE DEF f
  <2>. QED BY <1>0, <2>1, <2>2, <2>3
<1>2. ASSUME NEW k \in Conexoes, EmVoo(k), cmd[k].id_cliente = c
      PROVE  Prometido(c) = NovoSaldo(k)
  <2>1. EmVooDe(c) = {k}
    BY <1>2 DEF EmVooDe, SoUmaApi, Apis
  <2>2. Efeito(cmd[k]) \in Int
    BY <1>2, ComandoEmVoo, EfeitoInt DEF Coerente
  <2>. DEFINE f == [j \in {k} |-> Efeito(cmd[j])]
  <2>3. IsFiniteSet({k}) /\ k \in {k} /\ {k} \ {k} = {}
    BY FS_Singleton
  <2>4. f[k] = Efeito(cmd[k]) /\ \A j \in {k} : f[j] = Efeito(cmd[j]) /\ f[j] \in Int
    BY <2>2
  <2>. HIDE DEF f
  <2>5. Prometido(c) = saldo[c] + SomaDe(f, EmVooDe(c))
    BY <2>1, <2>3, <2>4, SomaEmVoo
  <2>6. SomaDe(f, {k}) = f[k] + SomaDe(f, {k} \ {k})
    BY <2>3, <2>4, SomaDeTira DEF Inteira
  <2>7. SomaDe(f, {}) = 0
    BY SomaDeVazia
  <2>8. SomaDe(f, {k} \ {k}) = 0
    BY <2>3, <2>7
  <2>9. SomaDe(f, {k}) = Efeito(cmd[k])
    BY <2>2, <2>4, <2>6, <2>8
  <2>10. NovoSaldo(k) = saldo[c] + Efeito(cmd[k])
    BY <1>2 DEF NovoSaldo
  <2>. QED BY <2>1, <2>5, <2>9, <2>10
<1>. QED BY <1>1, <1>2

-----------------------------------------------------------------------------
(* The messages of one process are within the limit.                       *)
Cabem == \A k \in Conexoes : EmVoo(k) => PassaChk(k)

(* A message is sent only when the balance allows it.                      *)
LEMMA CabeEnvio ==
  ASSUME SoUmaApi, SemEstouro, Leituras, Cabem, NEW a \in Apis,
         pc[a] = "decide", ~is_limite_excedido(lido[a].saldo, pedido[a]),
         db_execute_async_true(a, Comando(a))
  PROVE  Cabem'
<1>. DEFINE p == pedido[a]
<1>a. PICK m : m = Comando(a)
  OBVIOUS
<1>1. /\ UNCHANGED saldo
      /\ \A k \in Conexoes :
           EmVoo(k)' => \/ EmVoo(k) /\ cmd'[k] = cmd[k]
                        \/ k = a /\ estado[a] = "ociosa" /\ cmd'[k] = m
  BY <1>a
  DEF db_execute_async_true, Recebe, Descarta, Tabelas, EmVoo, Leituras, Base,
      Coerente, PgTypeOK
<1>2. ASSUME NEW k \in Conexoes, EmVoo(k)'
      PROVE  RespeitaLimite(cmd'[k].id_cliente,
                            saldo[cmd'[k].id_cliente] + Efeito(cmd'[k]))
  <2>1. CASE EmVoo(k) /\ cmd'[k] = cmd[k]
    BY <2>1 DEF Cabem, PassaChk, NovoSaldo
  <2>2. CASE k = a /\ estado[a] = "ociosa" /\ cmd'[k] = m
    <3>1. p.id \in Clientes /\ lido[a].saldo = saldo[p.id]
      BY <2>2, LidoAtual DEF Lendo
    <3>2. m.id_cliente = p.id /\ m.tipo = p.tipo /\ m.valor = p.valor
      BY <1>a DEF Comando
    <3>3. m \in Comandos
      <4>1. enviados < MaxEnvios
        BY DEF db_execute_async_true, Recebe, Descarta
      <4>. QED
        BY <1>a, <4>1, ComandoTipo DEF Leituras, Base, TipoApi, TypeOK
    <3>4. /\ p.valor \in Valores /\ p.valor \in Nat /\ p.tipo \in {"c", "d"}
          /\ saldo[p.id] \in Int /\ Limite[p.id] \in Nat
          /\ RespeitaLimite(p.id, saldo[p.id])
      BY <3>1, <3>2, <3>3, ValoresAssumption, LimiteAssumption
      DEF Comandos, Tipos, Leituras, Base, Coerente, PgTypeOK, Travas, ChkSaldo
    <3>5. CASE p.tipo = "c"
      <4>1. Efeito(m) = p.valor
        BY <3>2, <3>5 DEF Efeito
      <4>2. saldo[p.id] + p.valor >= -Limite[p.id]
        BY <3>4 DEF RespeitaLimite
      <4>. QED BY <2>2, <3>2, <4>1, <4>2 DEF RespeitaLimite
    <3>6. CASE p.tipo = "d"
      <4>1. ~ (ToInt64(saldo[p.id] - p.valor) < -Limite[p.id])
        BY <3>1, <3>6 DEF is_limite_excedido
      <4>2. RespeitaLimite(p.id, saldo[p.id] - p.valor)
        BY <3>1, <3>4, <4>1, TesteDoLimite
      <4>3. Efeito(m) = -p.valor
        BY <3>2, <3>6 DEF Efeito
      <4>4. saldo[p.id] - p.valor = saldo[p.id] + (-p.valor)
        BY <3>4
      <4>. QED BY <2>2, <3>2, <4>2, <4>3, <4>4
    <3>. QED BY <3>4, <3>5, <3>6
  <2>. QED BY <1>1, <1>2, <2>1, <2>2
<1>. QED BY <1>1, <1>2 DEF Cabem, PassaChk, NovoSaldo, RespeitaLimite

(* Nobody sends: messages stay as they are, or leave.                      *)
LEMMA CabemFicam ==
  ASSUME Cabem, \A k \in Conexoes : EmVoo(k)' =>
                  EmVoo(k) /\ cmd'[k] = cmd[k] /\ saldo' = saldo
  PROVE  Cabem'
  BY DEF Cabem, PassaChk, NovoSaldo, RespeitaLimite

LEMMA CabemPasso ==
  ASSUME SoUmaApi, SemEstouro, Leituras, Cabem, [Next]_vars
  PROVE  Cabem'
<1>1. ASSUME NEW a \in Apis, SaveAsync(a) \/ EnviaEMorre(a)
      PROVE  Cabem'
  BY <1>1, CabeEnvio DEF SaveAsync, EnviaEMorre
<1>2. ASSUME NEW a \in Apis,
             \/ Chega(a) \/ Conecta(a) \/ RedefineConexao(a)
             \/ FindOne(a) \/ FindOneNull(a) \/ LimiteExcedido(a)
             \/ SaveAsyncFalse(a) \/ FindLast10(a) \/ FindLast10Null(a)
             \/ Mata(a) \/ Desliga(a)
      PROVE  Cabem'
  <2>1. UNCHANGED <<saldo, cmd>>
    BY <1>2
    DEF Chega, SaveTransacao, FindById, RecebePedido, Conecta, RedefineConexao,
        db_connect, db_get_connection_reset, Reconecta, Tabelas, FindOne,
        FindOneNull, LimiteExcedido, SaveAsyncFalse, FindLast10, FindLast10Null,
        RespondeExtrato, Mata, Desliga, Matado, db_close_pool, db_query_ok,
        db_query_null, db_execute_async_false, dbVars, pgVars, apiVars
  <2>. QED BY <2>1, CabemFicam DEF EmVoo
<1>3. ASSUME NEW k \in Apis, Servidor(k)
      PROVE  Cabem'
  <2>1. Executa(k) /\ \A j \in Conexoes : j = k
    BY <1>3 DEF Servidor, SoUmaApi, Apis
  <2>2. EmVoo(k) /\ (EmVoo(k)' => cmd'[k] = cmd[k])
    BY <2>1, ExecutaQuadro DEF Apis, Leituras, Base
  <2>3. EmVoo(k)' => saldo' = saldo
    <3>1. CASE Grava(k)
      BY <3>1 DEF Grava, EmVoo, Leituras, Base, Coerente, PgTypeOK, Apis
    <3>2. CASE ~Grava(k)
      BY <2>1, <3>2
      DEF Executa, RecusaTexto, RecusaBigint, RecusaSaldo, RecusaValor, Falha,
          Inicia, Atualiza, Tabelas
    <3>. QED BY <3>1, <3>2
  <2>. QED BY <2>1, <2>2, <2>3, CabemFicam
<1>4. CASE Ambiente
  BY <1>4, CabemFicam DEF Ambiente, Descarrega, Queda, EmVoo
<1>5. CASE Fim \/ UNCHANGED vars
  BY <1>5, CabemFicam DEF Fim, vars, dbVars, pgVars, EmVoo
<1>. QED BY <1>1, <1>2, <1>3, <1>4, <1>5 DEF Next, Atende, Sinal

(* One process, whatever crashes, signals and lost messages there are, as  *)
(* long as no limit test can overflow: no client is granted more debt than *)
(* its limit, although the constraint is checked after the answer.  The    *)
(* texts are those of Textos, which have no quotes.                        *)
THEOREM ApiLimiteRespeitado ==
  ASSUME SoUmaApi, SemEstouro
  PROVE  Spec => []LimiteRespeitado
<1>1. Init => Cabem
  BY DEF Init, PgInit, Cabem, EmVoo
<1>2. Leituras /\ Cabem /\ [Next]_vars => Cabem'
  BY CabemPasso
<1>3. Leituras /\ Cabem => LimiteRespeitado
  <2>. SUFFICES ASSUME Leituras, Cabem, NEW c \in Clientes
                PROVE  RespeitaLimite(c, Prometido(c))
    BY DEF LimiteRespeitado
  <2>1. /\ (\A k \in Conexoes : ~(EmVoo(k) /\ cmd[k].id_cliente = c)) =>
             Prometido(c) = saldo[c]
        /\ \A k \in Conexoes : EmVoo(k) /\ cmd[k].id_cliente = c =>
             Prometido(c) = NovoSaldo(k)
    BY PrometidoDeUma DEF Leituras, Base
  <2>2. RespeitaLimite(c, saldo[c])
    BY DEF Leituras, Travas, ChkSaldo
  <2>. QED BY <2>1, <2>2 DEF Cabem, PassaChk
<1>. QED BY <1>1, <1>2, <1>3, ApiLeituras, PTL DEF Spec
-----------------------------------------------------------------------------
(* The balances one process answers with.  What reached the disk is a      *)
(* beginning of the table, and a balance a session computed is a bigint.   *)
Prefixos ==
  \A t \in disco.transacao, u \in transacao :
    u.num < t.num => u \in disco.transacao

VersoesCabem == \A k \in Conexoes : versao[k] \in -(MaxInt8 + 1)..MaxInt8

(* The rows of a client up to a number, and what an answer says of them.   *)
Ate(T, c, n) == {t \in DoCliente(T, c) : t.num <= n}

RespostaExata(r) ==
  Gravada(r.num) =>
    LET s == Soma(Ate(transacao, r.id_cliente, r.num))
    IN CabeEmInt(s) => r.saldo = s

Exatos == Prefixos /\ VersoesCabem /\ \A r \in aceitas : RespostaExata(r)

LEMMA ExataFica ==
  ASSUME NEW r, RespostaExata(r),
         Gravada(r.num)' =>
           /\ Gravada(r.num)
           /\ Ate(transacao', r.id_cliente, r.num)
                = Ate(transacao, r.id_cliente, r.num)
  PROVE  RespostaExata(r)'
  BY DEF RespostaExata

(* A commit.  The new row is the last, and its sum is the balance that the *)
(* session wrote and the process answered.                                 *)
LEMMA ExatosGrava ==
  ASSUME SoUmaApi, Leituras, Leituras', Exatos, NEW k \in Conexoes, Grava(k),
         UNCHANGED aceitas
  PROVE  Exatos'
<1>. USE DEF Leituras
<1>a. PICK n : n = NovaLinha(k)
  OBVIOUS
<1>b. PICK c : c = cmd[k].id_cliente
  OBVIOUS
<1>1. /\ transacao' = transacao \cup {n} /\ UNCHANGED disco
      /\ n.num = cmd[k].num /\ n.id_cliente = c
      /\ \A j \in Conexoes : versao'[j] \in {0, versao[j]}
      /\ saldo'[c] = versao[k] /\ versao[k] = NovoSaldo(k)
      /\ EmVoo(k) /\ cmd[k] \in Comandos /\ c \in Clientes
  <2>1. EmVoo(k) /\ cmd[k] \in Comandos
    BY ComandoEmVoo DEF Grava, Base, Coerente, SessoesCoerentes
  <2>2. c \in Clientes
    BY <1>b, <2>1 DEF Comandos
  <2>3. /\ transacao' = transacao \cup {n} /\ UNCHANGED disco
        /\ saldo'[c] = versao[k] /\ versao[k] = NovoSaldo(k)
    BY <1>a, <1>b, <2>2 DEF Grava, Base, Coerente, PgTypeOK, Travas, VersaoTravada
  <2>4. \A j \in Conexoes : versao'[j] \in {0, versao[j]}
    BY DEF Grava, Base, Coerente, PgTypeOK
  <2>5. n.num = cmd[k].num /\ n.id_cliente = c
    BY <1>a, <1>b DEF NovaLinha
  <2>. QED BY <2>1, <2>2, <2>3, <2>4, <2>5
<1>2. \A t \in transacao : t.num < n.num /\ t.num \in Nat /\ n.num \in Nat
  <2>1. \A t \in transacao : t.via = k
    BY LinhasDaApi DEF Apis, Base
  <2>2. cmd[k].num \in Nat
    BY <1>1 DEF Comandos
  <2>. QED
    BY <1>1, <2>1, <2>2 DEF Horas, SessaoDepois, Base, Coerente, PgTypeOK, Linhas
<1>3. Prefixos'
  <2>1. disco.transacao \subseteq transacao
    BY DEF Numeros, NumerosUnicos
  <2>. QED BY <1>1, <1>2, <2>1 DEF Exatos, Prefixos
<1>4. VersoesCabem'
  <2>1. 0 \in -(MaxInt8 + 1)..MaxInt8
    BY BoundsAssumption
  <2>. QED BY <1>1, <2>1 DEF Exatos, VersoesCabem
<1>5. ASSUME NEW r \in aceitas, Gravada(r.num)
      PROVE  RespostaExata(r)'
  <2>1. ~ (n.num <= r.num)
    <3>1. PICK t \in transacao : t.num = r.num
      BY <1>5 DEF Gravada
    <3>. QED BY <1>2, <3>1
  <2>2. Ate(transacao', r.id_cliente, r.num) = Ate(transacao, r.id_cliente, r.num)
    BY <1>1, <2>1 DEF Ate, DoCliente
  <2>. QED BY <1>5, <2>2, ExataFica DEF Exatos
<1>6. ASSUME NEW r \in aceitas, r.num = n.num
      PROVE  RespostaExata(r)'
  <2>1. r.id_cliente = c
    <3>1. cmd[k] \in Presentes
      BY <1>1 DEF Presentes
    <3>. QED BY <1>b, <1>1, <1>6, <3>1 DEF Acordo, AceitasFieis
  <2>2. Ate(transacao', c, n.num) = DoCliente(transacao', c)
    <3>1. \A t \in transacao' : t.num <= n.num
      BY <1>1, <1>2, BoundsAssumption DEF Comandos
    <3>. QED BY <3>1 DEF Ate, DoCliente
  <2>3. Soma(DoCliente(transacao', c)) = versao[k]
    <3>1. saldo'[c] = Soma(DoCliente(transacao', c))
      BY <1>1 DEF Somas, Reconcilia
    <3>. QED BY <1>1, <3>1
  <2>4. r.saldo = ToInt32(ToInt64(Soma(DoCliente(transacao, c)) + Efeito(cmd[k])))
    <3>1. /\ \A t \in DoCliente(transacao, c) : t.via = k => t.num \in r.visto
          /\ r.saldo = ToInt32(ToInt64(SaldoVisto(r) + Efeito(cmd[k])))
      BY <1>1, <1>6, <2>1 DEF Enviadas, EnviadaFiel
    <3>2. \A t \in transacao : t.via = k
      BY LinhasDaApi DEF Apis, Base
    <3>3. Vistas(transacao, c, r.visto) = DoCliente(transacao, c)
      BY <3>1, <3>2, TodasVistas DEF DoCliente
    <3>. QED BY <2>1, <3>1, <3>3 DEF SaldoVisto
  <2>5. Soma(DoCliente(transacao, c)) + Efeito(cmd[k]) = versao[k]
    BY <1>b, <1>1 DEF Somas, Reconcilia, NovoSaldo
  <2>6. versao[k] \in Int /\ -(MaxInt8 + 1) <= versao[k] /\ versao[k] <= MaxInt8
    BY BoundsAssumption DEF Exatos, VersoesCabem
  <2>7. ToInt64(versao[k]) = versao[k]
    BY <2>6, TruncaCabe, BoundsAssumption DEF ToInt64
  <2>8. CabeEmInt(versao[k]) => ToInt32(versao[k]) = versao[k]
    BY <2>6, TruncaCabe, LimitesAssumption DEF CabeEmInt, ToInt32
  <2>. QED
    BY <1>6, <2>1, <2>2, <2>3, <2>4, <2>5, <2>7, <2>8 DEF RespostaExata
<1>7. ASSUME NEW r \in aceitas
      PROVE  RespostaExata(r)'
  <2>1. CASE Gravada(r.num)
    BY <1>5, <2>1
  <2>2. CASE r.num = n.num
    BY <1>6, <2>2
  <2>3. CASE ~Gravada(r.num) /\ r.num # n.num
    <3>1. ~Gravada(r.num)'
      BY <1>1, <2>3 DEF Gravada
    <3>. QED BY <3>1 DEF RespostaExata
  <2>. QED BY <2>1, <2>2, <2>3
<1>. QED BY <1>3, <1>4, <1>7 DEF Exatos

(* A crash takes away the last rows, and no other.                         *)
LEMMA ExatosQueda ==
  ASSUME Leituras, Exatos, Queda, UNCHANGED aceitas
  PROVE  Exatos'
<1>. USE DEF Leituras
<1>1. /\ transacao' = disco.transacao /\ UNCHANGED disco
      /\ \A k \in Conexoes : versao'[k] = 0
      /\ disco.transacao \subseteq transacao
  BY DEF Queda, Numeros, NumerosUnicos
<1>2. Prefixos'
  BY <1>1 DEF Prefixos
<1>3. VersoesCabem'
  BY <1>1, BoundsAssumption DEF VersoesCabem
<1>4. ASSUME NEW r \in aceitas, Gravada(r.num)'
      PROVE  /\ Gravada(r.num)
             /\ Ate(transacao', r.id_cliente, r.num)
                  = Ate(transacao, r.id_cliente, r.num)
  <2>1. PICK t \in disco.transacao : t.num = r.num
    BY <1>1, <1>4 DEF Gravada
  <2>2. \A u \in transacao : u.num <= r.num => u \in disco.transacao
    <3>. SUFFICES ASSUME NEW u \in transacao, u.num <= r.num
                  PROVE  u \in disco.transacao
      OBVIOUS
    <3>1. u.num \in Nat /\ t.num \in Nat /\ t \in transacao
      BY <1>1 DEF Base, Coerente, PgTypeOK, Linhas
    <3>2. CASE u.num = t.num
      BY <3>1, <3>2 DEF Numeros, NumerosUnicos
    <3>3. CASE u.num < t.num
      BY <3>3 DEF Exatos, Prefixos
    <3>. QED BY <2>1, <3>1, <3>2, <3>3
  <2>3. Gravada(r.num)
    BY <1>1, <2>1 DEF Gravada
  <2>4. Ate(transacao', r.id_cliente, r.num) = Ate(transacao, r.id_cliente, r.num)
    BY <1>1, <2>2 DEF Ate, DoCliente
  <2>. QED BY <2>3, <2>4
<1>5. \A r \in aceitas : RespostaExata(r)'
  BY <1>4, ExataFica DEF Exatos
<1>. QED BY <1>2, <1>3, <1>5 DEF Exatos

LEMMA VersoesPasso ==
  ASSUME Coerente, VersoesCabem, [PgNext]_pgVars
  PROVE  VersoesCabem'
<1>0. versao \in [Conexoes -> Int] /\ 0 \in -(MaxInt8 + 1)..MaxInt8
  BY BoundsAssumption DEF Coerente, PgTypeOK
<1>1. ASSUME NEW k \in Conexoes, Executa(k)
      PROVE  \A j \in Conexoes :
               versao'[j] \in {0, versao[j]} \cup -(MaxInt8 + 1)..MaxInt8
  BY <1>0, <1>1
  DEF Executa, RecusaTexto, RecusaBigint, RecusaSaldo, RecusaValor, Falha,
      Inicia, Atualiza, CabeEmBigint, Grava
<1>2. ASSUME NEW k \in Conexoes, Pede(k)
      PROVE  UNCHANGED versao
  BY <1>2 DEF Pede, Recebe, Descarta, Reconecta
<1>3. CASE Descarrega \/ UNCHANGED pgVars
  BY <1>3 DEF Descarrega, pgVars, VersoesCabem
<1>4. CASE Queda
  BY <1>0, <1>4 DEF Queda, VersoesCabem
<1>. QED BY <1>0, <1>1, <1>2, <1>3, <1>4 DEF PgNext, VersoesCabem

LEMMA ExatosPasso ==
  ASSUME SoUmaApi, Leituras, Exatos, [Next]_vars
  PROVE  Exatos'
<1>0. Leituras' /\ VersoesCabem' /\ enviados \in Nat
  <2>1. [PgNext]_pgVars /\ Coerente
    BY BasePasso DEF Leituras, Base
  <2>. QED
    BY <2>1, LeiturasPasso, VersoesPasso DEF Exatos, Coerente, PgTypeOK
<1>1. ASSUME UNCHANGED transacao, disco' = disco \/ disco'.transacao = transacao
      PROVE  Exatos'
  <2>1. Prefixos'
    BY <1>1 DEF Exatos, Prefixos
  <2>2. ASSUME NEW r \in aceitas', r \notin aceitas
        PROVE  RespostaExata(r)'
    <3>1. r.num = enviados + 1
      BY <2>2, AceitasNovas DEF Leituras
    <3>2. \A t \in transacao : t.num \in 1..enviados
      BY DEF Leituras, Numeros, NumerosEnviados
    <3>3. ~Gravada(r.num)'
      BY <1>0, <1>1, <3>1, <3>2 DEF Gravada
    <3>. QED BY <3>3 DEF RespostaExata
  <2>3. ASSUME NEW r \in aceitas
        PROVE  RespostaExata(r)'
    BY <1>1, ExataFica DEF Exatos, Gravada
  <2>. QED BY <1>0, <2>1, <2>2, <2>3 DEF Exatos
<1>2. ASSUME NEW a \in Apis, Chega(a) \/ Atende(a) \/ Sinal(a)
      PROVE  Exatos'
  <2>1. UNCHANGED <<transacao, disco>>
    BY <1>2, ProcessoQuadro DEF Leituras
  <2>. QED BY <1>1, <2>1
<1>3. ASSUME NEW k \in Apis, Servidor(k)
      PROVE  Exatos'
  <2>1. Executa(k) /\ UNCHANGED aceitas
    BY <1>3 DEF Servidor, apiVars
  <2>2. Grava(k) \/ UNCHANGED <<transacao, disco>>
    BY <2>1, ExecutaQuadro DEF Leituras, Base, Apis
  <2>. QED BY <1>0, <1>1, <2>1, <2>2, ExatosGrava DEF Apis
<1>4. CASE Ambiente
  <2>1. UNCHANGED aceitas
    BY <1>4 DEF Ambiente, apiVars
  <2>2. Descarrega => UNCHANGED transacao /\ disco'.transacao = transacao
    BY DEF Descarrega
  <2>. QED BY <1>1, <1>4, <2>1, <2>2, ExatosQueda DEF Ambiente
<1>5. CASE Fim \/ UNCHANGED vars
  BY <1>1, <1>5 DEF Fim, vars, dbVars, pgVars
<1>. QED BY <1>2, <1>3, <1>4, <1>5 DEF Next

(* One process, whatever crashes, signals and lost messages there are: the *)
(* balance answered with a 200 is that of the table right after that       *)
(* transaction, if it is recorded and fits the C int of the answer, for    *)
(* every set of descriptions without quotes.                               *)
THEOREM ApiSaldoExato == ASSUME SoUmaApi PROVE Spec => []SaldoExato
<1>1. Init => Exatos
  <2>1. 0 \in -(MaxInt8 + 1)..MaxInt8
    BY BoundsAssumption
  <2>. QED BY <2>1 DEF Init, PgInit, Exatos, Prefixos, VersoesCabem
<1>2. Leituras /\ Exatos /\ [Next]_vars => Exatos'
  BY ExatosPasso
<1>3. Exatos => SaldoExato
  BY DEF Exatos, RespostaExata, Ate, SaldoExato
<1>. QED BY <1>1, <1>2, <1>3, ApiLeituras, PTL DEF Spec
-----------------------------------------------------------------------------
(* The refinement.  The service of Conta decides every request at once, so *)
(* one process implements it where no message is lost: requests that the   *)
(* database can store, no crash of the server, no process killed between   *)
(* its message and its answer, and no balance beyond a bigint.             *)
PedidosServiveis ==
  \A p \in Pedidos :
    /\ p.id \in Clientes
    /\ p.op = "transacao" =>
         /\ TransacaoValida(p)
         /\ p.valor <= MaxInt4
         /\ TextoAceito(strzcpy(p.descricao, UTF8_TRANSACAO_DESCRICAO_LEN))

SemFalhas == MaxQuedas = 0 /\ "kill" \notin Sinais

(* Then no message is refused for its data, and balances stay below the    *)
(* largest amount, V, times the messages sent.                             *)
Servivel(m) ==
  /\ m.valor <= MaxInt4
  /\ TextoAceito(m.descricao)
  /\ CabeEmVarchar(m.descricao)

Servidos ==
  /\ quedas = 0
  /\ enviados <= MaxEnvios
  /\ \A k \in Conexoes : EmVoo(k) => Servivel(cmd[k])
  /\ \A a \in Apis : pc[a] = "find_last_10" => pedido[a].op = "extrato"

Teto(V) ==
  \A c \in Clientes :
    /\ saldo[c] <= V * enviados
    /\ \A k \in Conexoes : EmVoo(k) => saldo[c] + V <= V * enviados

LEMMA ServivelComando ==
  ASSUME PedidosServiveis, Base, NEW a \in Apis, pc[a] = "decide"
  PROVE  Servivel(Comando(a))
<1>. DEFINE U == UTF8_TRANSACAO_DESCRICAO_LEN
<1>1. /\ pedido[a] \in Pedidos /\ pedido[a].op = "transacao"
      /\ is_descricao_transacao_valida(pedido[a])
  BY DEF Base, TipoApi, PedidosValidados, TransacaoValida
<1>2. pedido[a].valor <= MaxInt4 /\ TextoAceito(strzcpy(pedido[a].descricao, U))
  BY <1>1 DEF PedidosServiveis
<1>3. pedido[a].descricao \in Seq(Bytes) /\ U \in Nat
  <2>1. pedido[a].descricao \in Textos
    BY <1>1, PedidosAssumption DEF is_descricao_transacao_valida
  <2>. QED BY <2>1, TextosAssumption DEF UTF8_TRANSACAO_DESCRICAO_LEN
<1>4. CabeEmVarchar(strzcpy(pedido[a].descricao, U))
  <2>. DEFINE n(s) == string_util_utf8_strlen(s)
  <2>1. n(strzcpy(pedido[a].descricao, U)) <= n(pedido[a].descricao)
    BY <1>3, StrzcpyCaracteres
  <2>2. n(pedido[a].descricao) \in Nat /\ n(strzcpy(pedido[a].descricao, U)) \in Nat
    BY <1>3, StrzcpyTipo, CaracteresTipo
  <2>3. n(pedido[a].descricao) <= TRANSACAO_DESCRICAO_LEN
    BY <1>1, <2>2, TextosAssumption DEF is_descricao_transacao_valida
  <2>. QED BY <2>1, <2>2, <2>3, TextosAssumption DEF CabeEmVarchar
<1>. QED BY <1>2, <1>4 DEF Comando, Servivel

(* A process that nobody kills sends only in SaveAsync.                    *)
LEMMA EnvioDeSaveAsync ==
  ASSUME SemFalhas, Base, NEW a \in Apis, Chega(a) \/ Atende(a) \/ Sinal(a)
  PROVE  SaveAsync(a) \/ UNCHANGED <<saldo, cmd, enviados>>
<1>1. CASE \/ Chega(a) \/ Conecta(a) \/ RedefineConexao(a)
           \/ FindOne(a) \/ FindOneNull(a) \/ LimiteExcedido(a)
           \/ SaveAsyncFalse(a) \/ FindLast10(a) \/ FindLast10Null(a)
           \/ Desliga(a)
  BY <1>1
  DEF Chega, SaveTransacao, FindById, RecebePedido, Conecta, RedefineConexao,
      db_connect, db_get_connection_reset, Reconecta, Tabelas, FindOne,
      FindOneNull, LimiteExcedido, SaveAsyncFalse, FindLast10, FindLast10Null,
      RespondeExtrato, Desliga, db_close_pool, db_query_ok,
      db_query_null, db_execute_async_false, dbVars, pgVars, apiVars
<1>2. ~Mata(a) /\ ~EnviaEMorre(a)
  BY DEF Mata, EnviaEMorre, Matado, SemFalhas
<1>. QED BY <1>1, <1>2 DEF Atende, Sinal

LEMMA ServidosPasso ==
  ASSUME SemFalhas, PedidosServiveis, Base, Numeros, Servidos, [Next]_vars
  PROVE  Servidos'
<1>0. /\ cmd \in [Conexoes -> Comandos \cup {SemComando}]
      /\ pc \in [Apis -> Pcs] /\ pedido \in [Apis -> Pedidos \cup {SemPedido}]
      /\ enviados \in Nat /\ MaxEnvios \in Nat
  BY BoundsAssumption DEF Base, TipoApi, TypeOK, PgTypeOK
<1>1. ASSUME NEW a \in Apis, SaveAsync(a)
      PROVE  Servidos'
  <2>a. PICK m : m = Comando(a)
    OBVIOUS
  <2>1. Servivel(m)
    BY <1>1, <2>a, ServivelComando DEF SaveAsync
  <2>2. /\ quedas' = quedas
        /\ enviados' = enviados + 1 /\ enviados < MaxEnvios
        /\ cmd' = cmd \/ cmd' = [cmd EXCEPT ![a] = m]
    BY <1>1, <2>a
    DEF SaveAsync, db_execute_async_true, Recebe, Descarta, Comando
  <2>3. /\ pc' = [pc EXCEPT ![a] = "poll"]
        /\ \A b \in Apis : b # a => pedido'[b] = pedido[b]
    BY <1>0, <1>1 DEF SaveAsync, Responde
  <2>4. \A k \in Conexoes : EmVoo(k)' => Servivel(cmd'[k])
    BY <1>0, <2>1, <2>2 DEF Servidos, EmVoo
  <2>5. \A b \in Apis : pc'[b] = "find_last_10" => pedido'[b].op = "extrato"
    BY <1>0, <2>3 DEF Servidos
  <2>6. quedas' = 0 /\ enviados' <= MaxEnvios
    BY <1>0, <2>2 DEF Servidos
  <2>. QED BY <2>4, <2>5, <2>6 DEF Servidos, Servivel
<1>2. ASSUME NEW a \in Apis, Chega(a) \/ Atende(a) \/ Sinal(a), ~SaveAsync(a)
      PROVE  Servidos'
  <2>1. UNCHANGED <<quedas, cmd, enviados>>
    BY <1>2, ProcessoQuadro, EnvioDeSaveAsync
  <2>2. \A b \in Apis : b # a => pc'[b] = pc[b] /\ pedido'[b] = pedido[b]
    BY <1>2, ProcessoQuadro
  <2>3. pc'[a] = "find_last_10" => pedido'[a].op = "extrato"
    <3>1. CASE FindOne(a)
      BY <1>0, <3>1 DEF FindOne, Responde
    <3>2. CASE RedefineConexao(a)
      BY <3>2 DEF RedefineConexao, apiVars, Servidos
    <3>3. CASE \/ Chega(a) \/ Conecta(a) \/ FindOneNull(a) \/ LimiteExcedido(a)
               \/ SaveAsyncFalse(a) \/ FindLast10(a) \/ FindLast10Null(a)
               \/ Sinal(a)
      BY <1>0, <3>3
      DEF Chega, SaveTransacao, FindById, Conecta, FindOneNull, LimiteExcedido,
          SaveAsyncFalse, FindLast10, FindLast10Null, RespondeExtrato, Responde,
          Morre, EntraFindOne, Sinal, Mata, EnviaEMorre, Desliga, Matado
    <3>. QED BY <1>2, <3>1, <3>2, <3>3 DEF Atende
  <2>. QED BY <2>1, <2>2, <2>3 DEF Servidos, EmVoo, Servivel
<1>3. ASSUME NEW k \in Apis, Servidor(k)
      PROVE  Servidos'
  <2>1. Executa(k) /\ UNCHANGED <<pc, pedido>>
    BY <1>3 DEF Servidor, apiVars
  <2>2. /\ \A j \in Conexoes : EmVoo(j)' => EmVoo(j) /\ cmd'[j] = cmd[j]
        /\ UNCHANGED <<enviados, quedas>>
    BY <2>1, ExecutaQuadro DEF Apis, Base, EmVoo
  <2>. QED BY <2>1, <2>2 DEF Servidos, Servivel
<1>4. CASE Ambiente
  <2>1. ~Queda
    BY DEF Queda, SemFalhas, Servidos
  <2>. QED
    BY <1>4, <2>1 DEF Ambiente, Descarrega, apiVars, Servidos, EmVoo, Servivel
<1>5. CASE Fim \/ UNCHANGED vars
  BY <1>5 DEF Fim, vars, dbVars, pgVars, apiVars, Servidos, EmVoo, Servivel
<1>. QED BY <1>1, <1>2, <1>3, <1>4, <1>5 DEF Next

LEMMA TetoPasso ==
  ASSUME SoUmaApi, SemFalhas, Base, Travas, Numeros, Servidos,
         NEW V \in Nat, Valores \subseteq 0..V, Teto(V), [Next]_vars
  PROVE  Teto(V)'
<1>0. /\ saldo \in [Clientes -> Int] /\ enviados \in Nat /\ V * enviados \in Int
  BY DEF Base, Coerente, PgTypeOK
<1>1. ASSUME UNCHANGED <<saldo, enviados>>,
             \A k \in Conexoes : EmVoo(k)' => EmVoo(k)
      PROVE  Teto(V)'
  BY <1>1 DEF Teto
<1>2. ASSUME NEW a \in Apis, SaveAsync(a)
      PROVE  Teto(V)'
  <2>1. UNCHANGED saldo /\ enviados' = enviados + 1
    BY <1>2
    DEF SaveAsync, db_execute_async_true, Recebe, Descarta, Tabelas, Comando
  <2>2. V * (enviados + 1) = V * enviados + V
    BY <1>0
  <2>3. \A c \in Clientes : saldo[c] + V <= V * enviados + V
    BY <1>0 DEF Teto
  <2>4. \A c \in Clientes : saldo[c] <= V * enviados + V
    BY <1>0, <2>3
  <2>. QED BY <2>1, <2>2, <2>3, <2>4 DEF Teto
<1>3. ASSUME NEW a \in Apis, Chega(a) \/ Atende(a) \/ Sinal(a), ~SaveAsync(a)
      PROVE  Teto(V)'
  BY <1>1, <1>3, EnvioDeSaveAsync DEF EmVoo
<1>4. ASSUME NEW k \in Apis, Servidor(k)
      PROVE  Teto(V)'
  <2>0. Executa(k) /\ \A j \in Conexoes : j = k
    BY <1>4 DEF Servidor, SoUmaApi, Apis
  <2>1. EmVoo(k) /\ UNCHANGED enviados /\ k \in Conexoes
    BY <2>0, ExecutaQuadro DEF Apis, Base
  <2>2. CASE Grava(k)
    <3>a. PICK m : m = cmd[k]
      OBVIOUS
    <3>1. m \in Comandos
      BY <2>1, <3>a, ComandoEmVoo DEF Base, Coerente
    <3>2. /\ saldo' = [saldo EXCEPT ![m.id_cliente] = versao[k]]
          /\ versao[k] = saldo[m.id_cliente] + Efeito(m)
          /\ ~EmVoo(k)'
      BY <2>1, <2>2, <3>a
      DEF Grava, EmVoo, Travas, VersaoTravada, NovoSaldo, Base, Coerente, PgTypeOK
    <3>3. Efeito(m) \in Int /\ Efeito(m) <= V
      <4>1. m.valor \in 0..V
        BY <3>1 DEF Comandos
      <4>. QED BY <4>1 DEF Efeito
    <3>4. ASSUME NEW c \in Clientes
          PROVE  saldo'[c] <= V * enviados
      <4>1. saldo[c] + V <= V * enviados /\ saldo[c] <= V * enviados
        BY <2>1 DEF Teto
      <4>2. CASE c = m.id_cliente
        BY <1>0, <3>2, <3>3, <4>1, <4>2
      <4>3. CASE c # m.id_cliente
        BY <1>0, <3>2, <4>1, <4>3
      <4>. QED BY <4>2, <4>3
    <3>. QED BY <2>0, <2>1, <3>2, <3>4 DEF Teto
  <2>3. CASE ~Grava(k)
    <3>1. UNCHANGED saldo
      BY <2>0, <2>3
      DEF Executa, RecusaTexto, RecusaBigint, RecusaSaldo, RecusaValor, Falha,
          Inicia, Atualiza, Tabelas
    <3>. QED BY <1>1, <2>0, <2>1, <3>1
  <2>. QED BY <2>2, <2>3
<1>5. CASE Ambiente
  <2>1. ~Queda
    BY DEF Queda, SemFalhas, Servidos
  <2>. QED BY <1>1, <1>5, <2>1 DEF Ambiente, Descarrega, EmVoo
<1>6. CASE Fim \/ UNCHANGED vars
  BY <1>1, <1>6 DEF Fim, vars, dbVars, pgVars, EmVoo
<1>. QED BY <1>2, <1>3, <1>4, <1>5, <1>6 DEF Next
-----------------------------------------------------------------------------
(* The promised balance, in states and in steps.                           *)
ContaClara ==
  \A c \in Clientes :
    /\ (\A k \in Conexoes : ~(EmVoo(k) /\ cmd[k].id_cliente = c)) =>
         Prometido(c) = saldo[c]
    /\ \A k \in Conexoes : EmVoo(k) /\ cmd[k].id_cliente = c =>
         Prometido(c) = NovoSaldo(k)

Contas(V) ==
  /\ Leituras /\ Vida
  /\ Cabem /\ Servidos /\ Teto(V) /\ ContaClara

LEMMA ContaParada ==
  ASSUME ContaClara, ContaClara', UNCHANGED <<saldo, cmd>>
  PROVE  \A c \in Clientes : Prometido(c)' = Prometido(c)
<1>. SUFFICES ASSUME NEW c \in Clientes
              PROVE  Prometido(c)' = Prometido(c)
  OBVIOUS
<1>1. CASE \A k \in Conexoes : ~(EmVoo(k) /\ cmd[k].id_cliente = c)
  BY <1>1 DEF ContaClara, EmVoo
<1>2. ASSUME NEW k \in Conexoes, EmVoo(k), cmd[k].id_cliente = c
      PROVE  Prometido(c)' = Prometido(c)
  <2>1. NovoSaldo(k)' = NovoSaldo(k)
    BY DEF NovoSaldo
  <2>. QED BY <1>2, <2>1 DEF ContaClara, EmVoo
<1>. QED BY <1>1, <1>2

(* A step that answers is a step of Conta.                                 *)
LEMMA ContaResponde ==
  ASSUME Base, NEW a \in Apis, NEW p \in Pedidos,
         NEW status \in {200, 422}, NEW s \in Int,
         Responde(a, p, status, s),
         NEW r, r = [pedido |-> p, status |-> status, saldo |-> s],
         C!Transacao(r) \/ C!Recusa(r) \/ C!Extrato(r)
  PROVE  C!Next
<1>1. resposta' = [resposta EXCEPT ![a] = r] /\ resposta'[a] = r
  BY DEF Responde, Base, TipoApi, TypeOK
<1>2. r # SemResposta
  BY SentinelasAssumption
<1>3. resposta'[a] # SemResposta /\ C!Responde(a)
  BY <1>1, <1>2 DEF C!Responde
<1>4. \/ C!Transacao(resposta'[a])
      \/ C!Recusa(resposta'[a])
      \/ C!Extrato(resposta'[a])
  BY <1>1 DEF C!Transacao, C!Recusa, C!Extrato
<1>. QED BY <1>3, <1>4 DEF C!Next

LEMMA TetoBigint ==
  ASSUME Coerente, Servidos, NEW V \in Nat, V * MaxEnvios <= MaxInt8
  PROVE  V * enviados <= MaxInt8 /\ V * enviados \in Int
<1>1. enviados \in Nat /\ enviados <= MaxEnvios /\ MaxEnvios \in Nat
  BY BoundsAssumption DEF Coerente, PgTypeOK, Servidos
<1>2. PICK d \in Nat : MaxEnvios = enviados + d
  <2>1. MaxEnvios - enviados \in Nat /\ MaxEnvios = enviados + (MaxEnvios - enviados)
    BY <1>1
  <2>. QED BY <2>1
<1>3. V * MaxEnvios = V * enviados + V * d
  BY <1>1, <1>2
<1>4. V * d \in Nat /\ V * enviados \in Nat
  BY <1>1
<1>. QED BY <1>3, <1>4, BoundsAssumption

(* What a handler decides with is the promised balance, and its sums do    *)
(* not leave a bigint.                                                     *)
LEMMA ContaLida ==
  ASSUME SoUmaApi, NEW V \in Nat, V * MaxEnvios <= MaxInt8,
         Contas(V), NEW a \in Apis, Lendo(a)
  PROVE  /\ estado[a] = "ociosa"
         /\ \A k \in Conexoes : ~EmVoo(k)
         /\ pedido[a].id \in Clientes
         /\ lido[a].saldo = saldo[pedido[a].id]
         /\ \A c \in Clientes : Prometido(c) = saldo[c]
         /\ saldo[pedido[a].id] <= MaxInt8
<1>. USE DEF Contas
<1>1. estado[a] = "ociosa"
  BY DEF Leituras, Leitura, LeituraDe, Lendo, Vida, SessaoViva, Servidos
<1>2. \A k \in Conexoes : ~EmVoo(k)
  BY <1>1 DEF Leituras, Base, Coerente, SessoesCoerentes, SoUmaApi, Apis
<1>3. pedido[a].id \in Clientes /\ lido[a].saldo = saldo[pedido[a].id]
  BY <1>1, LidoAtual
<1>4. \A c \in Clientes : Prometido(c) = saldo[c]
  BY <1>2 DEF ContaClara
<1>5. V * enviados <= MaxInt8 /\ V * enviados \in Int
  BY TetoBigint DEF Leituras, Base
<1>6. saldo[pedido[a].id] <= V * enviados /\ saldo[pedido[a].id] \in Int
  BY <1>3 DEF Teto, Leituras, Base, Coerente, PgTypeOK
<1>7. saldo[pedido[a].id] <= MaxInt8
  BY <1>5, <1>6, BoundsAssumption
<1>. QED BY <1>1, <1>2, <1>3, <1>4, <1>7

(* A message in flight leaves its balance within a bigint.                 *)
LEMMA ContaCabe ==
  ASSUME SemEstouro, NEW V \in Nat, Valores \subseteq 0..V,
         V * MaxEnvios <= MaxInt8, Contas(V), NEW k \in Conexoes, EmVoo(k)
  PROVE  /\ NovoSaldo(k) \in Int
         /\ -(MaxInt8 + 1) <= NovoSaldo(k) /\ NovoSaldo(k) <= MaxInt8
<1>. USE DEF Contas
<1>a. PICK m : m = cmd[k]
  OBVIOUS
<1>b. PICK s : s = saldo[m.id_cliente]
  OBVIOUS
<1>1. m \in Comandos
  BY <1>a, ComandoEmVoo DEF Leituras, Base, Coerente
<1>2. m.id_cliente \in Clientes /\ m.valor \in Valores /\ m.valor \in 0..V
  BY <1>1 DEF Comandos
<1>3. s \in Int /\ s + V <= V * enviados
  BY <1>a, <1>b, <1>2 DEF Teto, Leituras, Base, Coerente, PgTypeOK
<1>4. V * enviados <= MaxInt8 /\ V * enviados \in Int /\ MaxInt8 \in Nat
  BY TetoBigint, BoundsAssumption DEF Leituras, Base
<1>5. NovoSaldo(k) = s + Efeito(m)
  BY <1>a, <1>b DEF NovoSaldo
<1>6. Efeito(m) \in Int /\ Efeito(m) <= V
  BY <1>2 DEF Efeito
<1>7. NovoSaldo(k) >= -Limite[m.id_cliente]
  BY <1>a DEF Cabem, PassaChk, RespeitaLimite
<1>8. Limite[m.id_cliente] \in Nat /\ Limite[m.id_cliente] + m.valor <= MaxInt8 + 1
  BY <1>2, LimiteAssumption DEF SemEstouro
<1>9. NovoSaldo(k) \in Int /\ NovoSaldo(k) <= MaxInt8
  BY <1>3, <1>4, <1>5, <1>6
<1>10. -(MaxInt8 + 1) <= NovoSaldo(k)
  BY <1>2, <1>4, <1>7, <1>8, <1>9
<1>. QED BY <1>9, <1>10

-----------------------------------------------------------------------------
(* The steps of Conta.                                                     *)
LEMMA PedidoDecidido ==
  ASSUME Base, NEW a \in Apis, pc[a] = "decide"
  PROVE  /\ pedido[a] \in Pedidos /\ pedido[a].op = "transacao"
         /\ pedido[a].id \in Clientes /\ pedido[a].tipo \in {"c", "d"}
         /\ pedido[a].valor \in Valores /\ pedido[a].valor \in Nat
         /\ Efeito(pedido[a]) \in Int
         /\ pedido[a].tipo = "d" => Efeito(pedido[a]) = -pedido[a].valor
<1>1. /\ pedido[a] \in Pedidos /\ pedido[a].op = "transacao"
      /\ pedido[a].id \in Clientes /\ TransacaoValida(pedido[a])
  BY DEF Base, TipoApi, PedidosValidados
<1>2. /\ pedido[a].tipo \in {"c", "d"}
      /\ pedido[a].valor \in Valores \cup {0, NaoInteiro}
      /\ pedido[a].valor # NaoInteiro /\ pedido[a].valor > 0
  BY <1>1, PedidosAssumption
  DEF TransacaoValida, is_tipo_transacao_valido, is_valor_transacao_valido, Tipos
<1>3. pedido[a].valor \in Valores
  BY <1>2
<1>4. pedido[a].valor \in Nat
  BY <1>3, ValoresAssumption
<1>5. Efeito(pedido[a]) \in Int
      /\ (pedido[a].tipo = "d" => Efeito(pedido[a]) = -pedido[a].valor)
  BY <1>4 DEF Efeito
<1>. QED BY <1>1, <1>2, <1>3, <1>4, <1>5

LEMMA ContaRecusa ==
  ASSUME SoUmaApi, SemEstouro, NEW V \in Nat, V * MaxEnvios <= MaxInt8,
         Contas(V), ContaClara', NEW a \in Apis, LimiteExcedido(a)
  PROVE  C!Next
<1>a. PICK p : p = pedido[a]
  OBVIOUS
<1>b. PICK r : r = [pedido |-> p, status |-> 422, saldo |-> 0]
  OBVIOUS
<1>c. PICK s : s = saldo[p.id]
  OBVIOUS
<1>1. /\ p \in Pedidos /\ p.op = "transacao" /\ p.id \in Clientes
      /\ p.valor \in Valores /\ p.valor \in Nat
      /\ p.tipo = "d" => Efeito(p) = -p.valor
  BY <1>a, PedidoDecidido DEF LimiteExcedido, Contas, Leituras
<1>2. /\ lido[a].saldo = s /\ Prometido(p.id) = s /\ s <= MaxInt8
  BY <1>a, <1>c, ContaLida DEF LimiteExcedido, Lendo
<1>3. p.tipo = "d" /\ ToInt64(s - p.valor) < -Limite[p.id]
  BY <1>a, <1>2 DEF LimiteExcedido, is_limite_excedido
<1>4. /\ s \in Int /\ RespeitaLimite(p.id, s)
      /\ Limite[p.id] \in Nat /\ Limite[p.id] + p.valor <= MaxInt8 + 1
      /\ MaxInt8 \in Nat
  BY <1>c, <1>1, LimiteAssumption, BoundsAssumption
  DEF Contas, Leituras, Base, Coerente, PgTypeOK, Travas, ChkSaldo, SemEstouro
<1>5. ToInt64(s - p.valor) = s - p.valor
  <2>1. -(MaxInt8 + 1) <= s - p.valor /\ s - p.valor <= MaxInt8 /\ s - p.valor \in Int
    BY <1>1, <1>2, <1>4 DEF RespeitaLimite
  <2>. QED BY <1>4, <2>1, TruncaCabe DEF ToInt64
<1>6. ~RespeitaLimite(p.id, s + Efeito(p))
  <2>1. s + Efeito(p) = s - p.valor
    BY <1>1, <1>3, <1>4
  <2>2. ~(s - p.valor >= -Limite[p.id])
    BY <1>1, <1>3, <1>4, <1>5
  <2>. QED BY <2>1, <2>2 DEF RespeitaLimite
<1>7. UNCHANGED <<saldo, cmd>> /\ Responde(a, p, 422, 0)
  BY <1>a DEF LimiteExcedido, dbVars, pgVars
<1>8. \A c \in Clientes : Prometido(c)' = Prometido(c)
  BY <1>7, ContaParada DEF Contas
<1>9. C!Recusa(r)
  BY <1>b, <1>1, <1>2, <1>3, <1>6, <1>8
  DEF C!Recusa, C!Efeito, Efeito, C!RespeitaLimite, RespeitaLimite
<1>. QED
  BY <1>b, <1>1, <1>7, <1>9, ContaResponde DEF Contas, Leituras

LEMMA ContaExtrato ==
  ASSUME SoUmaApi, NEW V \in Nat, V * MaxEnvios <= MaxInt8,
         Contas(V), ContaClara', NEW a \in Apis, FindLast10(a)
  PROVE  C!Next
<1>a. PICK p : p = pedido[a]
  OBVIOUS
<1>b. PICK t : t = ToInt32(lido[a].saldo)
  OBVIOUS
<1>c. PICK r : r = [pedido |-> p, status |-> 200, saldo |-> t]
  OBVIOUS
<1>1. pc[a] = "find_last_10" /\ Responde(a, p, 200, t) /\ UNCHANGED <<saldo, cmd>>
  BY <1>a, <1>b
  DEF FindLast10, RespondeExtrato, db_query_ok, dbVars, pgVars
<1>2. p \in Pedidos /\ p.op = "extrato" /\ p.id \in Clientes
  BY <1>a, <1>1
  DEF Contas, Servidos, Leituras, Base, TipoApi, PedidosValidados
<1>3. t = ToInt32(Prometido(p.id)) /\ t \in Int
  <2>1. lido[a].saldo = saldo[p.id] /\ Prometido(p.id) = saldo[p.id]
    BY <1>a, <1>1, <1>2, ContaLida DEF Lendo
  <2>2. saldo[p.id] \in Int
    BY <1>2 DEF Contas, Leituras, Base, Coerente, PgTypeOK
  <2>. QED BY <1>b, <2>1, <2>2, ToIntTipo
<1>4. \A c \in Clientes : Prometido(c)' = Prometido(c)
  BY <1>1, ContaParada DEF Contas
<1>5. C!Extrato(r)
  BY <1>c, <1>2, <1>3, <1>4 DEF C!Extrato
<1>. QED
  BY <1>c, <1>1, <1>2, <1>3, <1>5, ContaResponde DEF Contas, Leituras
(* Something in flight was promised, and the commit changes nothing of it. *)
LEMMA ContaTransacao ==
  ASSUME SoUmaApi, SemEstouro, NEW V \in Nat, Valores \subseteq 0..V,
         V * MaxEnvios <= MaxInt8, Contas(V), Contas(V)', NEW a \in Apis,
         SaveAsync(a),
         (* ContaCabe, after the step.                                     *)
         EmVoo(a)' => /\ NovoSaldo(a)' \in Int
                      /\ -(MaxInt8 + 1) <= NovoSaldo(a)'
                      /\ NovoSaldo(a)' <= MaxInt8
  PROVE  C!Next
<1>a. PICK p : p = pedido[a]
  OBVIOUS
<1>b. PICK m : m = Comando(a)
  OBVIOUS
<1>c. PICK s : s = saldo[p.id]
  OBVIOUS
<1>d. PICK t : t = ToInt32(update_saldo_cliente(lido[a].saldo, p))
  OBVIOUS
<1>e. PICK r : r = [pedido |-> p, status |-> 200, saldo |-> t]
  OBVIOUS
<1>1. /\ p \in Pedidos /\ p.op = "transacao" /\ p.id \in Clientes
      /\ p.valor \in Nat /\ p.tipo \in {"c", "d"} /\ Efeito(p) \in Int
  BY <1>a, PedidoDecidido DEF SaveAsync, Contas, Leituras
<1>2. m.tipo = p.tipo /\ m.valor = p.valor /\ m.id_cliente = p.id
  BY <1>a, <1>b DEF Comando
<1>3. Efeito(m) = Efeito(p)
  BY <1>2 DEF Efeito
<1>4. /\ estado[a] = "ociosa" /\ lido[a].saldo = s
      /\ \A c \in Clientes : Prometido(c) = saldo[c]
  BY <1>a, <1>c, ContaLida DEF SaveAsync, Lendo
<1>5. /\ UNCHANGED saldo /\ EmVoo(a)' /\ cmd'[a] = m
      /\ Responde(a, p, 200, t)
  <2>1. m # SemComando
    <3>1. m \in Comandos
      <4>1. enviados < MaxEnvios
        BY DEF SaveAsync, db_execute_async_true, Recebe, Descarta
      <4>. QED
        BY <1>b, <4>1, ComandoTipo
        DEF SaveAsync, Contas, Leituras, Base, TipoApi, TypeOK
    <3>. QED BY <3>1, SemComandoAssumption
  <2>2. Recebe(a, m)
    BY <1>b, <1>4 DEF SaveAsync, db_execute_async_true, Descarta
  <2>3. UNCHANGED saldo /\ cmd'[a] = m
    BY <2>2 DEF Recebe, Tabelas, Contas, Leituras, Base, Coerente, PgTypeOK, Apis
  <2>. QED BY <1>a, <1>d, <2>1, <2>3 DEF SaveAsync, EmVoo
<1>6. NovoSaldo(a)' = s + Efeito(p) /\ PassaChk(a)'
  BY <1>c, <1>2, <1>3, <1>5 DEF NovoSaldo, Contas, Cabem, Apis
<1>7. /\ s \in Int /\ s + Efeito(p) \in Int
      /\ -(MaxInt8 + 1) <= s + Efeito(p) /\ s + Efeito(p) <= MaxInt8
  BY <1>c, <1>1, <1>5, <1>6 DEF Contas, Leituras, Base, Coerente, PgTypeOK
<1>8. t = ToInt32(s + Efeito(p)) /\ t \in Int
  <2>1. update_saldo_cliente(s, p) = ToInt64(s + Efeito(p))
    <3>1. CASE p.tipo = "c"
      BY <3>1 DEF update_saldo_cliente, Efeito
    <3>2. CASE p.tipo = "d"
      <4>1. s - p.valor = s + (-p.valor)
        BY <1>1, <1>7
      <4>. QED BY <3>2, <4>1 DEF update_saldo_cliente, Efeito
    <3>. QED BY <1>1, <3>1, <3>2
  <2>2. ToInt64(s + Efeito(p)) = s + Efeito(p)
    BY <1>7, TruncaCabe, BoundsAssumption DEF ToInt64
  <2>. QED BY <1>d, <1>4, <1>7, <2>1, <2>2, ToIntTipo
<1>9. \A c \in Clientes :
        Prometido(c)' = IF c = p.id THEN s + Efeito(p) ELSE Prometido(c)
  <2>. SUFFICES ASSUME NEW c \in Clientes
                PROVE  Prometido(c)' = IF c = p.id THEN s + Efeito(p)
                                                   ELSE Prometido(c)
    OBVIOUS
  <2>1. CASE c = p.id
    BY <1>2, <1>5, <1>6, <2>1 DEF Contas, ContaClara, Apis
  <2>2. CASE c # p.id
    <3>1. \A k \in Conexoes : ~(EmVoo(k)' /\ cmd'[k].id_cliente = c)
      BY <1>2, <1>5, <2>2 DEF SoUmaApi, Apis
    <3>2. Prometido(c)' = saldo'[c]
      BY <3>1 DEF Contas, ContaClara
    <3>. QED BY <1>4, <1>5, <2>2, <3>2
  <2>. QED BY <2>1, <2>2
<1>10. RespeitaLimite(p.id, s + Efeito(p))
  BY <1>2, <1>5, <1>6 DEF PassaChk, RespeitaLimite
<1>11. C!Transacao(r)
  <2>1. Prometido(p.id) = s /\ Prometido(p.id)' = s + Efeito(p)
    BY <1>c, <1>1, <1>4, <1>9
  <2>. QED
    BY <1>e, <1>1, <1>8, <1>9, <1>10, <2>1
    DEF C!Transacao, C!Efeito, Efeito, C!RespeitaLimite, RespeitaLimite
<1>. QED
  BY <1>e, <1>1, <1>5, <1>8, <1>11, ContaResponde DEF Contas, Leituras

LEMMA ContaServidor ==
  ASSUME SoUmaApi, SemEstouro, NEW V \in Nat, Valores \subseteq 0..V,
         V * MaxEnvios <= MaxInt8, Contas(V), ContaClara', NEW k \in Apis,
         Executa(k)
  PROVE  \A c \in Clientes : Prometido(c)' = Prometido(c)
<1>1. EmVoo(k) /\ k \in Conexoes /\ \A j \in Conexoes : j = k
  <2>1. k \in Conexoes
    BY DEF Apis
  <2>. QED
    BY <2>1, ExecutaQuadro DEF Contas, Leituras, Base, SoUmaApi, Apis
<1>2. ~RecusaTexto(k) /\ ~RecusaSaldo(k) /\ ~RecusaBigint(k) /\ ~RecusaValor(k)
  <2>1. Servivel(cmd[k]) /\ PassaChk(k)
    BY <1>1 DEF Contas, Servidos, Cabem
  <2>2. ~RecusaTexto(k) /\ ~RecusaSaldo(k)
    BY <2>1 DEF RecusaTexto, RecusaSaldo, Servivel
  <2>3. ~RecusaBigint(k)
    BY <1>1, ContaCabe, BoundsAssumption DEF RecusaBigint, CabeEmBigint
  <2>4. cmd[k].valor \in Nat
    <3>1. cmd[k] \in Comandos
      BY <1>1, ComandoEmVoo DEF Contas, Leituras, Base, Coerente
    <3>2. cmd[k].valor \in Valores
      BY <3>1 DEF Comandos
    <3>. QED BY <3>2, ValoresAssumption
  <2>5. ~RecusaValor(k)
    BY <2>1, <2>4, BoundsAssumption DEF RecusaValor, Servivel
  <2>. QED BY <2>2, <2>3, <2>5
<1>3. CASE Inicia(k) \/ Atualiza(k)
  BY <1>3, ContaParada DEF Inicia, Atualiza, Tabelas, Contas
<1>4. CASE Grava(k)
  <2>1. /\ saldo' = [saldo EXCEPT ![cmd[k].id_cliente] = NovoSaldo(k)]
        /\ ~EmVoo(k)' /\ saldo \in [Clientes -> Int]
    BY <1>1, <1>4
    DEF Grava, EmVoo, Contas, Leituras, Travas, VersaoTravada, Base, Coerente,
        PgTypeOK
  <2>. SUFFICES ASSUME NEW c \in Clientes
                PROVE  Prometido(c)' = Prometido(c)
    OBVIOUS
  <2>2. Prometido(c)' = saldo'[c]
    BY <1>1, <2>1 DEF ContaClara
  <2>3. CASE c = cmd[k].id_cliente
    BY <1>1, <2>1, <2>2, <2>3 DEF Contas, ContaClara
  <2>4. CASE c # cmd[k].id_cliente
    <3>1. Prometido(c) = saldo[c]
      BY <1>1, <2>4 DEF Contas, ContaClara
    <3>. QED BY <2>1, <2>2, <2>4, <3>1
  <2>. QED BY <2>3, <2>4
<1>. QED BY <1>2, <1>3, <1>4 DEF Executa

(* What a process that nobody kills does, on a database that does not      *)
(* crash, with requests that the database can store.                       *)
LEMMA ContaCasos ==
  ASSUME SemFalhas, PedidosServiveis, NEW V, Contas(V), NEW a \in Apis,
         Chega(a) \/ Atende(a) \/ Sinal(a)
  PROVE  \/ SaveAsync(a) \/ LimiteExcedido(a) \/ FindLast10(a)
         \/ UNCHANGED <<saldo, cmd, resposta>>
<1>1. ASSUME NEW p \in Pedidos, SaveTransacao(a, p)
      PROVE  UNCHANGED <<saldo, cmd, resposta>>
  <2>1. TransacaoValida(p) /\ ~TipoNulo(p)
    <3>1. TransacaoValida(p)
      BY <1>1 DEF SaveTransacao, PedidosServiveis
    <3>. QED
      BY <3>1 DEF TransacaoValida, TipoNulo, is_tipo_transacao_valido, Tipos
  <2>. QED
    BY <1>1, <2>1
    DEF SaveTransacao, RecebePedido, EntraFindOne, dbVars, pgVars
<1>2. ASSUME NEW p \in Pedidos, FindById(a, p)
      PROVE  UNCHANGED <<saldo, cmd, resposta>>
  <2>1. is_id_cliente_valido(p)
    BY IdsAssumption DEF is_id_cliente_valido, PedidosServiveis
  <2>. QED
    BY <1>2, <2>1 DEF FindById, RecebePedido, EntraFindOne, dbVars, pgVars
<1>3. CASE Conecta(a) \/ RedefineConexao(a) \/ Desliga(a)
  BY <1>3
  DEF Conecta, RedefineConexao, db_connect, db_get_connection_reset, Reconecta,
      Tabelas, Desliga, db_close_pool, apiVars, pgVars
<1>4. CASE FindOne(a)
  <2>1. pedido[a].id \in Clientes
    <3>1. pedido[a] \in Pedidos
      BY <1>4 DEF FindOne, Contas, Leituras, Base, TipoApi, PedidosValidados
    <3>. QED BY <3>1 DEF PedidosServiveis
  <2>. QED BY <1>4, <2>1 DEF FindOne, db_query_ok, dbVars, pgVars
<1>5. ~FindOneNull(a) /\ ~SaveAsyncFalse(a) /\ ~FindLast10Null(a)
  BY DEF FindOneNull, SaveAsyncFalse, FindLast10Null, RespondeExtrato,
         db_query_null, db_execute_async_false, Contas, Vida, SessaoViva, Servidos
<1>6. ~Mata(a) /\ ~EnviaEMorre(a)
  BY DEF Mata, EnviaEMorre, Matado, SemFalhas
<1>. QED
  BY <1>1, <1>2, <1>3, <1>4, <1>5, <1>6 DEF Chega, Atende, Sinal

LEMMA ContaPasso ==
  ASSUME SoUmaApi, SemEstouro, SemFalhas, PedidosServiveis,
         NEW V \in Nat, Valores \subseteq 0..V, V * MaxEnvios <= MaxInt8,
         Contas(V), Contas(V)',
         \A k \in Conexoes : EmVoo(k)' => /\ NovoSaldo(k)' \in Int
                                          /\ -(MaxInt8 + 1) <= NovoSaldo(k)'
                                          /\ NovoSaldo(k)' <= MaxInt8,
         [Next]_vars
  PROVE  [C!Next]_(C!contaVars)
<1>0. ContaClara /\ ContaClara'
  BY DEF Contas
<1>1. ASSUME \A c \in Clientes : Prometido(c)' = Prometido(c), UNCHANGED resposta
      PROVE  UNCHANGED C!contaVars
  BY <1>1 DEF C!contaVars
<1>2. ASSUME NEW a \in Apis, Chega(a) \/ Atende(a) \/ Sinal(a)
      PROVE  C!Next \/ UNCHANGED C!contaVars
  <2>1. CASE SaveAsync(a)
    BY <2>1, ContaTransacao DEF Apis
  <2>2. CASE LimiteExcedido(a)
    BY <1>0, <2>2, ContaRecusa
  <2>3. CASE FindLast10(a)
    BY <1>0, <2>3, ContaExtrato
  <2>4. CASE UNCHANGED <<saldo, cmd, resposta>>
    BY <1>0, <1>1, <2>4, ContaParada
  <2>. QED BY <1>2, <2>1, <2>2, <2>3, <2>4, ContaCasos
<1>3. ASSUME NEW k \in Apis, Servidor(k)
      PROVE  UNCHANGED C!contaVars
  BY <1>0, <1>1, <1>3, ContaServidor DEF Servidor, apiVars
<1>4. CASE Ambiente
  <2>1. ~Queda
    BY DEF Queda, SemFalhas, Contas, Servidos
  <2>. QED
    BY <1>0, <1>1, <1>4, <2>1, ContaParada DEF Ambiente, Descarrega, apiVars
<1>5. CASE Fim \/ UNCHANGED vars
  BY <1>0, <1>1, <1>5, ContaParada DEF Fim, vars, dbVars, pgVars, apiVars
<1>. QED BY <1>2, <1>3, <1>4, <1>5 DEF Next

(* One process with asynchronous writes, for any clients, requests and     *)
(* number of messages, is the service that decides every request at once,  *)
(* where nothing it accepts can be lost: no crash, no kill between the     *)
(* message and the answer, requests that the database can store, and room  *)
(* in a bigint for the sum of all amounts sent.  "Can store" leaves out    *)
(* descriptions with a quote, as Textos does.                              *)
THEOREM ApiImplementaConta ==
  ASSUME SoUmaApi, SemEstouro, SemFalhas, PedidosServiveis,
         NEW V \in Nat, Valores \subseteq 0..V, V * MaxEnvios <= MaxInt8
  PROVE  Spec => ImplementaConta
<1>. DEFINE Cabe ==
       \A k \in Conexoes : EmVoo(k) => /\ NovoSaldo(k) \in Int
                                       /\ -(MaxInt8 + 1) <= NovoSaldo(k)
                                       /\ NovoSaldo(k) <= MaxInt8
<1>. DEFINE I == Leituras /\ Vida /\ Cabem /\ Servidos /\ Teto(V)
<1>1. Init => I
  <2>. SUFFICES ASSUME Init PROVE I
    OBVIOUS
  <2>1. Leituras
    BY LeiturasInit
  <2>2. Vida /\ Cabem
    BY DEF Init, PgInit, Vida, MorteExplicada, SessaoViva, Cabem, EmVoo
  <2>3. Servidos
    BY BoundsAssumption DEF Init, PgInit, Servidos, EmVoo
  <2>4. Teto(V)
    <3>1. V * 0 = 0
      OBVIOUS
    <3>. QED BY <3>1 DEF Init, PgInit, Teto, EmVoo
  <2>. QED BY <2>1, <2>2, <2>3, <2>4
<1>2. I /\ [Next]_vars => I'
  <2>. SUFFICES ASSUME I, [Next]_vars PROVE I'
    OBVIOUS
  <2>1. Leituras' /\ Vida' /\ Cabem'
    BY LeiturasPasso, VidaPasso, CabemPasso DEF Leituras
  <2>2. Servidos' /\ Teto(V)'
    BY ServidosPasso, TetoPasso DEF Leituras
  <2>. QED BY <2>1, <2>2
<1>3. I => Contas(V)
  BY PrometidoDeUma DEF Contas, ContaClara, Leituras, Base
<1>4. Contas(V) => Cabe
  BY ContaCabe
<1>5. Init => C!Init
  <2>. SUFFICES ASSUME Init PROVE C!Init
    OBVIOUS
  <2>1. Contas(V)
    BY <1>1, <1>3
  <2>2. \A c \in Clientes : Prometido(c) = 0
    BY <2>1 DEF Contas, ContaClara, Init, PgInit, EmVoo
  <2>. QED BY <2>2 DEF Init, C!Init
<1>6. Contas(V) /\ Contas(V)' /\ Cabe' /\ [Next]_vars => [C!Next]_(C!contaVars)
  BY ContaPasso
<1>. HIDE DEF I, Cabe
<1>. QED
  BY <1>1, <1>2, <1>3, <1>4, <1>5, <1>6, PTL DEF Spec, ImplementaConta, C!Spec
=============================================================================
