----------------------- MODULE ClienteControllerProofs -----------------------
(***************************************************************************)
(* Theorems about ClienteController, for every set of API processes,       *)
(* clients and requests, all limits and bounds.                            *)
(***************************************************************************)
EXTENDS ClienteController, PostgresProofs

(* A process that is about to decide holds a request that passed every     *)
(* validation, of a client the table has; likewise before the list of an   *)
(* extrato.  A process that is talking to the database holds a request.    *)
PedidosValidados ==
  \A a \in Apis :
    /\ pc[a] \in {"find_one", "decide", "find_last_10"} => pedido[a] \in Pedidos
    /\ pc[a] \in {"find_one", "decide"} /\ pedido[a].op = "transacao" =>
         TransacaoValida(pedido[a])
    /\ pc[a] = "decide" =>
         pedido[a].op = "transacao" /\ pedido[a].id \in Clientes
    /\ pc[a] = "find_last_10" => pedido[a].id \in Clientes

(* What the repository formats for such a request is a message.            *)
LEMMA ComandoTipo ==
  ASSUME PgTypeOK, PedidosValidados, NEW a \in Apis, pc[a] = "decide",
         enviados < MaxEnvios
  PROVE  Comando(a) \in Comandos
<1>1. /\ pedido[a] \in Pedidos
      /\ TransacaoValida(pedido[a])
      /\ pedido[a].id \in Clientes
  BY DEF PedidosValidados
<1>2. /\ pedido[a].tipo \in Tipos
      /\ pedido[a].valor \in Valores \cup {0, NaoInteiro}
      /\ pedido[a].valor # NaoInteiro /\ pedido[a].valor > 0
      /\ pedido[a].descricao \in Textos
  BY <1>1, PedidosAssumption
  DEF TransacaoValida, is_tipo_transacao_valido, is_valor_transacao_valido,
      is_descricao_transacao_valida
<1>3. pedido[a].valor \in Valores
  BY <1>2
<1>4. enviados + 1 \in 1..MaxEnvios
  BY BoundsAssumption DEF PgTypeOK
<1>5. strzcpy(pedido[a].descricao, UTF8_TRANSACAO_DESCRICAO_LEN) \in Descricoes
  BY <1>2 DEF Descricoes
<1>. QED BY <1>1, <1>2, <1>3, <1>4, <1>5 DEF Comando, Comandos, Apis

-----------------------------------------------------------------------------
(* Every step of the composition is a step of the database or leaves it    *)
(* alone.                                                                  *)
LEMMA PassoPg ==
  ASSUME PgTypeOK, PedidosValidados, [Next]_vars
  PROVE  [PgNext]_pgVars
<1>. USE DEF Apis
<1>1. ASSUME NEW a \in Apis, NEW p \in Pedidos,
             SaveTransacao(a, p) \/ FindById(a, p)
      PROVE  UNCHANGED pgVars
  BY <1>1 DEF SaveTransacao, FindById, RecebePedido, dbVars
<1>2. ASSUME NEW a \in Apis, Conecta(a) \/ RedefineConexao(a)
      PROVE  Reconecta(a)
  BY <1>2 DEF Conecta, db_connect, RedefineConexao, db_get_connection_reset
<1>3. ASSUME NEW a \in Apis,
             \/ FindOne(a) \/ FindOneNull(a) \/ LimiteExcedido(a)
             \/ SaveAsyncFalse(a) \/ FindLast10(a) \/ FindLast10Null(a)
      PROVE  UNCHANGED pgVars
  BY <1>3
  DEF FindOne, FindOneNull, LimiteExcedido, SaveAsyncFalse, FindLast10,
      FindLast10Null, db_query_ok, db_query_null, db_execute_async_false, dbVars
<1>4. ASSUME NEW a \in Apis, SaveAsync(a) \/ EnviaEMorre(a)
      PROVE  \E t \in Comandos : Recebe(a, t) \/ Descarta(a, t)
  <2>1. /\ pc[a] = "decide"
        /\ Recebe(a, Comando(a)) \/ Descarta(a, Comando(a))
    BY <1>4 DEF SaveAsync, EnviaEMorre, db_execute_async_true
  <2>2. enviados < MaxEnvios
    BY <2>1 DEF Recebe, Descarta
  <2>. QED BY <2>1, <2>2, ComandoTipo
<1>5. ASSUME NEW a \in Apis, Servidor(a)
      PROVE  Executa(a)
  BY <1>5 DEF Servidor
<1>6. CASE Ambiente
  BY <1>6 DEF Ambiente, PgNext
<1>7. CASE Fim \/ UNCHANGED vars
  BY <1>7 DEF Fim, vars, dbVars
<1>8. ASSUME NEW a \in Apis, Mata(a) \/ Desliga(a)
      PROVE  UNCHANGED pgVars
  BY <1>8 DEF Mata, Desliga, db_close_pool, dbVars
<1>. QED
  BY <1>1, <1>2, <1>3, <1>4, <1>5, <1>6, <1>7, <1>8
  DEF Next, Chega, Atende, Sinal, PgNext, Pede

-----------------------------------------------------------------------------
(* Type correctness of the processes.                                      *)
TipoApi == TypeOK /\ PedidosValidados

LEMMA TruncaTipo ==
  ASSUME NEW x \in Int, NEW max \in Nat
  PROVE  Trunca(x, max) \in Int
<1>1. 2 * (max + 1) \in Nat \ {0}
  OBVIOUS
<1>2. (x + max + 1) % (2 * (max + 1)) \in Int
  BY <1>1
<1>. QED BY <1>2 DEF Trunca

LEMMA ToIntTipo ==
  ASSUME NEW x \in Int
  PROVE  ToInt32(x) \in Int /\ ToInt64(x) \in Int
  BY TruncaTipo, LimitesAssumption, BoundsAssumption DEF ToInt32, ToInt64

(* The balance a 200 carries is an integer.                                *)
LEMMA SaldoPrometidoTipo ==
  ASSUME NEW x \in Int, NEW p \in Pedidos, TransacaoValida(p)
  PROVE  ToInt32(update_saldo_cliente(x, p)) \in Int
<1>1. p.valor \in Valores \cup {0, NaoInteiro} /\ p.valor # NaoInteiro
  BY PedidosAssumption DEF TransacaoValida, is_valor_transacao_valido
<1>2. p.valor \in Nat
  <2>1. CASE p.valor \in Valores
    BY <2>1, ValoresAssumption
  <2>2. CASE p.valor = 0
    BY <2>2
  <2>. QED BY <1>1, <2>1, <2>2
<1>3. x + p.valor \in Int /\ x - p.valor \in Int
  BY <1>2
<1>. QED BY <1>3, ToIntTipo DEF update_saldo_cliente

LEMMA RespondeTipo ==
  ASSUME TipoApi, NEW a \in Apis, NEW p \in Pedidos,
         NEW status \in {200, 400, 404, 422}, NEW s \in Int,
         Responde(a, p, status, s)
  PROVE  /\ pc' \in [Apis -> Pcs]
         /\ pedido' \in [Apis -> Pedidos \cup {SemPedido}]
         /\ lido' \in [Apis -> [saldo : Int, visto : SUBSET Nat]]
         /\ resposta' \in [Apis -> Respostas \cup {SemResposta}]
         /\ PedidosValidados'
<1>1. [pedido |-> p, status |-> status, saldo |-> s] \in Respostas
  BY DEF Respostas
<1>2. NadaLido \in [saldo : Int, visto : SUBSET Nat]
  BY DEF NadaLido
<1>3. PedidosValidados'
  BY DEF TipoApi, TypeOK, PedidosValidados, Responde, TransacaoValida
<1>. QED BY <1>1, <1>2, <1>3 DEF TipoApi, TypeOK, Responde, Pcs, Parados

LEMMA MorreTipo ==
  ASSUME TipoApi, NEW a \in Apis, NEW p \in Pedidos, Morre(a, p)
  PROVE  /\ pc' \in [Apis -> Pcs]
         /\ pedido' \in [Apis -> Pedidos \cup {SemPedido}]
         /\ UNCHANGED <<lido, resposta>>
         /\ PedidosValidados'
<1>1. PedidosValidados'
  BY DEF TipoApi, TypeOK, PedidosValidados, Morre
<1>. QED BY <1>1 DEF TipoApi, TypeOK, Morre, Pcs, Parados

LEMMA EntraTipo ==
  ASSUME TipoApi, NEW a \in Apis, NEW p \in Pedidos, EntraFindOne(a, p),
         p.op = "transacao" => TransacaoValida(p)
  PROVE  /\ pc' \in [Apis -> Pcs]
         /\ pedido' \in [Apis -> Pedidos \cup {SemPedido}]
         /\ UNCHANGED <<lido, resposta>>
         /\ PedidosValidados'
<1>1. PedidosValidados'
  BY DEF TipoApi, TypeOK, PedidosValidados, EntraFindOne
<1>. QED BY <1>1 DEF TipoApi, TypeOK, EntraFindOne, Pcs, Parados

(* The fields of TypeOK that the steps of the processes change.            *)
TipoProcessos ==
  /\ pc \in [Apis -> Pcs]
  /\ pedido \in [Apis -> Pedidos \cup {SemPedido}]
  /\ lido \in [Apis -> [saldo : Int, visto : SUBSET Nat]]
  /\ resposta \in [Apis -> Respostas \cup {SemResposta}]
  /\ PedidosValidados

TipoResto ==
  /\ PoolTypeOK
  /\ recebidos \in Nat
  /\ aceitas \subseteq Aceitas
  /\ extrato \in [Apis -> Extratos \cup {SemExtrato}]

LEMMA TipoApiPartes == TipoApi <=> PgTypeOK /\ TipoProcessos /\ TipoResto
  BY DEF TipoApi, TypeOK, TipoProcessos, TipoResto

LEMMA ProcessosPasso ==
  ASSUME TipoApi, [Next]_vars
  PROVE  TipoProcessos'
<1>. USE DEF TipoProcessos
<1>0. TipoProcessos
  BY TipoApiPartes
<1>1. ASSUME NEW a \in Apis, NEW p \in Pedidos, SaveTransacao(a, p)
      PROVE  TipoProcessos'
  <2>1. CASE TransacaoValida(p) /\ EntraFindOne(a, p)
    BY <2>1, <1>0, EntraTipo
  <2>2. CASE Morre(a, p)
    BY <2>2, <1>0, MorreTipo
  <2>3. CASE Responde(a, p, 422, 0)
    BY <2>3, RespondeTipo
  <2>. QED BY <1>1, <2>1, <2>2, <2>3 DEF SaveTransacao
<1>2. ASSUME NEW a \in Apis, NEW p \in Pedidos, FindById(a, p)
      PROVE  TipoProcessos'
  <2>1. CASE EntraFindOne(a, p)
    BY <1>2, <2>1, <1>0, EntraTipo DEF FindById
  <2>2. CASE Responde(a, p, 400, 0)
    BY <2>2, RespondeTipo
  <2>. QED BY <1>2, <2>1, <2>2 DEF FindById
<1>3. ASSUME NEW a \in Apis, Conecta(a)
      PROVE  TipoProcessos'
  <2>1. pc' \in [Apis -> Pcs]
    BY <1>0, <1>3 DEF Conecta, Pcs, Parados
  <2>2. PedidosValidados'
    BY <1>0, <1>3 DEF Conecta, PedidosValidados, TransacaoValida
  <2>. QED BY <1>0, <1>3, <2>1, <2>2 DEF Conecta
<1>4. ASSUME NEW a \in Apis, RedefineConexao(a)
      PROVE  TipoProcessos'
  BY <1>0, <1>4 DEF RedefineConexao, apiVars, PedidosValidados
<1>5. ASSUME NEW a \in Apis, FindOne(a)
      PROVE  TipoProcessos'
  <2>. DEFINE p == pedido[a]
  <2>. DEFINE cliente ==
         [saldo |-> saldo[p.id],
          visto |-> {t.num : t \in DoCliente(transacao, p.id)}]
  <2>1. pc[a] = "find_one" /\ p \in Pedidos
    BY <1>0, <1>5 DEF FindOne, PedidosValidados
  <2>2. CASE p.id \in Clientes
    <3>1. /\ lido' = [lido EXCEPT ![a] = cliente]
          /\ pc' = [pc EXCEPT ![a] = IF p.op = "extrato" THEN "find_last_10"
                                                         ELSE "decide"]
          /\ UNCHANGED <<pedido, resposta>>
      BY <1>5, <2>2 DEF FindOne
    <3>2. cliente \in [saldo : Int, visto : SUBSET Nat]
      BY <2>2 DEF TipoApi, TypeOK, PgTypeOK, Linhas, DoCliente
    <3>3. lido' \in [Apis -> [saldo : Int, visto : SUBSET Nat]]
      <4>. HIDE DEF cliente
      <4>. QED BY <1>0, <3>1, <3>2
    <3>4. pc' \in [Apis -> Pcs]
      BY <1>0, <3>1 DEF Pcs, Parados
    <3>5. p.op \in {"transacao", "extrato"}
      BY <2>1, PedidosAssumption
    <3>6. PedidosValidados'
      BY <1>0, <2>1, <2>2, <3>1, <3>5 DEF PedidosValidados, TransacaoValida
    <3>. QED BY <1>0, <3>1, <3>3, <3>4, <3>6
  <2>3. CASE Responde(a, p, 404, 0)
    BY <2>1, <2>3, RespondeTipo
  <2>. QED BY <1>5, <2>2, <2>3 DEF FindOne
<1>6. ASSUME NEW a \in Apis, FindOneNull(a)
      PROVE  TipoProcessos'
  <2>1. pedido[a] \in Pedidos
    BY <1>0, <1>6 DEF FindOneNull, PedidosValidados
  <2>. QED BY <1>0, <1>6, <2>1, MorreTipo DEF FindOneNull
<1>7. ASSUME NEW a \in Apis, LimiteExcedido(a) \/ SaveAsyncFalse(a)
      PROVE  TipoProcessos'
  <2>1. pedido[a] \in Pedidos /\ Responde(a, pedido[a], 422, 0)
    BY <1>0, <1>7 DEF LimiteExcedido, SaveAsyncFalse, PedidosValidados
  <2>. QED BY <2>1, RespondeTipo
<1>8. ASSUME NEW a \in Apis, SaveAsync(a)
      PROVE  TipoProcessos'
  <2>. DEFINE novo == ToInt32(update_saldo_cliente(lido[a].saldo, pedido[a]))
  <2>1. pedido[a] \in Pedidos /\ TransacaoValida(pedido[a])
    BY <1>0, <1>8 DEF SaveAsync, PedidosValidados
  <2>2. Responde(a, pedido[a], 200, novo)
    BY <1>8 DEF SaveAsync
  <2>3. novo \in Int
    BY <1>0, <2>1, SaldoPrometidoTipo
  <2>. QED BY <2>1, <2>2, <2>3, RespondeTipo
<1>9. ASSUME NEW a \in Apis, FindLast10(a) \/ FindLast10Null(a)
      PROVE  TipoProcessos'
  <2>1. /\ pedido[a] \in Pedidos
        /\ Responde(a, pedido[a], 200, ToInt32(lido[a].saldo))
    BY <1>0, <1>9
    DEF FindLast10, FindLast10Null, RespondeExtrato, PedidosValidados
  <2>2. ToInt32(lido[a].saldo) \in Int
    BY <1>0, ToIntTipo
  <2>. QED BY <2>1, <2>2, RespondeTipo
<1>10. CASE \/ \E a \in Apis : Servidor(a)
            \/ Ambiente \/ Fim \/ UNCHANGED vars
  BY <1>0, <1>10
  DEF Servidor, Ambiente, Fim, vars, apiVars, PedidosValidados
<1>11. ASSUME NEW a \in Apis, Sinal(a)
       PROVE  TipoProcessos'
  <2>1. /\ \E fim \in Parados : pc' = [pc EXCEPT ![a] = fim]
        /\ UNCHANGED <<pedido, lido, resposta>>
    BY <1>11 DEF Sinal, Mata, EnviaEMorre, Desliga, Matado, Parados
  <2>2. pc' \in [Apis -> Pcs]
    BY <1>0, <2>1 DEF Pcs
  <2>3. PedidosValidados'
    BY <1>0, <2>1 DEF PedidosValidados, TransacaoValida, Parados
  <2>. QED BY <1>0, <2>1, <2>2, <2>3
<1>. QED
  BY <1>1, <1>2, <1>3, <1>4, <1>5, <1>6, <1>7, <1>8, <1>9, <1>10, <1>11
  DEF Next, Chega, Atende

LEMMA UltimasTransacoesTipo ==
  ASSUME PgTypeOK, NEW c
  PROVE  UltimasTransacoes(c) \subseteq Linhas
<1>. SUFFICES ASSUME NEW u \in UltimasTransacoes(c)
              PROVE  u \in Linhas
  OBVIOUS
<1>1. PICK t \in transacao :
        u = [t EXCEPT !.descricao = strzcpy(@, UTF8_TRANSACAO_DESCRICAO_LEN)]
  BY DEF UltimasTransacoes, DoCliente
<1>2. t \in Linhas
  BY DEF PgTypeOK
<1>3. strzcpy(t.descricao, UTF8_TRANSACAO_DESCRICAO_LEN) \in Seq(Bytes)
  BY <1>2, StrzcpyTipo, TextosAssumption
  DEF Linhas, UTF8_TRANSACAO_DESCRICAO_LEN
<1>. QED BY <1>1, <1>2, <1>3 DEF Linhas

LEMMA RestoPasso ==
  ASSUME TipoApi, [Next]_vars
  PROVE  TipoResto'
<1>. USE DEF TipoResto, PoolTypeOK
<1>0. TipoResto /\ TipoProcessos /\ PgTypeOK
  BY TipoApiPartes
<1>1. ASSUME NEW a \in Apis, NEW p \in Pedidos,
             SaveTransacao(a, p) \/ FindById(a, p)
      PROVE  TipoResto'
  BY <1>0, <1>1 DEF SaveTransacao, FindById, RecebePedido, dbVars
<1>2. ASSUME NEW a \in Apis, Conecta(a) \/ RedefineConexao(a)
      PROVE  TipoResto'
  BY <1>0, <1>2
  DEF Conecta, db_connect, RedefineConexao, db_get_connection_reset, apiVars
<1>3. ASSUME NEW a \in Apis,
             \/ FindOne(a) \/ FindOneNull(a)
             \/ LimiteExcedido(a) \/ SaveAsyncFalse(a)
      PROVE  TipoResto'
  BY <1>0, <1>3
  DEF FindOne, FindOneNull, LimiteExcedido, SaveAsyncFalse, db_query_ok,
      db_query_null, db_execute_async_false, dbVars
<1>4. ASSUME NEW a \in Apis, SaveAsync(a)
      PROVE  TipoResto'
  <2>. DEFINE novo == ToInt32(update_saldo_cliente(lido[a].saldo, pedido[a]))
  <2>. DEFINE r == [num |-> enviados + 1, via |-> a, id_cliente |-> pedido[a].id,
                    descricao |-> pedido[a].descricao,
                    saldo |-> novo, visto |-> lido[a].visto]
  <2>1. /\ pedido[a] \in Pedidos
        /\ TransacaoValida(pedido[a])
        /\ pedido[a].id \in Clientes
    BY <1>0, <1>4 DEF SaveAsync, TipoProcessos, PedidosValidados
  <2>2. lido[a] \in [saldo : Int, visto : SUBSET Nat]
    BY <1>0 DEF TipoProcessos
  <2>3. novo \in Int
    BY <2>1, <2>2, SaldoPrometidoTipo
  <2>4. enviados + 1 \in Nat
    BY <1>0 DEF PgTypeOK
  <2>5. r \in Aceitas
    <3>1. pedido[a].descricao \in Textos
      BY <2>1, PedidosAssumption
      DEF TransacaoValida, is_descricao_transacao_valida
    <3>. HIDE DEF novo
    <3>. QED BY <2>1, <2>2, <2>3, <2>4, <3>1 DEF Aceitas
  <2>6. aceitas' = aceitas \cup {r}
    BY <1>4 DEF SaveAsync
  <2>7. UNCHANGED <<pool, recebidos, extrato>>
    BY <1>4 DEF SaveAsync, db_execute_async_true
  <2>. QED BY <1>0, <2>5, <2>6, <2>7
<1>5. ASSUME NEW a \in Apis, FindLast10(a) \/ FindLast10Null(a)
      PROVE  TipoResto'
  <2>1. PICK lista \in SUBSET Linhas : RespondeExtrato(a, lista)
    BY <1>0, <1>5, UltimasTransacoesTipo DEF FindLast10, FindLast10Null
  <2>. DEFINE e == [id |-> pedido[a].id, total |-> ToInt32(lido[a].saldo),
                    visto |-> lido[a].visto, lista |-> lista]
  <2>2. pedido[a].id \in Clientes
    BY <1>0, <2>1 DEF RespondeExtrato, TipoProcessos, PedidosValidados
  <2>3. lido[a] \in [saldo : Int, visto : SUBSET Nat]
    BY <1>0 DEF TipoProcessos
  <2>4. ToInt32(lido[a].saldo) \in Int
    BY <2>3, ToIntTipo
  <2>5. e \in Extratos
    BY <2>2, <2>3, <2>4 DEF Extratos
  <2>6. extrato' = [extrato EXCEPT ![a] = e] /\ UNCHANGED <<recebidos, aceitas>>
    BY <2>1 DEF RespondeExtrato
  <2>7. PoolTypeOK'
    BY <1>0, <1>5 DEF FindLast10, FindLast10Null, db_query_ok, db_query_null,
                      dbVars
  <2>. HIDE DEF e
  <2>. QED BY <1>0, <2>5, <2>6, <2>7
<1>6. CASE \/ \E a \in Apis : Servidor(a)
           \/ Ambiente \/ Fim \/ UNCHANGED vars
  BY <1>0, <1>6 DEF Servidor, Ambiente, Fim, vars, dbVars, apiVars
<1>7. ASSUME NEW a \in Apis, Sinal(a)
      PROVE  TipoResto'
  BY <1>0, <1>7
  DEF Sinal, Mata, EnviaEMorre, Desliga, Matado, db_execute_async_true,
      db_close_pool, dbVars
<1>. QED
  BY <1>1, <1>2, <1>3, <1>4, <1>5, <1>6, <1>7 DEF Next, Chega, Atende

-----------------------------------------------------------------------------
(* The first invariant: types of the processes, and of the database.       *)
Base == TipoApi /\ Coerente

LEMMA BaseInit == Init => Base
<1>. SUFFICES ASSUME Init PROVE Base
  OBVIOUS
<1>1. PgInit
  BY DEF Init
<1>2. Coerente
  BY <1>1, CoerenteInit
<1>3. TipoProcessos
  BY DEF Init, TipoProcessos, PedidosValidados, NadaLido, Pcs, Parados
<1>4. TipoResto
  BY DEF Init, TipoResto, PoolInit, PoolTypeOK, Apis
<1>. QED BY <1>2, <1>3, <1>4, TipoApiPartes DEF Base, Coerente

LEMMA BasePasso ==
  ASSUME Base, [Next]_vars
  PROVE  Base' /\ [PgNext]_pgVars
<1>1. TipoApi /\ Coerente
  BY DEF Base
<1>2. [PgNext]_pgVars
  BY <1>1, PassoPg DEF TipoApi, TypeOK
<1>3. Coerente'
  BY <1>1, <1>2, CoerentePasso
<1>4. TipoProcessos' /\ TipoResto'
  BY <1>1, ProcessosPasso, RestoPasso
<1>5. TipoApi'
  BY <1>3, <1>4 DEF TipoApi, TypeOK, TipoProcessos, TipoResto, Coerente
<1>. QED BY <1>2, <1>3, <1>5 DEF Base

(* Type correctness of the whole system.                                   *)
THEOREM ApiTipos == Spec => []TypeOK
<1>1. Init => Base
  BY BaseInit
<1>2. Base /\ [Next]_vars => Base'
  BY BasePasso
<1>3. Base => TypeOK
  BY DEF Base, TipoApi
<1>. QED BY <1>1, <1>2, <1>3, PTL DEF Spec

(* Whatever the API processes do, the database they share behaves as the   *)
(* module Postgres says, so every theorem of PostgresProofs holds of the   *)
(* whole system.                                                           *)
THEOREM ApiUsaPostgres == Spec => PgSpec
<1>1. Init => Base /\ PgInit
  BY BaseInit DEF Init
<1>2. Base /\ [Next]_vars => Base' /\ [PgNext]_pgVars
  BY BasePasso
<1>. QED BY <1>1, <1>2, PTL DEF Spec, PgSpec

-----------------------------------------------------------------------------
(* The second invariant: what was answered 200 against what the database   *)
(* holds, rows and messages in its sessions alike.  A number belongs to    *)
(* one accepted transaction, of the process, the account and the           *)
(* description its message or row names.                                   *)
Presentes == transacao \cup {cmd[k] : k \in {j \in Conexoes : EmVoo(j)}}

Mesma(t, u) ==
  /\ t.num = u.num /\ t.via = u.via /\ t.id_cliente = u.id_cliente
  /\ t.tipo = u.tipo /\ t.valor = u.valor /\ t.descricao = u.descricao

AceitasFieis ==
  \A r \in aceitas :
    /\ r.num \in 1..enviados
    /\ \A t \in Presentes :
         t.num = r.num =>
           /\ r.via = t.via
           /\ r.id_cliente = t.id_cliente
           /\ t.descricao = strzcpy(r.descricao, UTF8_TRANSACAO_DESCRICAO_LEN)

NadaSemAceite ==
  \A t \in Presentes :
    ~Aceita(t) =>
      /\ DoPedidoInterrompido(t)
      /\ \A u \in Presentes : u.via = t.via /\ ~Aceita(u) => u.num = t.num

Acordo == AceitasFieis /\ NadaSemAceite /\ LeituraPropria

(* What the database does by itself: messages leave their sessions, new    *)
(* rows come from messages, losses stay.                                   *)
LEMMA MovePg ==
  ASSUME Coerente, Numeros,
         \/ \E k \in Conexoes : Executa(k) \/ Reconecta(k)
         \/ Descarrega \/ Queda \/ UNCHANGED pgVars
  PROVE  /\ enviados' = enviados
         /\ \A j \in Conexoes : EmVoo(j)' => EmVoo(j) /\ cmd'[j] = cmd[j]
         /\ \A t \in transacao' :
              t \in transacao \/ \E j \in Conexoes : EmVoo(j) /\ t = NovaLinha(j)
         /\ perdidas \subseteq perdidas'
<1>. USE DEF EmVoo
<1>1. ASSUME NEW k \in Conexoes, NEW motivo, Falha(k, motivo)
      PROVE  /\ UNCHANGED <<enviados, transacao>>
             /\ cmd' = [cmd EXCEPT ![k] = SemComando]
             /\ perdidas \subseteq perdidas'
  BY <1>1 DEF Falha, Tabelas
<1>2. ASSUME NEW k \in Conexoes,
             \/ RecusaTexto(k) \/ RecusaBigint(k) \/ RecusaSaldo(k)
             \/ RecusaValor(k)
      PROVE  /\ UNCHANGED <<enviados, transacao>>
             /\ cmd' = [cmd EXCEPT ![k] = SemComando]
             /\ perdidas \subseteq perdidas'
  BY <1>1, <1>2 DEF RecusaTexto, RecusaBigint, RecusaSaldo, RecusaValor
<1>3. ASSUME NEW k \in Conexoes, Inicia(k) \/ Atualiza(k) \/ Reconecta(k)
      PROVE  UNCHANGED <<enviados, transacao, cmd, perdidas>>
  BY <1>3 DEF Inicia, Atualiza, Reconecta, Tabelas
<1>4. ASSUME NEW k \in Conexoes, Grava(k)
      PROVE  /\ UNCHANGED <<enviados, perdidas>>
             /\ EmVoo(k)
             /\ cmd' = [cmd EXCEPT ![k] = SemComando]
             /\ transacao' = transacao \cup {NovaLinha(k)}
  BY <1>4 DEF Grava, Coerente, SessoesCoerentes
<1>5. ASSUME Queda
      PROVE  /\ enviados' = enviados
             /\ cmd' = [k \in Conexoes |-> SemComando]
             /\ transacao' \subseteq transacao
             /\ perdidas \subseteq perdidas'
  BY <1>5 DEF Queda, Numeros, NumerosUnicos
<1>6. cmd \in [Conexoes -> Comandos \cup {SemComando}]
  BY DEF Coerente, PgTypeOK
<1>7. CASE \E k \in Conexoes : Grava(k)
  BY <1>4, <1>6, <1>7
<1>8. CASE Queda
  BY <1>5, <1>8
<1>9. CASE Descarrega \/ UNCHANGED pgVars
  BY <1>9 DEF Descarrega, pgVars
<1>10. CASE \E k \in Conexoes : Inicia(k) \/ Atualiza(k) \/ Reconecta(k)
  BY <1>3, <1>10
<1>11. CASE \E k \in Conexoes : \/ RecusaTexto(k) \/ RecusaBigint(k)
                                \/ RecusaSaldo(k) \/ RecusaValor(k)
  BY <1>2, <1>6, <1>11
<1>. QED BY <1>7, <1>8, <1>9, <1>10, <1>11 DEF Executa

LEMMA PresentesServidor ==
  ASSUME Coerente, Numeros,
         \/ \E k \in Conexoes : Executa(k) \/ Reconecta(k)
         \/ Descarrega \/ Queda \/ UNCHANGED pgVars
  PROVE  \A t \in Presentes' : \E u \in Presentes : Mesma(t, u)
<1>. SUFFICES ASSUME NEW t \in Presentes'
              PROVE  \E u \in Presentes : Mesma(t, u)
  OBVIOUS
<1>1. /\ \A j \in Conexoes : EmVoo(j)' => EmVoo(j) /\ cmd'[j] = cmd[j]
      /\ \A v \in transacao' :
           v \in transacao \/ \E j \in Conexoes : EmVoo(j) /\ v = NovaLinha(j)
  BY MovePg
<1>2. \A j \in Conexoes :
        EmVoo(j) => cmd[j] \in Presentes /\ Mesma(NovaLinha(j), cmd[j])
  BY DEF Presentes, NovaLinha, Mesma, Coerente, SessoesCoerentes
<1>3. CASE t \in transacao'
  BY <1>1, <1>2, <1>3 DEF Presentes, Mesma
<1>4. CASE \E j \in Conexoes : EmVoo(j)' /\ t = cmd'[j]
  BY <1>1, <1>2, <1>4 DEF Mesma
<1>. QED BY <1>3, <1>4 DEF Presentes

LEMMA AcordoServidor ==
  ASSUME Base, Numeros, AceitasFieis, NadaSemAceite, UNCHANGED aceitas,
         \A a \in Apis :
           pc[a] = "matado" => pc'[a] = "matado" /\ pedido'[a] = pedido[a],
         \/ \E k \in Conexoes : Executa(k) \/ Reconecta(k)
         \/ Descarrega \/ Queda \/ UNCHANGED pgVars
  PROVE  AceitasFieis' /\ NadaSemAceite'
<1>1. enviados' = enviados
  BY MovePg DEF Base
<1>2. \A t \in Presentes' : \E u \in Presentes : Mesma(t, u)
  BY PresentesServidor DEF Base
<1>3. AceitasFieis'
  BY <1>1, <1>2 DEF AceitasFieis, Mesma
<1>4. ASSUME NEW t \in Presentes', NEW u \in Presentes, Mesma(t, u),
             ~Aceita(t)'
      PROVE  ~Aceita(u) /\ (DoPedidoInterrompido(u) => DoPedidoInterrompido(t)')
  <2>1. ~Aceita(u)
    BY <1>4 DEF Aceita, Mesma
  <2>2. u.via \in Apis
    BY <1>4 DEF Presentes, Base, Coerente, PgTypeOK, SessoesCoerentes, Linhas, Apis
  <2>. QED BY <1>4, <2>1, <2>2 DEF DoPedidoInterrompido, Mesma
<1>5. NadaSemAceite'
  <2>. SUFFICES ASSUME NEW t \in Presentes', ~Aceita(t)'
                PROVE  /\ DoPedidoInterrompido(t)'
                       /\ \A v \in Presentes' :
                            v.via = t.via /\ ~Aceita(v)' => v.num = t.num
    BY DEF NadaSemAceite
  <2>1. PICK u \in Presentes : Mesma(t, u)
    BY <1>2
  <2>2. ~Aceita(u) /\ DoPedidoInterrompido(t)'
    BY <1>4, <2>1 DEF NadaSemAceite
  <2>3. ASSUME NEW v \in Presentes', v.via = t.via, ~Aceita(v)'
        PROVE  v.num = t.num
    <3>1. PICK w \in Presentes : Mesma(v, w)
      BY <1>2
    <3>2. ~Aceita(w)
      BY <1>4, <2>3, <3>1
    <3>. QED BY <2>1, <2>2, <2>3, <3>1, <3>2 DEF NadaSemAceite, Mesma
  <2>. QED BY <2>2, <2>3
<1>. QED BY <1>3, <1>5

(* A message is sent: by a handler that answers 200, or by one that is     *)
(* killed before it can.                                                   *)
LEMMA PresentesEnvio ==
  ASSUME Base, Numeros, NEW a \in Apis, db_execute_async_true(a, Comando(a))
  PROVE  /\ enviados \in Nat /\ enviados' = enviados + 1
         /\ Presentes' \subseteq Presentes \cup {Comando(a)}
         /\ \A t \in Presentes : t.num \in 1..enviados
<1>1. Comando(a).num = enviados + 1
  BY DEF Comando
<1>2. /\ enviados \in Nat /\ enviados' = enviados + 1
      /\ transacao' = transacao
      /\ \A k \in Conexoes :
           EmVoo(k)' => \/ EmVoo(k) /\ cmd'[k] = cmd[k]
                        \/ k = a /\ cmd'[k] = Comando(a)
  BY <1>1 DEF db_execute_async_true, Recebe, Descarta, Tabelas, EmVoo,
              Base, Coerente, PgTypeOK
<1>3. \A t \in Presentes : t.num \in 1..enviados
  BY DEF Presentes, Numeros, NumerosEnviados
<1>4. Presentes' \subseteq Presentes \cup {Comando(a)}
  BY <1>2 DEF Presentes
<1>. QED BY <1>2, <1>3, <1>4

LEMMA AcordoSaveAsync ==
  ASSUME Base, Numeros, AceitasFieis, NadaSemAceite,
         NEW a \in Apis, SaveAsync(a)
  PROVE  AceitasFieis' /\ NadaSemAceite'
<1>. DEFINE r == [num |-> enviados + 1, via |-> a, id_cliente |-> pedido[a].id,
                  descricao |-> pedido[a].descricao,
                  saldo |-> ToInt32(update_saldo_cliente(lido[a].saldo, pedido[a])),
                  visto |-> lido[a].visto]
<1>. DEFINE m == Comando(a)
<1>1. aceitas' = aceitas \cup {r}
  BY DEF SaveAsync
<1>2. /\ r.num = m.num /\ r.via = m.via /\ r.id_cliente = m.id_cliente
      /\ m.descricao = strzcpy(r.descricao, UTF8_TRANSACAO_DESCRICAO_LEN)
      /\ m.num = enviados + 1
  BY DEF Comando
<1>. HIDE DEF r, m
<1>3. /\ enviados \in Nat /\ enviados' = enviados + 1
      /\ Presentes' \subseteq Presentes \cup {m}
      /\ \A t \in Presentes : t.num \in 1..enviados
  BY PresentesEnvio DEF SaveAsync, m
<1>4. AceitasFieis'
  <2>. SUFFICES ASSUME NEW s \in aceitas'
                PROVE  /\ s.num \in 1..enviados'
                       /\ \A t \in Presentes' :
                            t.num = s.num =>
                              /\ s.via = t.via
                              /\ s.id_cliente = t.id_cliente
                              /\ t.descricao =
                                   strzcpy(s.descricao, UTF8_TRANSACAO_DESCRICAO_LEN)
    BY DEF AceitasFieis
  <2>1. CASE s \in aceitas
    BY <1>2, <1>3, <2>1 DEF AceitasFieis
  <2>2. CASE s = r
    BY <1>2, <1>3, <2>2
  <2>. QED BY <1>1, <2>1, <2>2
<1>5. \A t \in Presentes' : ~Aceita(t)' => t \in Presentes /\ ~Aceita(t)
  BY <1>1, <1>2, <1>3 DEF Aceita
<1>6. \A t \in Presentes : DoPedidoInterrompido(t) => DoPedidoInterrompido(t)'
  <2>1. pc[a] = "decide" /\ \A b : b # a => pc'[b] = pc[b] /\ pedido'[b] = pedido[b]
    BY DEF SaveAsync, Responde, Base, TipoApi, TypeOK
  <2>. QED BY <2>1 DEF DoPedidoInterrompido
<1>7. NadaSemAceite'
  BY <1>5, <1>6 DEF NadaSemAceite
<1>. QED BY <1>4, <1>7

LEMMA AcordoEnviaEMorre ==
  ASSUME Base, Numeros, AceitasFieis, NadaSemAceite,
         NEW a \in Apis, EnviaEMorre(a)
  PROVE  AceitasFieis' /\ NadaSemAceite'
<1>0. PICK m : m = Comando(a)
  OBVIOUS
<1>1. /\ m.num = enviados + 1 /\ m.via = a
      /\ m.id_cliente = pedido[a].id
      /\ m.tipo = pedido[a].tipo /\ m.valor = pedido[a].valor
  BY <1>0 DEF Comando
<1>2. /\ enviados \in Nat /\ enviados' = enviados + 1
      /\ Presentes' \subseteq Presentes \cup {m}
      /\ \A t \in Presentes : t.num \in 1..enviados
  BY <1>0, PresentesEnvio DEF EnviaEMorre
<1>3. /\ pc[a] = "decide" /\ pc'[a] = "matado"
      /\ \A b \in Apis : b # a => pc'[b] = pc[b]
      /\ UNCHANGED <<pedido, aceitas>>
      /\ pedido[a] # SemPedido
  BY SentinelasAssumption
  DEF EnviaEMorre, Matado, Base, TipoApi, TypeOK, PedidosValidados
<1>4. AceitasFieis'
  BY <1>1, <1>2, <1>3 DEF AceitasFieis
<1>5. \A t : Aceita(t)' <=> Aceita(t)
  BY <1>3 DEF Aceita
<1>6. DoPedidoInterrompido(m)'
  BY <1>1, <1>3 DEF DoPedidoInterrompido
<1>7. \A t \in Presentes :
        DoPedidoInterrompido(t) => t.via # a /\ DoPedidoInterrompido(t)'
  <2>1. \A t \in Presentes : t.via \in Apis
    BY DEF Presentes, Base, Coerente, PgTypeOK, SessoesCoerentes, Linhas, Apis
  <2>. QED BY <1>3, <2>1 DEF DoPedidoInterrompido
<1>8. NadaSemAceite'
  BY <1>1, <1>2, <1>5, <1>6, <1>7 DEF NadaSemAceite
<1>. QED BY <1>4, <1>8

(* Steps that start no new reading: what a process holds of the table, and *)
(* what it has accepted, stay as they were.                                *)
Lendo(a) == pc[a] \in {"decide", "find_last_10"}

LEMMA LeituraQuadro ==
  ASSUME LeituraPropria, perdidas \subseteq perdidas',
         \A a \in Apis :
           Lendo(a)' =>
             /\ Lendo(a)
             /\ pedido'[a] = pedido[a]
             /\ lido'[a] = lido[a]
             /\ \A r \in aceitas' : r.via = a => r \in aceitas
  PROVE  LeituraPropria'
<1>1. \A n : Perdida(n) => Perdida(n)'
  BY DEF Perdida
<1>. QED BY <1>1 DEF LeituraPropria, Lendo

(* The reading itself: the session is idle, so what the process accepted   *)
(* before is in the table or lost.                                         *)
LEMMA LeituraFindOne ==
  ASSUME Base, Numeros, AceitasFieis, LeituraPropria,
         NEW a \in Apis, FindOne(a)
  PROVE  LeituraPropria'
<1>. USE DEF Base
<1>1. /\ UNCHANGED <<pgVars, aceitas>>
      /\ estado[a] = "ociosa" /\ a \in Conexoes
  BY DEF FindOne, db_query_ok, dbVars, Apis
<1>2. CASE pedido[a].id \in Clientes
  <2>. DEFINE p == pedido[a]
  <2>. DEFINE visto == {t.num : t \in DoCliente(transacao, p.id)}
  <2>1. /\ lido'[a].visto = visto
        /\ pedido' = pedido
        /\ \A b \in Apis : b # a => pc'[b] = pc[b] /\ lido'[b] = lido[b]
    BY <1>2 DEF FindOne, TipoApi, TypeOK
  <2>2. ASSUME NEW r \in aceitas, r.via = a, r.id_cliente = p.id
        PROVE  r.num \in visto \/ Perdida(r.num)
    <3>1. r.num \in 1..enviados
      BY DEF AceitasFieis
    <3>2. ~NaSessao(r.num)
      BY <1>1, <2>2 DEF NaSessao, AceitasFieis, Presentes, Coerente, SessoesCoerentes
    <3>3. Gravada(r.num) => r.num \in visto
      BY <2>2 DEF Gravada, AceitasFieis, Presentes, DoCliente
    <3>. QED BY <3>1, <3>2, <3>3 DEF Numeros, Conservacao
  <2>. HIDE DEF visto
  <2>3. \A n : Perdida(n)' <=> Perdida(n)
    BY <1>1 DEF Perdida, pgVars
  <2>. QED BY <1>1, <2>1, <2>2, <2>3 DEF LeituraPropria
<1>3. CASE Responde(a, pedido[a], 404, 0)
  <2>1. \A b \in Apis : Lendo(b)' => b # a
    BY <1>3 DEF Responde, Lendo, TipoApi, TypeOK
  <2>2. \A b \in Apis : b # a => /\ pc'[b] = pc[b]
                                /\ pedido'[b] = pedido[b]
                                /\ lido'[b] = lido[b]
    BY <1>3 DEF Responde, TipoApi, TypeOK
  <2>. QED BY <1>1, <2>1, <2>2, LeituraQuadro DEF Lendo, pgVars
<1>. QED BY <1>2, <1>3 DEF FindOne

(* A process that answers, dies or begins is not reading any more.         *)
LEMMA LeituraSai ==
  ASSUME Base, LeituraPropria, perdidas \subseteq perdidas', NEW a \in Apis,
         \A r \in aceitas' : r \in aceitas \/ r.via = a,
         \E p \in Pedidos : \/ \E status, s : Responde(a, p, status, s)
                           \/ Morre(a, p)
                           \/ EntraFindOne(a, p)
  PROVE  LeituraPropria'
<1>1. /\ \A b \in Apis : Lendo(b)' => b # a
      /\ \A b \in Apis : b # a => /\ pc'[b] = pc[b]
                                 /\ pedido'[b] = pedido[b]
                                 /\ lido'[b] = lido[b]
  BY DEF Responde, Morre, EntraFindOne, Lendo, Base, TipoApi, TypeOK
<1>. QED BY <1>1, LeituraQuadro DEF Lendo

(* A process that has stopped stays as it was.                             *)
LEMMA ParadoFica ==
  ASSUME Base, [Next]_vars
  PROVE  \A a \in Apis :
           pc[a] \in Parados => pc'[a] = pc[a] /\ pedido'[a] = pedido[a]
<1>0. pc \in [Apis -> Pcs] /\ pedido \in [Apis -> Pedidos \cup {SemPedido}]
  BY DEF Base, TipoApi, TypeOK
<1>1. ASSUME NEW b \in Apis, pc[b] \notin Parados,
             \/ \E p, status, x : Responde(b, p, status, x)
             \/ \E p : Morre(b, p) \/ EntraFindOne(b, p)
      PROVE  \A a \in Apis :
               pc[a] \in Parados => pc'[a] = pc[a] /\ pedido'[a] = pedido[a]
  BY <1>0, <1>1 DEF Responde, Morre, EntraFindOne
<1>2. ASSUME NEW b \in Apis, NEW p \in Pedidos,
             SaveTransacao(b, p) \/ FindById(b, p)
      PROVE  \A a \in Apis :
               pc[a] \in Parados => pc'[a] = pc[a] /\ pedido'[a] = pedido[a]
  <2>1. pc[b] \notin Parados
    BY <1>2 DEF SaveTransacao, FindById, RecebePedido, Parados
  <2>2. \/ \E status, x : Responde(b, p, status, x)
        \/ Morre(b, p) \/ EntraFindOne(b, p)
    BY <1>2 DEF SaveTransacao, FindById
  <2>. QED BY <1>1, <2>1, <2>2
<1>3. ASSUME NEW b \in Apis,
             \/ FindOneNull(b) \/ LimiteExcedido(b) \/ SaveAsyncFalse(b)
             \/ FindLast10(b) \/ FindLast10Null(b) \/ SaveAsync(b)
      PROVE  \A a \in Apis :
               pc[a] \in Parados => pc'[a] = pc[a] /\ pedido'[a] = pedido[a]
  <2>1. pc[b] \notin Parados
    BY <1>3
    DEF FindOneNull, LimiteExcedido, SaveAsyncFalse, FindLast10, FindLast10Null,
        RespondeExtrato, SaveAsync, Parados
  <2>2. \/ Morre(b, pedido[b])
        \/ \E status, x : Responde(b, pedido[b], status, x)
    BY <1>3
    DEF FindOneNull, LimiteExcedido, SaveAsyncFalse, FindLast10, FindLast10Null,
        RespondeExtrato, SaveAsync
  <2>. QED BY <1>1, <2>1, <2>2
<1>4. ASSUME NEW b \in Apis, FindOne(b)
      PROVE  \A a \in Apis :
               pc[a] \in Parados => pc'[a] = pc[a] /\ pedido'[a] = pedido[a]
  <2>1. CASE Responde(b, pedido[b], 404, 0)
    BY <1>1, <1>4, <2>1 DEF FindOne, Parados
  <2>2. CASE /\ UNCHANGED pedido
             /\ pc' = [pc EXCEPT ![b] = IF pedido[b].op = "extrato"
                                        THEN "find_last_10" ELSE "decide"]
    BY <1>0, <1>4, <2>2 DEF FindOne, Parados
  <2>. QED BY <1>4, <2>1, <2>2 DEF FindOne
<1>5. ASSUME NEW b \in Apis, Conecta(b) \/ RedefineConexao(b) \/ Sinal(b)
      PROVE  \A a \in Apis :
               pc[a] \in Parados => pc'[a] = pc[a] /\ pedido'[a] = pedido[a]
  BY <1>0, <1>5
  DEF Conecta, RedefineConexao, apiVars, Sinal, Mata, EnviaEMorre, Desliga,
      Matado, Parados
<1>6. CASE \/ \E a \in Apis : Servidor(a)
           \/ Ambiente \/ Fim \/ UNCHANGED vars
  BY <1>6 DEF Servidor, Ambiente, Fim, vars, apiVars
<1>. QED
  BY <1>2, <1>3, <1>4, <1>5, <1>6 DEF Next, Chega, Atende

LEMMA AcordoPasso ==
  ASSUME Base, Numeros, Acordo, [Next]_vars
  PROVE  Acordo'
<1>. USE DEF Acordo
<1>0. \A a \in Apis :
        pc[a] = "matado" => pc'[a] = "matado" /\ pedido'[a] = pedido[a]
  BY ParadoFica DEF Parados
<1>1. ASSUME NEW a \in Apis, NEW p \in Pedidos,
             SaveTransacao(a, p) \/ FindById(a, p)
      PROVE  Acordo'
  <2>1. UNCHANGED <<pgVars, aceitas>>
    BY <1>1 DEF SaveTransacao, FindById, RecebePedido, dbVars
  <2>2. AceitasFieis' /\ NadaSemAceite'
    BY <1>0, <2>1, AcordoServidor
  <2>3. LeituraPropria'
    BY <1>1, <2>1, LeituraSai DEF SaveTransacao, FindById, pgVars
  <2>. QED BY <2>2, <2>3
<1>2. ASSUME NEW a \in Apis, Conecta(a) \/ RedefineConexao(a)
      PROVE  Acordo'
  <2>1. Reconecta(a) /\ UNCHANGED <<aceitas, pedido, lido>>
    BY <1>2 DEF Conecta, db_connect, RedefineConexao, db_get_connection_reset,
                apiVars
  <2>2. AceitasFieis' /\ NadaSemAceite'
    BY <1>0, <2>1, AcordoServidor DEF Apis
  <2>3. \A b \in Apis : Lendo(b)' => Lendo(b)
    BY <1>2 DEF Conecta, RedefineConexao, apiVars, Lendo, Base, TipoApi, TypeOK
  <2>4. LeituraPropria'
    BY <2>1, <2>3, LeituraQuadro DEF Reconecta
  <2>. QED BY <2>2, <2>4
<1>3. ASSUME NEW a \in Apis, FindOne(a)
      PROVE  Acordo'
  <2>1. UNCHANGED <<pgVars, aceitas>>
    BY <1>3 DEF FindOne, db_query_ok, dbVars
  <2>. QED BY <1>0, <1>3, <2>1, AcordoServidor, LeituraFindOne
<1>4. ASSUME NEW a \in Apis,
             \/ FindOneNull(a) \/ LimiteExcedido(a) \/ SaveAsyncFalse(a)
             \/ FindLast10(a) \/ FindLast10Null(a)
      PROVE  Acordo'
  <2>1. UNCHANGED <<pgVars, aceitas>>
    BY <1>4
    DEF FindOneNull, LimiteExcedido, SaveAsyncFalse, FindLast10, FindLast10Null,
        RespondeExtrato, db_query_ok, db_query_null, db_execute_async_false, dbVars
  <2>2. pedido[a] \in Pedidos
    BY <1>4
    DEF FindOneNull, LimiteExcedido, SaveAsyncFalse, FindLast10, FindLast10Null,
        RespondeExtrato, Base, TipoApi, PedidosValidados
  <2>3. \/ Morre(a, pedido[a])
        \/ \E status, s : Responde(a, pedido[a], status, s)
    BY <1>4
    DEF FindOneNull, LimiteExcedido, SaveAsyncFalse, FindLast10, FindLast10Null,
        RespondeExtrato
  <2>4. LeituraPropria'
    BY <2>1, <2>2, <2>3, LeituraSai DEF pgVars
  <2>. QED BY <1>0, <2>1, <2>4, AcordoServidor
<1>5. ASSUME NEW a \in Apis, SaveAsync(a)
      PROVE  Acordo'
  <2>1. perdidas \subseteq perdidas'
    BY <1>5 DEF SaveAsync, db_execute_async_true, Recebe, Descarta
  <2>2. pedido[a] \in Pedidos
    BY <1>5 DEF SaveAsync, Base, TipoApi, PedidosValidados
  <2>3. \E status, s : Responde(a, pedido[a], status, s)
    BY <1>5 DEF SaveAsync
  <2>4. \A r \in aceitas' : r \in aceitas \/ r.via = a
    BY <1>5 DEF SaveAsync
  <2>5. LeituraPropria'
    BY <2>1, <2>2, <2>3, <2>4, LeituraSai
  <2>. QED BY <1>5, <2>5, AcordoSaveAsync
<1>6. CASE \/ \E a \in Apis : Servidor(a)
           \/ Ambiente \/ Fim \/ UNCHANGED vars
  <2>1. /\ UNCHANGED <<pc, pedido, lido, aceitas>>
        /\ \/ \E k \in Conexoes : Executa(k)
           \/ Descarrega \/ Queda \/ UNCHANGED pgVars
    BY <1>6 DEF Servidor, Ambiente, Fim, vars, dbVars, apiVars, Apis
  <2>2. perdidas \subseteq perdidas'
    BY <2>1, MovePg DEF Base
  <2>3. LeituraPropria'
    BY <2>1, <2>2, LeituraQuadro DEF Lendo
  <2>. QED BY <1>0, <2>1, <2>3, AcordoServidor
<1>7. ASSUME NEW a \in Apis, Mata(a) \/ Desliga(a)
      PROVE  Acordo'
  <2>1. /\ UNCHANGED <<pgVars, pedido, lido, aceitas>>
        /\ \A b \in Apis : Lendo(b)' => Lendo(b)
    BY <1>7 DEF Mata, Desliga, Matado, db_close_pool, dbVars, Lendo, Base,
                TipoApi, TypeOK
  <2>2. LeituraPropria'
    BY <2>1, LeituraQuadro DEF pgVars
  <2>. QED BY <1>0, <2>1, <2>2, AcordoServidor
<1>8. ASSUME NEW a \in Apis, EnviaEMorre(a)
      PROVE  Acordo'
  <2>1. /\ UNCHANGED <<pedido, lido, aceitas>>
        /\ perdidas \subseteq perdidas'
        /\ \A b \in Apis : Lendo(b)' => Lendo(b)
    BY <1>8 DEF EnviaEMorre, Matado, db_execute_async_true, Recebe, Descarta,
                Lendo, Base, TipoApi, TypeOK
  <2>2. LeituraPropria'
    BY <2>1, LeituraQuadro
  <2>. QED BY <1>8, <2>2, AcordoEnviaEMorre
<1>. QED
  BY <1>1, <1>2, <1>3, <1>4, <1>5, <1>6, <1>7, <1>8
  DEF Next, Chega, Atende, Sinal

LEMMA ApiAcordo == Spec => [](Base /\ Numeros /\ Acordo)
<1>1. Init => Base /\ Numeros /\ Acordo
  <2>1. Init => Base /\ Numeros
    BY BaseInit, NumerosInit DEF Init
  <2>2. Init => Acordo
    BY DEF Init, PgInit, Acordo, AceitasFieis, NadaSemAceite, Presentes,
           LeituraPropria, EmVoo
  <2>. QED BY <2>1, <2>2
<1>2. Base /\ Numeros /\ Acordo /\ [Next]_vars => (Base /\ Numeros /\ Acordo)'
  BY BasePasso, NumerosPasso, AcordoPasso DEF Base
<1>. QED BY <1>1, <1>2, PTL DEF Spec

(* A process reads its own writes: PQexec waits for the message before, so *)
(* the balance a handler tests the limit with contains every transaction   *)
(* its process accepted on that account, except those that are lost.       *)
THEOREM ApiLeituraPropria == Spec => []LeituraPropria
<1>1. Acordo => LeituraPropria
  BY DEF Acordo
<1>. QED BY <1>1, ApiAcordo, PTL

(* Only what was answered 200 enters the table, and the one message of a   *)
(* process that was killed before it could answer.                         *)
THEOREM ApiSoAceitasGravadas == Spec => []SoAceitasGravadas
<1>1. Acordo => SoAceitasGravadas
  BY DEF Acordo, NadaSemAceite, SoAceitasGravadas, Presentes
<1>. QED BY <1>1, ApiAcordo, PTL

-----------------------------------------------------------------------------
(* The third invariant: as long as the server has not crashed, a connected *)
(* process has a live session and knows it.                                *)
SessaoViva ==
  quedas = 0 =>
    \A a \in Apis :
      pc[a] \notin {"conectando", "matado", "encerrado"} =>
        estado[a] # "fechada" /\ pool[a] = "OK"

Vida == MorteExplicada /\ SessaoViva

LEMMA VidaPasso ==
  ASSUME Base, Vida, [Next]_vars
  PROVE  Vida'
<1>. USE DEF Vida
<1>0. /\ pc \in [Apis -> Pcs]
      /\ pedido \in [Apis -> Pedidos \cup {SemPedido}]
      /\ pool \in [Conexoes -> {"OK", "BAD"}]
      /\ estado \in [Conexoes -> Estados]
      /\ quedas \in Nat
      /\ Apis = Conexoes
  BY DEF Base, TipoApi, TypeOK, PgTypeOK, PoolTypeOK, Apis
<1>1. ASSUME NEW a \in Apis, NEW p \in Pedidos, SaveTransacao(a, p)
      PROVE  Vida'
  <2>1. UNCHANGED <<quedas, estado, pool>> /\ pc[a] = "poll"
    BY <1>1 DEF SaveTransacao, RecebePedido, dbVars, pgVars
  <2>2. CASE TipoNulo(p) /\ Morre(a, p)
    BY <1>0, <1>1, <2>1, <2>2
    DEF SaveTransacao, Morre, TipoNulo, MorteExplicada, SessaoViva
  <2>3. CASE EntraFindOne(a, p) \/ Responde(a, p, 422, 0)
    BY <1>0, <2>1, <2>3 DEF EntraFindOne, Responde, MorteExplicada, SessaoViva
  <2>. QED BY <1>1, <2>2, <2>3 DEF SaveTransacao
<1>2. ASSUME NEW a \in Apis, NEW p \in Pedidos, FindById(a, p)
      PROVE  Vida'
  <2>1. UNCHANGED <<quedas, estado, pool>> /\ pc[a] = "poll"
    BY <1>2 DEF FindById, RecebePedido, dbVars, pgVars
  <2>2. EntraFindOne(a, p) \/ Responde(a, p, 400, 0)
    BY <1>2 DEF FindById
  <2>. QED
    BY <1>0, <2>1, <2>2 DEF EntraFindOne, Responde, MorteExplicada, SessaoViva
<1>3. ASSUME NEW a \in Apis, Conecta(a)
      PROVE  Vida'
  <2>1. /\ estado' = [estado EXCEPT ![a] = "ociosa"]
        /\ pool' = [pool EXCEPT ![a] = "OK"]
        /\ pc' = [pc EXCEPT ![a] = "poll"]
        /\ UNCHANGED <<quedas, pedido>>
    BY <1>3 DEF Conecta, db_connect, Reconecta
  <2>. QED BY <1>0, <2>1 DEF MorteExplicada, SessaoViva
<1>4. ASSUME NEW a \in Apis, RedefineConexao(a)
      PROVE  Vida'
  <2>1. /\ estado' = [estado EXCEPT ![a] = "ociosa"]
        /\ pool' = [pool EXCEPT ![a] = "OK"]
        /\ UNCHANGED <<pc, quedas, pedido>>
    BY <1>4 DEF RedefineConexao, db_get_connection_reset, Reconecta, apiVars
  <2>. QED BY <1>0, <2>1 DEF MorteExplicada, SessaoViva
<1>5. ASSUME NEW a \in Apis,
             FindOneNull(a) \/ SaveAsyncFalse(a) \/ FindLast10Null(a)
      PROVE  Vida'
  <2>1. /\ pc[a] \in {"find_one", "decide", "find_last_10"}
        /\ pool[a] = "BAD" \/ estado[a] = "fechada"
        /\ quedas' = quedas
    BY <1>5
    DEF FindOneNull, SaveAsyncFalse, FindLast10Null, RespondeExtrato,
        db_query_null, db_execute_async_false, pgVars
  <2>2. quedas > 0
    BY <1>0, <2>1 DEF SessaoViva
  <2>. QED BY <1>0, <2>1, <2>2 DEF MorteExplicada, SessaoViva
<1>6. ASSUME NEW a \in Apis,
             \/ FindOne(a) \/ LimiteExcedido(a) \/ FindLast10(a)
      PROVE  Vida'
  <2>1. /\ UNCHANGED <<quedas, estado, pool>>
        /\ pc[a] \in {"find_one", "decide", "find_last_10"}
    BY <1>6
    DEF FindOne, LimiteExcedido, FindLast10, RespondeExtrato, db_query_ok,
        dbVars, pgVars
  <2>2. /\ \A b \in Apis : b # a => pc'[b] = pc[b] /\ pedido'[b] = pedido[b]
        /\ pc'[a] \notin {"morto", "conectando"}
    BY <1>0, <1>6
    DEF FindOne, LimiteExcedido, FindLast10, RespondeExtrato, Responde
  <2>. QED BY <2>1, <2>2 DEF MorteExplicada, SessaoViva
<1>7. ASSUME NEW a \in Apis, SaveAsync(a)
      PROVE  Vida'
  <2>1. /\ UNCHANGED <<quedas, pool>> /\ pc[a] = "decide"
        /\ estado' = [estado EXCEPT ![a] = "recebida"] \/ estado' = estado
        /\ Responde(a, pedido[a], 200,
                    ToInt32(update_saldo_cliente(lido[a].saldo, pedido[a])))
    BY <1>7 DEF SaveAsync, db_execute_async_true, Recebe, Descarta
  <2>2. /\ \A b \in Apis : b # a => pc'[b] = pc[b] /\ pedido'[b] = pedido[b]
        /\ pc'[a] = "poll"
    BY <1>0, <2>1 DEF Responde
  <2>. QED BY <1>0, <2>1, <2>2 DEF MorteExplicada, SessaoViva
<1>8. ASSUME NEW k \in Apis, Servidor(k)
      PROVE  Vida'
  <2>1. UNCHANGED <<pc, pedido, pool, quedas>>
    BY <1>8
    DEF Servidor, apiVars, Executa, RecusaTexto, RecusaBigint, RecusaSaldo,
        RecusaValor, Falha, Inicia, Atualiza, Grava
  <2>2. \A j \in Conexoes : estado[j] # "fechada" => estado'[j] # "fechada"
    BY <1>0, <1>8
    DEF Servidor, Executa, RecusaTexto, RecusaBigint, RecusaSaldo,
        RecusaValor, Falha, Inicia, Atualiza, Grava
  <2>. QED BY <1>0, <2>1, <2>2 DEF MorteExplicada, SessaoViva
<1>9. CASE Ambiente
  <2>1. CASE Descarrega /\ UNCHANGED <<pool, apiVars>>
    BY <2>1 DEF Descarrega, apiVars, MorteExplicada, SessaoViva
  <2>2. CASE Queda /\ UNCHANGED <<pool, apiVars>>
    BY <1>0, <2>2 DEF Queda, apiVars, MorteExplicada, SessaoViva
  <2>. QED BY <1>9, <2>1, <2>2 DEF Ambiente
<1>10. CASE Fim \/ UNCHANGED vars
  BY <1>10 DEF Fim, vars, dbVars, pgVars, apiVars, MorteExplicada, SessaoViva
<1>11. ASSUME NEW a \in Apis, Sinal(a)
       PROVE  Vida'
  <2>1. /\ pc' = [pc EXCEPT ![a] = "matado"] \/ pc' = [pc EXCEPT ![a] = "encerrado"]
        /\ UNCHANGED <<quedas, pedido>>
        /\ \A b \in Apis : b # a => estado'[b] = estado[b] /\ pool'[b] = pool[b]
    BY <1>0, <1>11
    DEF Sinal, Mata, EnviaEMorre, Desliga, Matado, db_execute_async_true, Recebe,
        Descarta, db_close_pool, dbVars, pgVars
  <2>. QED BY <1>0, <2>1 DEF MorteExplicada, SessaoViva
<1>. QED
  BY <1>1, <1>2, <1>3, <1>4, <1>5, <1>6, <1>7, <1>8, <1>9, <1>10, <1>11
  DEF Next, Chega, Atende

(* A process dies only of a transaction without a tipo, or after the       *)
(* database server crashed: no order of requests, commits and lock waits   *)
(* makes a query fail.                                                     *)
THEOREM ApiMorteExplicada == Spec => []MorteExplicada
<1>1. Init => Base /\ Vida
  <2>1. Init => Base
    BY BaseInit
  <2>2. Init => Vida
    BY DEF Init, Vida, MorteExplicada, SessaoViva
  <2>. QED BY <2>1, <2>2
<1>2. Base /\ Vida /\ [Next]_vars => (Base /\ Vida)'
  BY BasePasso, VidaPasso
<1>3. Vida => MorteExplicada
  BY DEF Vida
<1>. QED BY <1>1, <1>2, <1>3, PTL DEF Spec
==============================================================================
