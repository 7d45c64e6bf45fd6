-------------------------- MODULE ClienteController --------------------------
(***************************************************************************)
(* The API processes (services api01 and api02 of docker-compose.yaml) and *)
(* the database they share.  Each process runs one thread: it takes a      *)
(* request from its socket loop, runs the handler of                       *)
(* src/src/controller/cliente_controller.c to its end, and only then takes *)
(* the next.  A handler is cut where it meets the database:                *)
(*                                                                         *)
(*   poll --> find_one --> decide        (POST /clientes/<id>/transacoes)  *)
(*                    \--> find_last_10  (GET  /clientes/<id>/extrato)     *)
(*                                                                         *)
(* and every step ends at the next call of db_connection.c.  Between two   *)
(* steps of one process the other processes, the server's sessions and a   *)
(* crash of the server may do anything, and a signal may end the process   *)
(* (docker-compose.yaml gives it 6 MB of memory and no restart policy).    *)
(*                                                                         *)
(* aceitas, extrato and the field visto of lido are history variables.     *)
(***************************************************************************)
EXTENDS DbConnection

CONSTANTS
  Pedidos,        \* the requests clients may make
  IdInvalido,     \* an id that is empty, too long or not all digits
  IdDesconhecido, \* a well-formed id that is not in table cliente
  NaoInteiro,     \* a JSON valor that is not an integer
  SemTexto,       \* a JSON descricao that is not a string
  SemPedido,      \* what an idle process is answering
  SemResposta,    \* the last answer of a process that has given none
  Int32Max,       \* the largest value of a C int (2^31 - 1)
  Sinais,         \* which signals may reach a process: "kill" (SIGKILL or
                  \* SIGPIPE, nobody handles them), "term" (handle_signal)
  MaxPedidos      \* bound: requests taken in a behaviour

Apis == Conexoes

ASSUME PedidosAssumption ==
  Pedidos \subseteq
    [op : {"transacao", "extrato"},
     id : Clientes \cup {IdInvalido, IdDesconhecido},
     tipo : Tipos \cup {"outro", "ausente"},
     valor : Valores \cup {0, NaoInteiro},
     descricao : Textos \cup {SemTexto}]
ASSUME IdsAssumption == /\ IdInvalido \notin Clientes
                        /\ IdDesconhecido \notin Clientes
                        /\ IdInvalido # IdDesconhecido
ASSUME SentinelasAssumption == /\ NaoInteiro \notin Int
                               /\ SemTexto \notin Textos
                               /\ SemPedido \notin Pedidos
                               /\ SemResposta \notin
                                    [pedido : Pedidos, saldo : Int,
                                     status : {200, 400, 404, 422}]
ASSUME LimitesAssumption == /\ Int32Max \in Nat
                            /\ Valores \subseteq 0..MaxInt8
                            /\ Sinais \subseteq {"kill", "term"}
                            /\ MaxPedidos \in Nat
                            /\ MaxPedidos <= MaxEnvios

VARIABLES
  pc,          \* [Apis -> where the process is]
  pedido,      \* [Apis -> the request being answered]
  lido,        \* [Apis -> the Cliente read from the database]
  recebidos,   \* requests taken so far
  resposta,    \* [Apis -> the last answer]
  aceitas,     \* history: the transactions answered with 200
  extrato      \* [Apis -> the last extrato answered]

apiVars == <<pc, pedido, lido, recebidos, resposta, aceitas, extrato>>
vars == <<dbVars, apiVars>>

(* The ways a process stops: a NULL it dereferences, a signal that kills    *)
(* it, the end of main.                                                    *)
Parados == {"morto", "matado", "encerrado"}
Pcs == {"conectando", "poll", "find_one", "decide", "find_last_10"}
         \cup Parados

NadaLido == [saldo |-> 0, visto |-> {}]
SemExtrato == [id |-> SemPedido, total |-> 0, visto |-> {}, lista |-> {}]

Respostas ==
  [pedido : Pedidos, status : {200, 400, 404, 422}, saldo : Int]
Aceitas ==
  [num : Nat, via : Apis, id_cliente : Clientes, descricao : Textos,
   saldo : Int, visto : SUBSET Nat]
Extratos ==
  [id : Clientes, total : Int, visto : SUBSET Nat, lista : SUBSET Linhas]

TypeOK ==
  /\ PgTypeOK
  /\ PoolTypeOK
  /\ pc \in [Apis -> Pcs]
  /\ pedido \in [Apis -> Pedidos \cup {SemPedido}]
  /\ lido \in [Apis -> [saldo : Int, visto : SUBSET Nat]]
  /\ recebidos \in Nat
  /\ resposta \in [Apis -> Respostas \cup {SemResposta}]
  /\ aceitas \subseteq Aceitas
  /\ extrato \in [Apis -> Extratos \cup {SemExtrato}]

Init ==
  /\ PgInit
  /\ PoolInit
  /\ pc = [a \in Apis |-> "conectando"]
  /\ pedido = [a \in Apis |-> SemPedido]
  /\ lido = [a \in Apis |-> NadaLido]
  /\ recebidos = 0
  /\ resposta = [a \in Apis |-> SemResposta]
  /\ aceitas = {}
  /\ extrato = [a \in Apis |-> SemExtrato]

-----------------------------------------------------------------------------
(* Validation.                                                             *)
is_id_cliente_valido(p) == p.id # IdInvalido
is_descricao_transacao_valida(p) ==
  /\ p.descricao # SemTexto
  /\ string_util_utf8_strlen(p.descricao) \in 1..TRANSACAO_DESCRICAO_LEN
is_tipo_transacao_valido(p) == p.tipo \in Tipos
is_valor_transacao_valido(p) == p.valor # NaoInteiro /\ p.valor > 0

(* The two's complement number of the low bits of x that has largest value *)
(* max.  An int64_t sum that overflows wraps (the code is compiled to a    *)
(* plain add or sub); json_pack "i" keeps the low 32 bits of an int64_t.   *)
Trunca(x, max) == ((x + max + 1) % (2 * (max + 1))) - (max + 1)
ToInt64(x) == Trunca(x, MaxInt8)
ToInt32(x) == Trunca(x, Int32Max)

MutLimiteSemValor(saldo_lido, p) ==
  /\ p.tipo = "d"
  /\ saldo_lido < -Limite[p.id]
is_limite_excedido(saldo_lido, p) ==
  /\ p.tipo = "d"
  /\ ToInt64(saldo_lido - p.valor) < -Limite[p.id]

MutSaldoSemEfeito(saldo_lido, p) == saldo_lido
update_saldo_cliente(saldo_lido, p) ==
  ToInt64(IF p.tipo = "c" THEN saldo_lido + p.valor ELSE saldo_lido - p.valor)

CabeEmInt(x) == -(Int32Max + 1) <= x /\ x <= Int32Max

MutTipoNuloValor(p) ==
  /\ is_id_cliente_valido(p)
  /\ is_descricao_transacao_valida(p)
  /\ p.tipo = "ausente" \/ p.valor = NaoInteiro

(* json_string_value answers NULL for an absent tipo, and                  *)
(* is_tipo_transacao_valido takes its strlen.  It is called only when the  *)
(* description is valid.                                                   *)
TipoNulo(p) ==
  /\ is_id_cliente_valido(p)
  /\ is_descricao_transacao_valida(p)
  /\ p.tipo = "ausente"

TransacaoValida(p) ==
  /\ is_id_cliente_valido(p)
  /\ is_descricao_transacao_valida(p)
  /\ is_tipo_transacao_valido(p)
  /\ is_valor_transacao_valido(p)

(* The text transacao_repo_insert_async formats for the request of a.      *)
Comando(a) ==
  [num |-> enviados + 1, via |-> a, id_cliente |-> pedido[a].id,
   tipo |-> pedido[a].tipo, valor |-> pedido[a].valor,
   descricao |-> strzcpy(pedido[a].descricao, UTF8_TRANSACAO_DESCRICAO_LEN)]

-----------------------------------------------------------------------------
(* The handlers.                                                           *)

(* Send the answer and go back to the socket loop.                         *)
Responde(a, p, status, s) ==
  /\ pc' = [pc EXCEPT ![a] = "poll"]
  /\ pedido' = [pedido EXCEPT ![a] = SemPedido]
  /\ lido' = [lido EXCEPT ![a] = NadaLido]
  /\ resposta' = [resposta EXCEPT
                    ![a] = [pedido |-> p, status |-> status, saldo |-> s]]

(* The process dies (SIGSEGV).  Nothing restarts it.                       *)
Morre(a, p) ==
  /\ pc' = [pc EXCEPT ![a] = "morto"]
  /\ pedido' = [pedido EXCEPT ![a] = p]
  /\ UNCHANGED <<lido, resposta>>

(* The signals.  A process killed in the middle of a handler never         *)
(* answers; a message it had sent runs on in the server.                   *)
Matado(a) ==
  /\ "kill" \in Sinais
  /\ pc' = [pc EXCEPT ![a] = "matado"]
  /\ UNCHANGED <<pedido, lido, recebidos, resposta, aceitas, extrato>>

Mata(a) ==
  /\ pc[a] \notin Parados
  /\ Matado(a)
  /\ UNCHANGED dbVars

(* SIGKILL between PQsendQuery and the send of the answer.                 *)
EnviaEMorre(a) ==
  /\ pc[a] = "decide"
  /\ ~is_limite_excedido(lido[a].saldo, pedido[a])
  /\ db_execute_async_true(a, Comando(a))
  /\ Matado(a)

(* SIGTERM: handle_signal only sets a flag, so the handler runs to its end, *)
(* the loop ends and main closes the pool.                                 *)
Desliga(a) ==
  /\ "term" \in Sinais
  /\ pc[a] = "poll"
  /\ db_close_pool(a)
  /\ pc' = [pc EXCEPT ![a] = "encerrado"]
  /\ UNCHANGED <<pedido, lido, recebidos, resposta, aceitas, extrato>>

(* db_init_pool, at start-up: the process serves once it is connected.     *)
Conecta(a) ==
  /\ pc[a] = "conectando"
  /\ db_connect(a)
  /\ pc' = [pc EXCEPT ![a] = "poll"]
  /\ UNCHANGED <<pedido, lido, recebidos, resposta, aceitas, extrato>>

(* router_route calls the handler, which validates before any query.       *)
RecebePedido(a, p) ==
  /\ pc[a] = "poll"
  /\ recebidos < MaxPedidos
  /\ recebidos' = recebidos + 1
  /\ UNCHANGED <<dbVars, aceitas, extrato>>

EntraFindOne(a, p) ==
  /\ pc' = [pc EXCEPT ![a] = "find_one"]
  /\ pedido' = [pedido EXCEPT ![a] = p]
  /\ UNCHANGED <<lido, resposta>>

SaveTransacao(a, p) ==
  /\ p.op = "transacao"
  /\ RecebePedido(a, p)
  /\ \/ /\ TransacaoValida(p)
        /\ EntraFindOne(a, p)
     \/ /\ TipoNulo(p)
        /\ Morre(a, p)
     \/ /\ ~TransacaoValida(p)
        /\ ~TipoNulo(p)
        /\ Responde(a, p, 422, 0)

FindById(a, p) ==
  /\ p.op = "extrato"
  /\ RecebePedido(a, p)
  /\ \/ /\ is_id_cliente_valido(p)
        /\ EntraFindOne(a, p)
     \/ /\ ~is_id_cliente_valido(p)
        /\ Responde(a, p, 400, 0)

(* db_get_connection finds a BAD connection and PQreset succeeds.          *)
RedefineConexao(a) ==
  /\ pc[a] \in {"find_one", "find_last_10", "decide"}
  /\ db_get_connection_reset(a)
  /\ UNCHANGED apiVars

(* cliente_repo_find_one, and the branch on its result.                    *)
FindOne(a) ==
  LET p == pedido[a]
      cliente == [saldo |-> saldo[p.id],
                  visto |-> {t.num : t \in DoCliente(transacao, p.id)}]
  IN
  /\ pc[a] = "find_one"
  /\ db_query_ok(a)
  /\ \/ /\ p.id \in Clientes
        /\ lido' = [lido EXCEPT ![a] = cliente]
        /\ pc' = [pc EXCEPT ![a] = IF p.op = "extrato" THEN "find_last_10"
                                                       ELSE "decide"]
        /\ UNCHANGED <<pedido, resposta>>
     \/ /\ p.id \notin Clientes
        /\ Responde(a, p, 404, 0)
  /\ UNCHANGED <<recebidos, aceitas, extrato>>

(* cliente_repo_find_one when the query fails: db_clear_result_set(NULL).  *)
FindOneNull(a) ==
  /\ pc[a] = "find_one"
  /\ db_query_null(a)
  /\ Morre(a, pedido[a])
  /\ UNCHANGED <<recebidos, aceitas, extrato>>

MutLimiteDepoisDeEnviar(a) ==
  /\ pc[a] = "decide"
  /\ is_limite_excedido(lido[a].saldo, pedido[a])
  /\ db_execute_async_true(a, Comando(a))
  /\ Responde(a, pedido[a], 422, 0)
  /\ UNCHANGED <<recebidos, aceitas, extrato>>

MutLimiteErro500(a) ==
  /\ pc[a] = "decide"
  /\ is_limite_excedido(lido[a].saldo, pedido[a])
  /\ Responde(a, pedido[a], 500, 0)
  /\ UNCHANGED <<dbVars, recebidos, aceitas, extrato>>

LimiteExcedido(a) ==
  /\ pc[a] = "decide"
  /\ is_limite_excedido(lido[a].saldo, pedido[a])
  /\ Responde(a, pedido[a], 422, 0)
  /\ UNCHANGED <<dbVars, recebidos, aceitas, extrato>>

(* transacao_service_save_async returned true: 200 with the balance        *)
(* computed here.  The server's verdict is never looked at.                *)
SaveAsync(a) ==
  LET p == pedido[a]
      novo == ToInt32(update_saldo_cliente(lido[a].saldo, p))
  IN
  /\ pc[a] = "decide"
  /\ ~is_limite_excedido(lido[a].saldo, p)
  /\ db_execute_async_true(a, Comando(a))
  /\ aceitas' = aceitas \cup
       {[num |-> enviados + 1, via |-> a, id_cliente |-> p.id,
         descricao |-> p.descricao, saldo |-> novo, visto |-> lido[a].visto]}
  /\ Responde(a, p, 200, novo)
  /\ UNCHANGED <<recebidos, extrato>>

MutSaveAsyncFalse200(a) ==
  /\ pc[a] = "decide"
  /\ ~is_limite_excedido(lido[a].saldo, pedido[a])
  /\ db_execute_async_false(a)
  /\ Responde(a, pedido[a], 200, 0)
  /\ UNCHANGED <<recebidos, aceitas, extrato>>

SaveAsyncFalse(a) ==
  /\ pc[a] = "decide"
  /\ ~is_limite_excedido(lido[a].saldo, pedido[a])
  /\ db_execute_async_false(a)
  /\ Responde(a, pedido[a], 422, 0)
  /\ UNCHANGED <<recebidos, aceitas, extrato>>

(* transacao_service_find_last_10 and the answer.  lista is what it        *)
(* returned.                                                               *)
RespondeExtrato(a, lista) ==
  LET p == pedido[a]
      total == ToInt32(lido[a].saldo)
  IN
  /\ pc[a] = "find_last_10"
  /\ extrato' = [extrato EXCEPT
                   ![a] = [id |-> p.id, total |-> total,
                           visto |-> lido[a].visto, lista |-> lista]]
  /\ Responde(a, p, 200, total)
  /\ UNCHANGED <<recebidos, aceitas>>

FindLast10(a) ==
  /\ RespondeExtrato(a, UltimasTransacoes(pedido[a].id))
  /\ db_query_ok(a)

(* The query fails: an empty list, and still a 200.                        *)
FindLast10Null(a) ==
  /\ RespondeExtrato(a, {})
  /\ db_query_null(a)

-----------------------------------------------------------------------------
(* The steps of a process that has something to do.                        *)
Atende(a) ==
  \/ Conecta(a)
  \/ RedefineConexao(a)
  \/ FindOne(a)
  \/ FindOneNull(a)
  \/ LimiteExcedido(a)
  \/ SaveAsync(a)
  \/ SaveAsyncFalse(a)
  \/ FindLast10(a)
  \/ FindLast10Null(a)

Sinal(a) == Mata(a) \/ EnviaEMorre(a) \/ Desliga(a)

Chega(a) == \E p \in Pedidos : SaveTransacao(a, p) \/ FindById(a, p)

(* The server's own steps.                                                 *)
Servidor(k) == Executa(k) /\ UNCHANGED <<pool, apiVars>>
Ambiente == (Descarrega \/ Queda) /\ UNCHANGED <<pool, apiVars>>

(* Nothing is left to do: every process has stopped, or is idle with no    *)
(* request to come, and every message is decided.                          *)
Fim ==
  /\ \A a \in Apis : \/ pc[a] \in Parados
                     \/ pc[a] = "poll" /\ recebidos = MaxPedidos
  /\ \A k \in Conexoes : ~EmVoo(k)
  /\ UNCHANGED vars

Next ==
  \/ \E a \in Apis : Chega(a) \/ Atende(a) \/ Sinal(a) \/ Servidor(a)
  \/ Ambiente
  \/ Fim

Spec == Init /\ [][Next]_vars

(* A process runs its handler on, and the server executes what it has      *)
(* received.  Requests, signals, checkpoints and crashes are not forced.   *)
Fairness == \A a \in Apis : WF_vars(Atende(a)) /\ WF_vars(Servidor(a))

FairSpec == Spec /\ Fairness

-----------------------------------------------------------------------------
(* Properties.                                                             *)

(* Read your own writes, inside one process: when a handler has read the   *)
(* balance, every transaction this process accepted before on the same     *)
(* account is in that balance or will never be in any.  (PQexec waits for  *)
(* the message sent before it; otherwise the limit test would use a        *)
(* balance without the process's own debits.)                              *)
LeituraPropria ==
  \A a \in Apis, r \in aceitas :
    /\ pc[a] \in {"decide", "find_last_10"}
    /\ r.via = a
    /\ r.id_cliente = pedido[a].id
    => r.num \in lido[a].visto \/ Perdida(r.num)

(* The only race that loses an accepted transaction: the constraint        *)
(* refuses one only if, after its handler read the balance, the OTHER      *)
(* process committed a debit on the same account.  (No description holds   *)
(* a quote: a quoted debit could move the balance without its row.)        *)
PerdaExplicada ==
  \A r \in aceitas :
    [num |-> r.num, motivo |-> "chk_saldo"] \in perdidas =>
      \E t \in transacao :
        /\ t.id_cliente = r.id_cliente
        /\ t.tipo = "d"
        /\ t.via # r.via
        /\ t.num \notin r.visto

(* With one process: the balance answered with a 200 is the balance of the *)
(* table right after that transaction, for every transaction that is       *)
(* recorded and whose balance fits the C int the answer is made with,      *)
(* whatever happened to the messages before it, as long as none of them    *)
(* carried a description with a quote.                                     *)
SaldoExato ==
  \A r \in aceitas :
    Gravada(r.num) =>
      LET ateAqui == {t \in DoCliente(transacao, r.id_cliente) : t.num <= r.num}
      IN CabeEmInt(Soma(ateAqui)) => r.saldo = Soma(ateAqui)

(* An extrato is made of two queries.  What was committed between them     *)
(* shows in the list and not in the total, and is never a transaction of   *)
(* the process that answers; the rest of a complete list adds up to the    *)
(* total, as long as the total fits a C int and no description holds a     *)
(* quote.                                                                  *)
ExtratoConsistente ==
  \A a \in Apis :
    LET e == extrato[a]
        novas == {t \in e.lista : t.num \notin e.visto}
    IN e # SemExtrato =>
         /\ \A t \in novas : t.via # a
         /\ /\ Cardinality(e.lista) < LimiteExtrato
            /\ CabeEmInt(Soma(e.lista \ novas))
            => e.total = Soma(e.lista \ novas)

(* An extrato leaves out a transaction it has counted in its total only    *)
(* when the list is full, or when a crash of the database cut the handler  *)
(* in two: then the answer is a 200 with the total and an empty list.      *)
ExtratoCompleto ==
  \A a \in Apis :
    LET e == extrato[a]
    IN e # SemExtrato =>
         \/ e.visto \subseteq {t.num : t \in e.lista}
         \/ Cardinality(e.lista) = LimiteExtrato
         \/ quedas > 0 /\ e.lista = {}

(* No transaction enters the table unless its client was answered 200: a   *)
(* 422, whatever its reason, leaves no trace.  The exception is the one    *)
(* message a process had sent for the request it was killed in.            *)
Aceita(t) == \E r \in aceitas : r.num = t.num
DoPedidoInterrompido(t) ==
  /\ pc[t.via] = "matado"
  /\ pedido[t.via] # SemPedido
  /\ pedido[t.via].id = t.id_cliente
  /\ pedido[t.via].tipo = t.tipo
  /\ pedido[t.via].valor = t.valor
SoAceitasGravadas ==
  \A t \in transacao :
    ~Aceita(t) =>
      /\ DoPedidoInterrompido(t)
      /\ \A u \in transacao : u.via = t.via /\ ~Aceita(u) => u.num = t.num

(* A description is in the table, and in an extrato, as its client sent    *)
(* it.  Only one of more than UTF8_TRANSACAO_DESCRICAO_LEN bytes is not:   *)
(* it is there without its last characters if the first ones fill the      *)
(* buffer exactly, and otherwise its transaction is lost.  Whatever is     *)
(* stored is whole characters, fits the column and fits the field of the   *)
(* struct it is read into.  (Texts with a quote are not in Textos.)        *)
Prefixo(s, t) == Len(s) <= Len(t) /\ s = SubSeq(t, 1, Len(s))
DescricaoFiel(guardada, enviada) ==
  /\ Utf8Valido(guardada)
  /\ Prefixo(guardada, enviada)
  /\ Len(guardada) <= UTF8_TRANSACAO_DESCRICAO_LEN
  /\ guardada # enviada => Len(guardada) = UTF8_TRANSACAO_DESCRICAO_LEN
TextoGuardado ==
  \A r \in aceitas :
    /\ \A t \in transacao \cup UNION {extrato[a].lista : a \in Apis} :
         t.num = r.num => DescricaoFiel(t.descricao, r.descricao)
    /\ [num |-> r.num, motivo |-> "descricao"] \in perdidas =>
         Len(r.descricao) > UTF8_TRANSACAO_DESCRICAO_LEN
    /\ [num |-> r.num, motivo |-> "varchar"] \notin perdidas

(* A process that no signal kills dies only of a transaction whose tipo is *)
(* not a string, or after the server dropped its session.                  *)
MorteExplicada ==
  \A a \in Apis :
    pc[a] = "morto" =>
      \/ pedido[a].op = "transacao" /\ pedido[a].tipo = "ausente"
      \/ quedas > 0

(* The balance clients were promised: the table plus what was accepted and *)
(* is still in flight.                                                     *)
Prometido(c) ==
  LET K == {k \in Conexoes : EmVoo(k) /\ cmd[k].id_cliente = c}
  IN saldo[c] + MapThenSumSet(LAMBDA k : Efeito(cmd[k]), K)

(* No client is ever granted more debt than its limit (init.sql's          *)
(* chk_saldo, applied to what the API has answered 200 to).                *)
LimiteRespeitado == \A c \in Clientes : RespeitaLimite(c, Prometido(c))

(* One process with asynchronous writes cannot be told from a service that *)
(* decides every request at once.                                          *)
C == INSTANCE Conta WITH conta <- [c \in Clientes |-> Prometido(c)]
ImplementaConta == C!Spec

(* db_get_connection redefines a lost connection, so losing the database   *)
(* session does not end the process.                                       *)
SobreviveAQueda == \A a \in Apis : pc[a] # "morto"

(* A request that was taken is answered, unless its process died in it.    *)
TodoPedidoRespondido ==
  \A a \in Apis :
    pc[a] \in {"find_one", "decide", "find_last_10"} ~>
      pc[a] \in {"poll", "morto", "matado"}
=============================================================================
