# Rinha de Backend 2024 in C: a verified model

The repository is an HTTP service of two endpoints written in C: it moves money
on the accounts of a few clients (`POST /clientes/<id>/transacoes`) and prints a
statement (`GET /clientes/<id>/extrato`). Two identical single-threaded API
processes stand behind nginx and share one PostgreSQL database. This directory
holds TLA+ modules for the parts that carry its logic, TLC runs that check them
on small instances, and TLAPS proofs that hold for every value of the
constants. Definitions keep the names of the C functions they stand for;
`PROJECT.json` gives the source lines of every definition under `map`.

## 1. Inventory

| component | source | state | operations |
|---|---|---|---|
| Database | `src/stack/init.sql`, `postgresql.conf` | tables `cliente`, `transacao`; row locks; one session per API process; what has reached the disk | the two-statement message of `transacao_repo_insert_async`, the two selects, commit, abort, checkpoint, crash |
| Connection | `src/src/util/db_connection.c` | `static PGconn *pool`: one libpq connection with a status that can be stale | `db_connect`, `db_get_connection`, `db_query`, `db_execute_async`, `db_execute` (unused), `db_close_pool` |
| Repositories, services | `src/src/repository`, `src/src/service` | none | `find_one`, `find_last_10`, `insert_async`, `insert` (unused) |
| Controller | `src/src/controller/cliente_controller.c` | the request being answered, the `Cliente` it read | `save_transacao`, `find_by_id`, their validations, the answers |
| Server | `src/src/server/server.c` | poll table of 16 descriptors, listening socket, `shoud_terminate` | accept, read, answer, close, signals |
| HTTP parser | `src/src/server/http_parser.c` | ONE llhttp parser and ONE `HttpRequest` for all connections | `http_parser_parse`, the llhttp callbacks, reset |
| Router | `src/src/server/router.c` | table of routes | `router_add_route`, `router_match_url`, `router_route` |
| Text | `src/src/util/string_util.c` | none | copy with truncation, UTF-8 length |
| Start-up, shutdown | `src/src/main.c` | none | connect, serve, disconnect |
| Deployment | `src/stack/nginx.conf`, `docker-compose.yaml` | two API processes, no restart policy; what nginx knows of them | choose a process, retry, give up, answer an error |
| Not the program's logic | `log.c`, `array_list.c` (unused), `env_util.c`, `uuid_util.c`, `src/include`, `src/lib` | | |

How they interact. The server loop of a process reads a socket, feeds the
parser, and when a request is complete calls the router, which calls a handler
of the controller. The handler validates, reads the balance through service,
repository and connection, decides, and answers on the socket before the loop
goes on: a process never has two requests in progress. What makes it hard:

* **Writes are asynchronous.** A transaction is answered `200` as soon as
  `PQsendQuery` has taken the text; its result is read and thrown away by the
  next call on the connection (`db_connection.c:100`).
* **Two processes share the rows.** The limit is tested on a balance read
  earlier (`cliente_controller.c:94-96`), while the check constraint of
  `init.sql:6` decides on the server, later.
* **Two statements, one message.** `update` and `insert` run in one implicit
  transaction that holds a row lock between them and may abort in the second.
* **`synchronous_commit = off`** (`postgresql.conf`): a crash of the database
  takes back commits that have been read by others.
* **The status of a connection is a belief.** `PQstatus` says `CONNECTION_OK`
  until a call touches a dead socket (`db_connection.c:44`).
* **One parser for every connection**, reset only after a complete request.
* **Processes stop.** A NULL, a SIGPIPE, 6 MB of memory or a SIGTERM ends one in
  any step; nothing restarts it, and its last message runs on in the server.
* **nginx retries.** `nginx.conf` leaves `proxy_next_upstream` at its default: a
  request that one process refused, dropped or was late with may go to the other.

What makes each part correct:

* database: the constraint holds at all times, also on disk; a balance is its
  credits minus its debits; locks never leak; a message is in exactly one place;
  everything looks atomic;
* connection and controller: a process reads its own writes; a refused request
  leaves no trace; a recorded transaction was answered with the balance it
  produced; an accepted one is lost only for a reason that can be named; every
  request is answered; the process survives; a description is stored as it was
  sent;
* server, parser and router: a request is answered on the connection it came
  from and built from the bytes of that connection only; a handler is called with
  one request, whole, and with none twice (the code keeps the first two only while no
  connection is cut or malformed, see section 3); the poll table holds each open descriptor once; every connection
  is served and closed; shutdown happens;
* deployment: a POST is executed at most once whoever fails; what a client was
  told stays true; one transaction cannot take both processes down; every client
  is answered.

## 2. Modules

| module | what it is |
|---|---|
| `Texto` | the bytes of a description: `string_util.c`, and what PostgreSQL makes of them |
| `Entidades` | clients, limits, amounts, the effect of a transaction, sums over rows |
| `Livro` | abstract specification of the database: a ledger that moves a balance and writes its row in one step |
| `Postgres` | the database: sessions, row locks, messages, refusals, commits, checkpoints, crashes |
| `DbConnection` | `db_connection.c` as actions over the sessions and the status of each connection |
| `Conta` | abstract specification of the service: every request is decided in one step |
| `ClienteController` | the API processes with their handlers, composed with `DbConnection` and `Postgres` |
| `HttpParser` | the shared parser and request of `http_parser.c`, and llhttp as far as they depend on it |
| `Sistema` | clients and nginx in front of the API processes of `ClienteController` |
| `Router` | the two routes, `router_route`, and the id taken from the url |
| `Server` | the socket loop of one process with its poll table, its clients and the signal, over `HttpParser` and `Router` |
| `MCPostgres`, `MCClienteController`, `MCSistema`, `MCServer` | instances for TLC |
| `SomaProofs` | lemmas about sums over sets of rows, by induction on their number |
| `PostgresProofs`, `ClienteControllerProofs`, `TextoProofs`, `ExtratoProofs`, `ContaProofs`, `SistemaProofs`, `ServerProofs` | theorems and their proofs |

They form two towers: `Sistema` > `ClienteController` > `DbConnection` >
`Postgres` > `Entidades` > `Texto`, all processes from nginx to the disk, with a
request as one value; and `Server` > `HttpParser`, `Router`, one process from
the bytes of its sockets to the call of a handler. Where they meet is
`SaveTransacao` / `FindById`, the handler `router_route` calls.

### State and actions against the code

**Postgres.** `saldo` and `transacao` are the committed tables; `disco` the part
a crash preserves. `estado[k]` is what the session of connection `k` is doing,
`cmd[k]` the message it is executing, `trava` the row locks, `versao[k]` the
balance `k` wrote but has not committed, `inicio[k]` the `current_timestamp` of
its transaction. `Recebe` is the arrival of a message; `RecusaTexto` a text the
server rejects before it runs anything (a description cut in the middle of a
UTF-8 character); `Inicia` fixes the time; `RecusaBigint`,
`RecusaSaldo` and `Atualiza` are the `update`, refused because the balance
exceeds a `bigint`, refused by `chk_saldo`, or granted with the row lock; `RecusaValor` and
`Grava` are the `insert`, refused because `valor` exceeds an `integer`, or
executed and committed. `Descarrega` moves the log to the disk, `Queda` is a
crash with restart, `Reconecta` a new session, `Descarta` a message written into
a socket whose other end is gone. Messages are numbered in the order sent;
`perdidas` remembers why a message will never be in the table. Neither is read
by an action: they are history.

**DbConnection.** `pool[a]` is what `PQstatus` answers. Each operation has one
action per outcome (`db_query_ok`, `db_query_null`, `db_execute_async_true`,
...). `Drenada` is the wait of `PQexec` and of the `PQgetResult` loop for the
result of the message before.

**ClienteController.** `pc[a]` is the next database call of the handler:

    poll --SaveTransacao--> find_one --FindOne--> decide --SaveAsync--------> poll
                                                         --LimiteExcedido--> poll
    poll --FindById-------> find_one --FindOne--> find_last_10 --FindLast10-> poll

with an immediate answer (400, 404, 422) where the code returns early, and
`morto` where it dereferences NULL: `strlen` of an absent `tipo`
(`cliente_controller.c:84`), `db_clear_result_set` of a failed query
(`cliente_repository.c:32`). A step does everything up to the next call on the
connection, so all interleavings of the two processes, the sessions and the
crashes are kept, and nothing else is. `RedefineConexao` is the `PQreset` of
`db_get_connection`. `Sinais` says which signals a run allows: `Mata` is a process
killed in any step, `EnviaEMorre` one killed between `PQsendQuery` and its answer,
`Desliga` the SIGTERM, which only ends the loop: the handler finishes, then `main`
closes the pool (`db_close_pool`).

**Texto.** A byte is known by its class: a continuation, or the first byte of a
character of one to four bytes. `string_util_utf8_strlen` counts
what is not a continuation; `strzcpy` keeps the first bytes whatever they cut; the
server rejects a string that ends inside a character. A quote has no class:
descriptions that hold one are outside the model (section 5).

**Sistema.** `fase[r]` is where nginx is with request `r`, `destino[r]` the process
it gave it to, `tentados[r]` and `suspensos` the processes it does not try,
`fila[a]` the connections nobody has accepted yet, `atual[a]` the request in the
handler. `Encaminha`, `Recusada`, `Cortada`, `Demora`, `SemProcesso`, `Reabilita` are
nginx; `Falhou` is the default of `proxy_next_upstream`: after a failure a GET goes
to another process and a POST, once sent, does not. `Toma` and `Processa` are steps
of `ClienteController` with what they mean for the connection (`Entrega`). A process
nginx has given up on is not told: it takes the request from its queue and runs it.

**Router.** A url is a sequence of tokens, a pattern a prefix, one word and a
suffix, anchored as in `MATCH_ONE_URL_PARAM`; `extract_url_param` finds the digits
between two slashes, and none for an id that is not a number.

**HttpParser.** The parser and the `HttpRequest` are one record `h`: `fase` is
the state of llhttp, `url`, `body` and `complete` are the fields of the request.
The bytes of a connection come in pieces (half a url, the rest of the request
line, the headers, parts of a body, control characters); a piece carries the
name of its request, so a url or a body is the sequence of the requests its
bytes came from. `handle_on_url`, `handle_on_body`, `handle_on_message_complete`
are the callbacks; `llhttp_execute` folds the pieces that one `recv` returned.
Reset clears the request, but the state of llhttp only when it is `fechado`.
An error stays, as `llhttp.h:660` says. The transitions were compared with
`src/lib/libllhttp.a` and the code's own callbacks, linked to a small driver.

**Server.** `pc` and `i` are the place in `socket_loop`; `pfds`, `revents` and
`nfds` its locals. One step is one system call with the code up to the next:
`PollVolta` (poll returns), `Aceita` / `NaoAceita` (accept; a full table or a
failure leaves the connection in the queue), `RecvSemResposta`, `RecvResponde`
and `RecvMorre` (recv, parse, and the answer or SIGPIPE), `FimDoRecv` and
`FechaSemLer` (close and `poll_pop`). `antes_do_poll` is the moment between the
test of `shoud_terminate` and `poll`. On the other side of the sockets `Conecta`,
`Envia`, `Encerra`, `Derruba` are a client that connects, sends the next pieces
of its script, closes and resets; `par` is what the kernel knows of its end.

### Abstractions

* A request is a record of the classes the code tells apart: an id that is
  malformed, unknown or a client; a `tipo` that is `c`, `d`, another string or
  absent; an amount that is not an integer, not positive, or positive; a
  description that is a string of byte classes, or no string.
* No client sends a description with a quote (`TextosAssumption`). The code accepts
  them and pastes them into the statement; every property and theorem about messages,
  rows, balances and texts is about descriptions without quotes.
* In `Texto` the limit of the column (`TRANSACAO_DESCRICAO_LEN`) is a parameter and
  the bytes kept are twice it, as in `transacao.h`.
* The clock is strictly increasing: two transactions never begin in the same
  microsecond. A list ordered by `realizada_em` is then a set.
* A select reads one snapshot in one step. PostgreSQL does the same.
* nginx gives a request its answer in the step in which the process sends it.
  Its timeout is a choice (`Demora`), bounded by `MaxDemoras`; `max_fails` is 1 and
  the end of `fail_timeout` a step that may come at any time.
* `db_get_connection` with a `PQreset` that fails is the step not taken: the
  handler goes on with a `BAD` connection.
* A connection of `Server` is named once: a descriptor number is not reused for
  another. What a handler answers is `ClienteController`'s. Upgrade requests (`HPE_PAUSED_UPGRADE`), which nginx does
  not forward, and failures of `poll` other than EINTR are left out. The pieces
  of a body have one size, so a body never ends inside a piece.
* The text of JSON and HTTP, logging, and memory management are left out, except
  `json_pack`'s `i`, which keeps the low 32 bits of a balance (`ToInt32`).
* Integers have the width of the code: `int64_t` sums of the controller wrap
  (`ToInt64`), `cliente.saldo` and `transacao.valor` raise an error beyond
  `MaxInt8` and `MaxInt4`.

## 3. Runs

| run | instance | what it shows |
|---|---|---|
| `pg_safety` | 2 sessions, 2 accounts with limits 1 and 0, amounts 1 and 2 (2 overflows `valor`, and 1 + 2 overflows `saldo`), 3 messages, 1 crash | `PgTypeOK`; the constraint, in memory and on disk (`ChkSaldo`); balance = credits - debits (`Reconcilia`); lock discipline; every message in one place (`Conservacao`); order of own rows (`OrdemPropria`); refinement of `Livro` |
| `api_um` | 1 process, 6 correct requests, SIGTERM | with one process the limit is never exceeded by what clients were promised, and the service is `Conta` |
| `api_dois` | 2 processes, 4 correct requests, kills and SIGTERM at any point | `TypeOK`; an accepted transaction is refused by the constraint only after a debit of the *other* process (`PerdaExplicada`); total and list of an extrato differ only by commits of the other process (`ExtratoConsistente`); a row without a 200 is the last message of a killed process (`SoAceitasGravadas`) |
| `api_dados` | 1 process, 4 requests of every class, descriptions of every class, amounts that overflow, 1 crash, 3-bit `int`, 4-bit `int64_t`, lists of 2 | a recorded transaction was answered with the balance after it (`SaldoExato`), also when messages before it were lost; `TextoGuardado`; an extrato that leaves out what it counted is full or was cut by a crash (`ExtratoCompleto`); `LeituraPropria`; `MorteExplicada` |
| `sistema` | 2 requests through nginx to 2 processes: debits of the whole limit, transaction without `tipo`, extrato; kills, SIGTERM, 1 crash, 1 timeout | `AoMaisUmaVez`, `RespostaVerdadeira`, `UmPostDerrubaUm`, `SisTypeOK` |
| `sistema_vivo` | 2 requests through nginx to 2 processes: debits of one account, one of them refused while it holds the row lock, extrato; 1 crash | every handler ends (`TodoPedidoRespondido`), every message is decided: waits for the row lock end (`TodaMensagemDecidida`), every client is answered (`TodoClienteRespondido`) |
| `api_limite` | 2 processes, 2 requests | VIOLATED: `LimiteRespeitado` |
| `api_pool` | 1 process, 2 requests, 1 crash | VIOLATED: `SobreviveAQueda` |
| `srv_pedidos` | 2 connections, table of 2, transactions with body, pipelined transactions, pipelined transaction and extrato, too large; all segmentations; closes and resets | `TypeOK`; `TabelaExata`, with the table full; `UmPedidoUmaResposta`; while requests are whole and read to their end, also several per connection, a handler gets one request of its own connection, url, id and body (`HandlerDeUmPedido`); whatever is sent or cut, no request line is executed twice (`LinhaUmaVez`) |
| `srv_vivo` | 2 connections, table of 2 | `TodaConexaoEncerrada`, `TerminaPeloSinal` |
| `srv_url` | 1 connection with two requests | VIOLATED: `UrlDeUmPedido` |
| `srv_erro` | 2 connections, well-formed or malformed | VIOLATED: `BemFormadoRespondido` |

**Violations of the service.** `api_limite`: both processes read balance 0, both
accept a debit of the whole limit and answer 200; the constraint
(`init.sql:6`, `saldo >= (-limite)`) refuses the second on the server and its
error is discarded. The table stays right (`ChkSaldo` is proved), the answers do
not. A limit near the width of
`int64_t` is a second way: `is_limite_excedido` wraps (`cliente_controller.c:176`)
and a debit beyond the limit is answered 200; `api_um` uses amounts that do not
overflow, `api_dados` amounts that do. `api_pool`: the database restarts while a process is idle; `PQstatus`
still says `CONNECTION_OK`, so "Redefinindo conexão..." is not reached, the
query fails, and `cliente_repo_find_one` passes the NULL result to
`db_clear_result_set`. Nothing restarts the process.

**Violations of the server.** `srv_url`: a client that keeps its connection sends
its second request before the first is answered; one `llhttp_execute` parses
both and `handle_on_url` appends the second url to the first. While every
connection carries whole requests and is read to its end, what reaches a handler is
still one request of the connection it answers on, with its own body and id
(`HandlerDeUmPedido`): the patterns of the router are anchored and their word has no
slash, so urls of the API that are glued match nothing and both requests get one 400.
(A client that asks for two fragments the API does not have, and that make one route
when glued, gets that route; `Alvo` in `MCServer` has urls of the API only.)

When a connection is cut, not even that is true, and no property claims it. A client
whose connection ends in the middle of a header leaves llhttp inside that header:
the request line of the next connection is swallowed as its value, and the headers and
the JSON body of the next connection complete the first request. The handler then runs
with the url, the id and the method of the first client and the valid body of the
second, and answers the second: money moves on the wrong account. What remains true
whatever clients send, cut or pipeline is `LinhaUmaVez`: each half of a request line
reaches the router at most once, so a request may be executed with another's body,
but never a second time.

`srv_erro`: one malformed request leaves llhttp in its error state, which only `llhttp_init` or
`llhttp_reset` ends; the code resets only after a complete request, so the
process answers nothing any more. `UmPedidoUmaResposta` says what remains true:
while every connection carries one well-formed request and all of it is read
before the close, each gets one answer made of its own bytes. A signal between
the test of `shoud_terminate` and `poll` is seen only when the next event comes;
`TerminaPeloSinal` excludes exactly that window.

**Bounds.** `MaxEnvios`, `MaxPedidos` and `MaxQuedas` bound messages, requests
and crashes of a behaviour. Three messages on two sessions are enough for a wait
on a lock with a third decision after it; the two refusals inside the
transaction and the one before it all occur; one crash finds every combination
of running sessions and flushed commits. Two processes are all the deployment
has. Six requests in `api_um` and four in `api_dois` let a process act on the
result of its own lost and successful writes several times. `Int32Max = 3`
makes balances overflow the C int within a few transactions; `LimiteExtrato = 3`
in `api_dois` and 2 in `api_dados` make lists that are full and lists that are not.
The descriptions of `api_dados`, for 2 characters and 4 bytes, fill the buffer,
are cut inside a character, cut between two, are too long, empty.
Two requests in `sistema` are enough for a retried one with another between its
attempts, and for one that stays in a queue after nginx gave up on it; each may be
tried on both processes. One timeout and one crash
are enough for a proxy that repeats a POST to break two of the properties. The table of
`srv_pedidos` has one entry for connections: the loop drains and closes one
connection before it looks at the next, so requests never interleave inside the
parser, only follow each other. Two connections then already compete for
the table. Buffers of 5 pieces of url (two whole urls and a half), 1 of body and 6 per `recv`
overflow, fit exactly, and cut every request somewhere. Symmetry (of
sessions, of processes) is used in safety runs only.

**Fairness.** Weak fairness of each process's own steps (`Atende`): its single
thread runs unless it waits for the server. Weak fairness of each session's
steps (`Executa`, `Servidor`): PostgreSQL runs what it has received and queues
the waiters of a row; the update of a waiting session is enabled again at each
release, and with a bounded number of messages it is eventually enabled for
good. Requests, signals, checkpoints, crashes and the reconnection of a session
whose process does not ask for it are never forced. In `Sistema` nginx's event loop
goes on with each request it has (`Nginx(r)`), a process that runs connects, accepts
from its queue and continues its handler; timeouts and the end of `fail_timeout` are
not forced, so a client is answered without their help. `sistema_vivo` has a crash,
after which processes die, but no signals: with them it only has more ways to reach
the same errors of nginx.
`MCPostgres`, `Fim` of `ClienteController` and of `Server` and `FimDoSistema` add the stuttering step of a
behaviour that has used up its bounds or has ended, so deadlock is checked everywhere.

In `Server`, weak fairness of the loop: it is one running thread. Strong fairness
of `Aceita`: accept may fail (descriptors of the whole system run out) but not
for ever. Weak fairness of "the client sends or closes": nginx closes the
connections of the clients that time out; the code itself waits for ever and
the table would stay full. Nobody has to connect, reset or signal.

## 4. Proofs

`tlapm` checks every theorem below, for all values of the constants that satisfy
the `ASSUME`s of the modules: limits are naturals, amounts
are positive and fit an `int64_t`, the sentinels (`Livre`, `SemComando`, `SemPedido`, `SemResposta`,
`NaoInteiro`, ids) are distinct from what they stand beside. The number of
sessions, clients, processes, messages, crashes, connections and requests is
arbitrary. Descriptions are valid UTF-8 without quotes (`TextosAssumption`): this is
a hypothesis of every theorem about the database, the processes and the deployment, and
`PgReconcilia`, `PgImplementaLivro`, `ApiPerdaExplicada`, `ApiExtratoConsistente`,
`ApiSaldoExato` and `ApiTextoGuardado` are false of the code without it. Some theorems hold for some instances only; their hypotheses are named
operators in the `ASSUME` of the theorem and are explained with it below.
Each of them holds in the run that checks the property.

| theorem | hypotheses | run where they hold |
|---|---|---|
| `ApiPerdaExplicada` | `SemEstouro` | `api_dois` |
| `ApiLimiteRespeitado` | `SoUmaApi`, `SemEstouro` | `api_um` |
| `ApiSaldoExato` | `SoUmaApi` | `api_dados` |
| `ApiImplementaConta` | `SoUmaApi`, `SemEstouro`, `SemFalhas`, `PedidosServiveis`, room for all amounts in a `bigint` | `api_um` |
| `SrvUmPedidoUmaResposta` | the url buffer holds the two pieces of one url | `srv_pedidos` |
| `SrvLinhaUmaVez` | `PedidosDistintos` | `srv_pedidos` |
| all others | none | |

**`PostgresProofs`.** None of the properties is inductive by itself. The
invariant is built in layers, each inductive over the layers below it:

| layer | says | why it is needed |
|---|---|---|
| `Coerente` | `PgTypeOK`, and a session has a message exactly while it executes one, sent by its own client | `cmd[k].num` means something in every action that reads it |
| `Travas` | `TravaDisciplina`, `ChkSaldo`, and `VersaoTravada`: a session that has written holds a balance equal to the committed one plus its own effect, within the limit | the commit writes `versao[k]`, computed earlier; only the lock keeps it right in between |
| `Numeros` | `Conservacao`; numbers were given out once; the disk is part of the table | a crash moves messages and rows to the losses at once; without uniqueness a row on disk could share its number with a lost one |
| `Horas` | `OrdemPropria`; the rows of a connection are older than what it executes, by number and by time | the two orders agree only because one connection runs one message at a time |
| `Somas` | `Reconcilia`, in memory and on disk; the tables are finite | a commit adds one row and its effect to one balance; the sum of the others stays |

Theorems: `PgTipos`, `PgChkSaldo`, `PgTravaDisciplina`, `PgConservacao`,
`PgOrdemPropria`, `PgReconcilia`, and `PgImplementaLivro` (`PgSpec => ImplementaLivro`): a
`Grava` is the one `Aplica` of the ledger - its number is new by `Numeros`, its
balance right by `Travas` - and everything else is a checkpoint, a crash or a
stutter.

**`ClienteControllerProofs`.** `ApiTipos` needs `PedidosValidados` (a process
about to decide holds a request that passed every validation), which is also
what makes each step of the composition a step of the database:
`ApiUsaPostgres` (`Spec => PgSpec`) carries every theorem above over to the whole
system. On top of it, `Acordo` relates the 200s given to what is in the table or in
flight (`Presentes`): `AceitasFieis`, and `NadaSemAceite`, where the one message
without a 200 is that of a killed process. It gives `ApiSoAceitasGravadas` and
`ApiLeituraPropria`: when a handler reads, its session is idle, so by
`Conservacao` each number it accepted is a row it sees or a loss. `SessaoViva`
(no crash, no dead session) gives `ApiMorteExplicada`.

**`TextoProofs`.** What `strzcpy` keeps is a prefix that fits, is everything if
everything fits, and has no more characters than the original (`StrzcpyPrefixo`,
`StrzcpyCaracteres`). `TextosFieis` follows a description from the request to the
message, the row, the disk, the extrato or the loss; with `Acordo`, which ties the
number of a 200 to one message, it gives `ApiTextoGuardado` for every set of texts
and every length of the column.

**`SomaProofs`.** A sum over rows is a fold, and the induction theorems of the library
cannot be instantiated here. The induction is done with sets instead: a set of
naturals that is not empty has a least element (`MenorElemento`, from the
well-foundedness of `<`), hence one that contains 0 and every successor is `Nat`
(`Inducao`). With it there is one table of partial sums over the subsets of a
finite set, and the fold is its last entry (`SomaDeParciais`). What the other
modules cite: a sum can be split in two (`SomaDivide`), a new row adds its effect
(`SomaMais`), a set without debits does not take it down (`SomaCresce`).

**`ExtratoProofs`.** What a handler knows of rows it did not write. Three invariants:
`Leitura`, the balance a process read is, while its session lives, the sum of rows
that are still in the table, and none of its own is missing; `Enviadas`, the same
for a message in flight, with the limit test it passed; `Instantes`, transactions
that have begun have different times. `ApiPerdaExplicada`: when the constraint refuses a message, the
rows its handler had not seen took the balance down, and they are others', so one
of them is another process's debit. It needs `SemEstouro`, no limit plus amount
beyond 2^63: for such an amount the test of `is_limite_excedido` wraps, the handler
accepts, and the constraint refuses with nobody else to blame. `ApiExtratoConsistente`:
list and total of an extrato differ by others' commits only. Both are about
behaviours without a crash so far: a crash takes credits back that a handler has
read. `ApiExtratoCompleto` holds with crashes; it rests on `LimiteCheio`: if a query
with a limit leaves a row out, its answer is full.

**`ContaProofs`.** One process (`SoUmaApi`; with two, run `api_limite` refutes the
first theorem). Between its read and its message nobody else writes, so what is
in flight would still be granted: `Cabem` makes each message in flight pass the constraint on the
present balance, and `ApiLimiteRespeitado` follows also with crashes, kills and
lost messages. `Exatos` gives `ApiSaldoExato`: the rows of a client up to a number
add up to the balance answered with that number, in spite of what was lost before
it, because a crash cuts the table at a number (`Prefixos`). `ApiImplementaConta`
(`Spec => ImplementaConta`): a `SaveAsync` is the one step that decides the
request of `Conta`, refusals and extratos map to theirs, the steps of the server stutter. An accepted transaction must then never be refused
later: no crash and no kill between message and answer (`SemFalhas`), requests
whose text and amount the database can store (`PedidosServiveis`), and a `bigint`
that holds `MaxEnvios` times the largest amount. These say where
answering first is the same as deciding at once; `api_dados` and `api_limite` show
behaviours outside.

**`SistemaProofs`.** `SisImplementaApis` (`SisSpec => Spec`) carries the theorems
about processes, texts and database over to the deployment: nginx only chooses who
gets which request when. The other theorems follow one transaction. `Ligados` ties
a process to the request it answers. `Unica(r)`: one process holds it, in its queue
or its handler, and nothing was sent for it; or one message was, and nobody holds
it but a killed process; only a POST that was never sent is up for choice
(`escolhe`). That a process keeps a request nginx has given up on is what
makes this more than a count of retries. `Informada(r)`: what the client was told agrees
with it. Each step of a process is one of three kinds (`Avanca`): it goes on, it
answers without a message, it sends one and answers 200; `EnviaEMorre` is the
exception the properties name. Theorems: `SisTipos`, `SisAoMaisUmaVez`,
`SisRespostaVerdadeira`, `SisUmPostDerrubaUm`.

**`ServerProofs`.** `SrvTabelaExata` (`Spec => []TabelaExata`) for every size of
the table, number of connections and script. Its invariant `Tabela` adds to the
table itself (`TabelaUnica`, the property without the cardinality of single
entries) what `accept` relies on: `FilaExata`, a connection is in the queue once
and only before it is accepted, so it cannot enter the table twice; and
`HaQuemAceitar`, a `POLLIN` of the listening socket is still true when the loop
comes to accept. `LacoTipos` has the types these need and no more. That
`nfds < SOCKET_MAX_POLL` finds a free entry is a count: used entries are a proper
subset of all (`HaEntradaLivre`).

The other theorems follow bytes through the shared parser. One
`llhttp_execute` is a fold over the pieces of a `recv`; `ExecutePreserva`
(what every piece preserves, the call preserves) comes from `Inducao` and a table
of the parser after each piece (`Pedacada`), and a table of the same kind
(`Achatada`) says what the tokens of a sequence of half urls are: `TextoMaisUma`, each
half adds its own.

`SrvTipos`: a parser that is `corpo` lacks at least one piece (`ParserTipado`), so
`content_length` never passes zero, and at most one connection is half read between
two steps (`UmaDeCadaVez`), because the loop drains a socket before the next.

`SrvUmPedidoUmaResposta`: `Fidelidade` says that the parser is clean (`Limpo`)
between connections and, in the middle of one, holds exactly the pieces read so far
(`Lendo`); it is
shown piece by piece (`LendoPasso`) and then for any segmentation (`LendoRecv`). A
url buffer of less than two pieces would cut even the shortest url.

`SrvLinhaUmaVez`: a half of a request line is read by some `recv`, kept in the
parser, given to the router, gone. `UmaVez` says that the halves in answers were read
(`Dadas` within `Lidas`) and that those in the parser were read, are in no answer and
are in the parser once (`Guarda`). A piece about to be read was never read
(`LidasMaisUma`), so appending it keeps `Guarda` (`GuardaPasso`, and by
`ExecutePreserva` a whole `recv`); an answer moves what the parser holds to `Dadas`,
and the reset that follows it leaves nothing behind (`UmaVezResponde`). The hypothesis
`PedidosDistintos` is about names only: each piece a client sends has the name of
its own request, so that "the same half" means the same bytes on the same wire.

**Only model-checked.** Liveness (`TodaMensagemDecidida`, `TodoPedidoRespondido`,
`TodoClienteRespondido`, `TodaConexaoEncerrada`, `TerminaPeloSinal`): it needs
fairness and `ENABLED`, out of the prover's reach. `HandlerDeUmPedido`: it needs
the shape of urls, the router and the order of pipelined bodies at once. Every other
safety property of a passing run is a theorem.

## 5. Not modelled, and why

* `db_execute`, `transacao_repo_insert`, `transacao_service_save`,
  `string_util_tolower`: no handler reaches them.
* `log.c`, `array_list.c`, `uuid_util.c`, timing helpers: output or unused.
* `src/include`, `src/lib`: headers and archives of llhttp, jansson, libpq and
  PostgreSQL, four fifths of the lines of the repository. They are third-party and hold
  declarations, not the program's logic; the modules model them, marked external,
  through the calls the program makes.
* Descriptions with a quote. `transacao_repository.c:92-96` pastes the description
  between quotes without escaping. Two quotes are stored as one, an odd one may be a
  syntax error, and a text of ten characters can end the `insert` so that the statement
  is valid, the `update` commits and no row is written: balance = credits - debits, the
  atomic ledger and the exact answers then fail. The effect of such a text is that of
  whatever SQL it spells, so the model excludes it instead of guessing
  (`TextosAssumption`), and the hazard is listed without a property.
* Sizes in bytes: the byte `buffer[valread]` may write past its end
  (`server.c:101`), and the id copied before its length is tested
  (`cliente_controller.c:206`). The models count pieces and tokens.
* The text of JSON, the HTTP answers, and the formatting of dates: string building
  without a decision in it. Memory and result sets of libpq likewise.
* Creation of the listening socket: any failure ends the process before it serves.
* nginx beyond one failure per request and process: its workers share nothing in
  this configuration, and `suspensos` may already shrink and grow at any time.

## 6. Plan

1. **Abstract server** - every connection is answered from its own bytes or not
   at all; `Server` with one well-formed request per connection implements it.
2. **`Server` inside `Sistema`** - the two towers joined, a handler as the step
   between `recv` and `send`; today the queue of `Sistema` stands for a socket loop
   that answers every connection, which is what `UmPedidoUmaResposta` and
   `TodaConexaoEncerrada` show of it.
3. **The synchronous insert as a contrast** - `transacao_repo_insert` in the place of
   the asynchronous one: one process would still grant what it can, and the answers
   of two would respect the limit.
4. **Theorems** - the theorems about one process carried to `Sistema` by
   `SisImplementaApis`; the limit with two processes, where what is
   promised exceeds it by no more than the other process has in flight; that an answer
   is only given on an open connection; `HandlerDeUmPedido`; that between two crashes the tables only grow.
5. **`HttpParser`** - upgrade requests, bodies that end inside a piece, the failure
   of `poll`.
