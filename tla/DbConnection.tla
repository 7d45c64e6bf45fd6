---------------------------- MODULE DbConnection ----------------------------
(***************************************************************************)
(* src/src/util/db_connection.c: each API process holds ONE libpq          *)
(* connection (static PGconn *pool) and uses it from its single thread.    *)
(* pool[a] is what PQstatus answers, which is what libpq last noticed, not *)
(* the state of the session on the server (estado[a] of Postgres): a       *)
(* session that died is noticed only when a call touches the socket.       *)
(*                                                                         *)
(* The module gives the operations as actions over the variables of        *)
(* Postgres and pool; ClienteController composes them with the handlers.   *)
(***************************************************************************)
EXTENDS Postgres

VARIABLE pool     \* [Conexoes -> {"OK", "BAD"}]

dbVars == <<pgVars, pool>>

PoolTypeOK == pool \in [Conexoes -> {"OK", "BAD"}]

PoolInit == pool = [a \in Conexoes |-> "BAD"]

(* while ((res = PQgetResult(conn)) != NULL): a result is available only   *)
(* when the server has finished the message sent before (or is gone).      *)
(* PQexec discards pending results in the same way.                        *)
MutDrenadaSoComResultado(a) == estado[a] = "ociosa"
Drenada(a) == estado[a] \in {"ociosa", "fechada"}

(* db_connect: one successful round of the connection loop.                *)
db_connect(a) ==
  /\ Reconecta(a)
  /\ pool' = [pool EXCEPT ![a] = "OK"]

(* db_get_connection with a status other than CONNECTION_OK: PQreset, here *)
(* when it succeeds.  When it fails nothing changes and the caller goes on *)
(* with a BAD connection.                                                  *)
db_get_connection_reset(a) ==
  /\ pool[a] = "BAD"
  /\ Reconecta(a)
  /\ pool' = [pool EXCEPT ![a] = "OK"]

MutDbQuerySemEspera(a) ==
  /\ pool[a] = "OK"
  /\ estado[a] # "fechada"
  /\ UNCHANGED dbVars

(* db_query, PGRES_TUPLES_OK: PQexec waits for the previous message, then  *)
(* reads the committed tables.                                             *)
db_query_ok(a) ==
  /\ Drenada(a)
  /\ pool[a] = "OK"
  /\ estado[a] = "ociosa"
  /\ UNCHANGED dbVars

(* db_query returning NULL: the connection is BAD, or turns out to be.     *)
db_query_null(a) ==
  /\ Drenada(a)
  /\ pool[a] = "BAD" \/ estado[a] = "fechada"
  /\ pool' = [pool EXCEPT ![a] = "BAD"]
  /\ UNCHANGED pgVars

(* db_execute_async returning true: PQsendQuery wrote message t, to the    *)
(* session or into a socket whose other end is gone.                       *)
db_execute_async_true(a, t) ==
  /\ Drenada(a)
  /\ pool[a] = "OK"
  /\ Recebe(a, t) \/ Descarta(a, t)
  /\ UNCHANGED pool

(* db_close_pool, at the end of main: PQfinish.  The server's side of the   *)
(* connection ends after the message it is executing; nothing uses it.     *)
db_close_pool(a) ==
  /\ pool' = [pool EXCEPT ![a] = "BAD"]
  /\ UNCHANGED pgVars

(* db_execute_async returning false: no live connection to send on.        *)
db_execute_async_false(a) ==
  /\ Drenada(a)
  /\ pool[a] = "BAD" \/ estado[a] = "fechada"
  /\ pool' = [pool EXCEPT ![a] = "BAD"]
  /\ UNCHANGED pgVars
=============================================================================
