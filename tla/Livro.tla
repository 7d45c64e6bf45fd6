------------------------------- MODULE Livro -------------------------------
(***************************************************************************)
(* Abstract specification of what the database promises to the API         *)
(* processes: a ledger in which a transaction moves a balance and writes   *)
(* its row in ONE step, and only if the client's limit allows it.  No      *)
(* sessions, no locks, no intermediate states.  Durability is the weak one *)
(* src/stack/postgresql.conf asks for (synchronous_commit = off): a crash  *)
(* takes the ledger back to the last state that reached the disk.          *)
(* Postgres implements this module (Postgres!ImplementaLivro).             *)
(***************************************************************************)
EXTENDS Entidades

VARIABLES
  saldo,       \* [Clientes -> Int]: column cliente.saldo
  transacao,   \* the rows of table transacao
  disco        \* what a crash of the database preserves

livroVars == <<saldo, transacao, disco>>

Init ==
  /\ saldo = [c \in Clientes |-> 0]
  /\ transacao = {}
  /\ disco = [saldo |-> saldo, transacao |-> transacao]

(* One new row t: balance and row together, within the limit.              *)
Aplica ==
  \E t \in transacao' \ transacao :
    /\ t.id_cliente \in Clientes
    /\ t.num \notin {r.num : r \in transacao}
    /\ transacao' = transacao \cup {t}
    /\ saldo' = [saldo EXCEPT ![t.id_cliente] = @ + Efeito(t)]
    /\ RespeitaLimite(t.id_cliente, saldo'[t.id_cliente])
    /\ UNCHANGED disco

(* The write-ahead log reaches the disk.                                   *)
Descarrega ==
  /\ disco' = [saldo |-> saldo, transacao |-> transacao]
  /\ UNCHANGED <<saldo, transacao>>

(* A crash: whatever had not reached the disk is gone.                     *)
Queda ==
  /\ saldo' = disco.saldo
  /\ transacao' = disco.transacao
  /\ UNCHANGED disco

Next == Aplica \/ Descarrega \/ Queda

Spec == Init /\ [][Next]_livroVars
=============================================================================
