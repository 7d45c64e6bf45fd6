------------------------------- MODULE Conta -------------------------------
(***************************************************************************)
(* Abstract specification of the service as its clients see it: every      *)
(* request is decided in ONE step against the client's current balance.    *)
(* An accepted transaction moves the balance and is answered with the new  *)
(* one; a debit that the limit does not allow is refused; an extrato is    *)
(* answered with the current balance.  No database, no message in flight.  *)
(* One API process implements it (ClienteController!ImplementaConta); two  *)
(* of them do not.                                                         *)
(***************************************************************************)
EXTENDS Entidades

CONSTANTS
  Apis,            \* the processes that answer
  SemResposta,     \* a process that has not answered yet
  ToInt32(_)       \* how an answer renders a balance

VARIABLES
  conta,           \* [Clientes -> Int]: the balance, as promised to clients
  resposta         \* [Apis -> the last answer: pedido, status, saldo]

contaVars == <<conta, resposta>>

Init ==
  /\ conta = [c \in Clientes |-> 0]
  /\ resposta = [a \in Apis |-> SemResposta]

(* Process a gives an answer; the others keep theirs.                      *)
Responde(a) == resposta' = [resposta EXCEPT ![a] = resposta'[a]]

Transacao(r) ==
  LET p == r.pedido IN
  /\ p.op = "transacao"
  /\ r.status = 200
  /\ conta' = [conta EXCEPT ![p.id] = @ + Efeito(p)]
  /\ RespeitaLimite(p.id, conta'[p.id])
  /\ r.saldo = ToInt32(conta'[p.id])

Recusa(r) ==
  LET p == r.pedido IN
  /\ p.op = "transacao"
  /\ r.status = 422
  /\ ~RespeitaLimite(p.id, conta[p.id] + Efeito(p))
  /\ p.tipo = "d"
  /\ UNCHANGED conta

Extrato(r) ==
  /\ r.pedido.op = "extrato"
  /\ r.status = 200
  /\ r.saldo = ToInt32(conta[r.pedido.id])
  /\ UNCHANGED conta

Next ==
  \E a \in Apis :
    /\ resposta'[a] # SemResposta
    /\ Responde(a)
    /\ \/ Transacao(resposta'[a])
       \/ Recusa(resposta'[a])
       \/ Extrato(resposta'[a])

Spec == Init /\ [][Next]_contaVars
=============================================================================
