------------------------------ MODULE MCSistema ------------------------------
(* Instances of Sistema for TLC.                                           *)
EXTENDS Sistema, TLC

CONSTANTS a1, a2, r1, r2

LimiteMC == [c \in Clientes |-> 2]

TextosMC == {<<1>>}

Transacao(tipo, valor) ==
  [op |-> "transacao", id |-> 1, tipo |-> tipo, valor |-> valor,
   descricao |-> <<1>>]
Extrato1 ==
  [op |-> "extrato", id |-> 1, tipo |-> "ausente", valor |-> 0,
   descricao |-> SemTexto]

(* A debit that is accepted once and then refused, a transaction without   *)
(* tipo, and an extrato.                                                   *)
PedidosSistema == {Transacao("d", 2), Transacao("ausente", 1), Extrato1}

(* The requests that wait for one another: debits of one account, one of   *)
(* them refused with the row lock held (with MaxInt4 = 1), and an extrato. *)
PedidosVivo == {Transacao("d", 1), Transacao("d", 2), Extrato1}

Simetria == Permutations(Apis) \cup Permutations(Requisicoes)
=============================================================================
