----------------------------- MODULE Entidades -----------------------------
(***************************************************************************)
(* The entities of the system: src/src/entity/cliente.h, transacao.h and   *)
(* the two tables of src/stack/init.sql.  A transaction is a credit ("c")  *)
(* or a debit ("d") of a positive amount on the account of one client.     *)
(***************************************************************************)
EXTENDS Texto, FiniteSetsExt

CONSTANTS
  Clientes,     \* the ids of the rows of table cliente
  Limite,       \* [Clientes -> Nat], the column cliente.limite: set by
                \* init.sql and never updated
  Valores,      \* the amounts a stored or queued transaction can have
  Textos,       \* the descriptions clients send, none with a quote
  TRANSACAO_DESCRICAO_LEN   \* characters of a description

ASSUME LimiteAssumption == Limite \in [Clientes -> Nat]
ASSUME ValoresAssumption == Valores \subseteq Nat \ {0}
(* jansson hands over valid UTF-8 only.  Texts with a quote are left out   *)
(* (see Texto): every property and theorem about messages, rows or         *)
(* balances is about clients that send none.                               *)
ASSUME TextosAssumption ==
  /\ TRANSACAO_DESCRICAO_LEN \in Nat
  /\ \A s \in Textos : s \in Seq(Bytes) /\ Utf8Valido(s)

Tipos == {"c", "d"}

(* The bytes of the field Transacao.descricao, and the descriptions it can *)
(* hold.                                                                   *)
UTF8_TRANSACAO_DESCRICAO_LEN == 2 * TRANSACAO_DESCRICAO_LEN
Descricoes == {strzcpy(s, UTF8_TRANSACAO_DESCRICAO_LEN) : s \in Textos}

(* What one transaction adds to cliente.saldo.                             *)
Efeito(t) == IF t.tipo = "c" THEN t.valor ELSE -t.valor

(* The rows of a set of transactions that belong to client c, and the      *)
(* credits minus the debits over a set of rows: the query that closes      *)
(* init.sql (r.credito - s.debito).                                        *)
DoCliente(T, c) == {t \in T : t.id_cliente = c}
Soma(T) == MapThenSumSet(Efeito, T)

(* The check constraint chk_saldo: saldo >= (-limite).                     *)
RespeitaLimite(c, s) == s >= -Limite[c]

=============================================================================
