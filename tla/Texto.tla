------------------------------- MODULE Texto -------------------------------
(***************************************************************************)
(* The description of a transaction as the code sees it, a string of       *)
(* bytes: the functions of src/src/util/string_util.c and what PostgreSQL  *)
(* makes of such a string.  A byte is known by its class:                  *)
(*   0        a continuation byte (10xxxxxx)                               *)
(*   1        a one-byte character other than the quote                    *)
(*   2, 3, 4  the first byte of a character of that many bytes             *)
(*                                                                         *)
(* The quote has no class: texts that hold one are outside the model.      *)
(* transacao_repo_insert_async pastes the text between quotes without      *)
(* escaping it, so what such a text does is decided by how SQL reads the   *)
(* rest of it: it may be refused, be stored as another text, or change     *)
(* which rows the message writes.  Nothing here speaks about it.           *)
(***************************************************************************)
EXTENDS Integers, Sequences, FiniteSets

Bytes == 0..4

string_util_utf8_strlen(s) == Cardinality({k \in DOMAIN s : s[k] # 0})

MutStrzcpyUmAMais(s, size) ==
  SubSeq(s, 1, IF Len(s) <= size + 1 THEN Len(s) ELSE size + 1)
(* strncpy and the terminator: the first size bytes, whatever they cut.    *)
strzcpy(s, size) == SubSeq(s, 1, IF Len(s) <= size THEN Len(s) ELSE size)

(* Characters one after the other, none cut short.                         *)
Utf8Valido(s) ==
  \A k \in DOMAIN s :
    /\ s[k] # 0 =>
         /\ k + s[k] - 1 <= Len(s)
         /\ \A j \in (k + 1)..(k + s[k] - 1) : s[j] = 0
    /\ s[k] = 0 => \E j \in 1..(k - 1) : s[j] > k - j
=============================================================================
