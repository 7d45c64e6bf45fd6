----------------------------- MODULE MCPostgres -----------------------------
(* Instances of Postgres for TLC.                                          *)
EXTENDS Postgres, TLC

CONSTANTS k1, k2

(* With a limit of one character and two bytes: a good description, one    *)
(* that is cut inside its character and one too long for the column.       *)
TextosMC == {<<1>>, <<3, 0, 0>>, <<1, 1>>}

LimitesMC == 1 :> 1 @@ 2 :> 0
Simetria == Permutations(Conexoes)

(* A behaviour ends when every message has been sent and decided.          *)
Fim ==
  /\ enviados = MaxEnvios
  /\ \A k \in Conexoes : ~EmVoo(k)
  /\ UNCHANGED pgVars

MCSpec == PgInit /\ [][PgNext \/ Fim]_pgVars
=============================================================================
