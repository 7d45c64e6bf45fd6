--------------------------- MODULE PostgresProofs ---------------------------
(***************************************************************************)
(* Theorems about Postgres, for every set of connections and clients, all  *)
(* limits and amounts, and every bound on messages and crashes.            *)
(*                                                                         *)
(* The argument has four layers, each inductive over the one before:      *)
(*   Travas    a session's state, its message and the row locks agree, and *)
(*             what a session wrote but has not committed is the balance   *)
(*             of its locked row plus its own effect, within the limit;    *)
(*   Numeros   a message number is never reused, so every message is in    *)
(*             exactly one place;                                          *)
(*   Horas     the rows of one connection are older than what the          *)
(*             connection is doing now, in both of its orders;             *)
(*   Somas     the tables are finite and each balance is the sum of its    *)
(*             client's rows.                                              *)
(***************************************************************************)
EXTENDS Postgres, SomaProofs

(* A session has a message exactly while it executes one, and it is one    *)
(* that its own client sent.                                               *)
SessoesCoerentes ==
  \A k \in Conexoes :
    /\ EmVoo(k) <=> estado[k] \in {"recebida", "iniciada", "alterada"}
    /\ EmVoo(k) => cmd[k].via = k

(* The row a session holds has not moved since the session computed its    *)
(* new balance, which the constraint allows: no update is lost.            *)
VersaoTravada ==
  \A k \in Conexoes :
    estado[k] = "alterada" => versao[k] = NovoSaldo(k) /\ PassaChk(k)

Travas == TravaDisciplina /\ VersaoTravada /\ ChkSaldo

(* Every number in use was given out, and to one message only.             *)
NumerosEnviados ==
  /\ \A t \in transacao : t.num \in 1..enviados
  /\ \A k \in Conexoes : EmVoo(k) => cmd[k].num \in 1..enviados
  /\ \A p \in perdidas : p.num \in 1..enviados

NumerosUnicos ==
  /\ \A s, t \in transacao : s.num = t.num => s = t
  /\ \A j, k \in Conexoes :
       EmVoo(j) /\ EmVoo(k) /\ cmd[j].num = cmd[k].num => j = k
  /\ disco.transacao \subseteq transacao

Numeros == NumerosEnviados /\ NumerosUnicos /\ Conservacao

(* The rows of a connection were sent before, and began before, whatever   *)
(* the connection is executing now.                                        *)
RelogioAdiante ==
  /\ \A t \in transacao : t.realizada_em < relogio
  /\ \A k \in Conexoes :
       estado[k] \in {"iniciada", "alterada"} => inicio[k] < relogio

SessaoDepois ==
  \A t \in transacao : \A k \in Conexoes :
    t.via = k /\ EmVoo(k) =>
      /\ t.num < cmd[k].num
      /\ estado[k] \in {"iniciada", "alterada"} => t.realizada_em < inicio[k]

Horas == RelogioAdiante /\ SessaoDepois /\ OrdemPropria

-----------------------------------------------------------------------------
(* What a message adds to a balance, and the balance that results, are     *)
(* integers.                                                               *)
LEMMA EfeitoInt ==
  ASSUME NEW t \in Comandos
  PROVE  /\ t.valor \in Nat
         /\ Efeito(t) \in Int
<1>1. t.valor \in Valores
  BY DEF Comandos
<1>2. t.valor \in Nat
  BY <1>1, ValoresAssumption
<1>. QED BY <1>2 DEF Efeito

LEMMA ComandoEmVoo ==
  ASSUME PgTypeOK, NEW k \in Conexoes, EmVoo(k)
  PROVE  cmd[k] \in Comandos
  BY DEF PgTypeOK, EmVoo

(* What strzcpy copies of a string of bytes is a string of bytes.          *)
LEMMA StrzcpyTipo ==
  ASSUME NEW s \in Seq(Bytes), NEW size \in Nat
  PROVE  strzcpy(s, size) \in Seq(Bytes)
<1>1. CASE Len(s) <= size
  BY <1>1 DEF strzcpy
<1>2. CASE Len(s) > size
  BY <1>2 DEF strzcpy
<1>. QED BY <1>1, <1>2

LEMMA DescricoesTipo == Descricoes \subseteq Seq(Bytes)
  BY TextosAssumption, StrzcpyTipo
  DEF Descricoes, UTF8_TRANSACAO_DESCRICAO_LEN

(* The row a message leaves is a row of the table.                         *)
LEMMA NovaLinhaTipo ==
  ASSUME PgTypeOK, NEW k \in Conexoes, EmVoo(k)
  PROVE  NovaLinha(k) \in Linhas
<1>1. cmd[k] \in Comandos
  BY ComandoEmVoo
<1>2. /\ cmd[k].num \in Nat
      /\ cmd[k].id_cliente \in Clientes
      /\ cmd[k].tipo \in Tipos
      /\ cmd[k].valor \in Valores
      /\ cmd[k].descricao \in Seq(Bytes)
  BY <1>1, BoundsAssumption, DescricoesTipo DEF Comandos
<1>3. inicio[k] \in Nat
  BY DEF PgTypeOK
<1>. QED BY <1>2, <1>3 DEF NovaLinha, Linhas

-----------------------------------------------------------------------------
(* Layer 0: types, and the agreement of sessions with their messages.      *)
Coerente == PgTypeOK /\ SessoesCoerentes

LEMMA CoerenteInit == PgInit => Coerente
  BY DEF PgInit, Coerente, PgTypeOK, SessoesCoerentes, EmVoo, Estados

LEMMA CoerenteFalha ==
  ASSUME Coerente, NEW k \in Conexoes, NEW motivo \in Motivos, EmVoo(k),
         Falha(k, motivo)
  PROVE  Coerente'
<1>1. cmd[k].num \in Nat
  BY ComandoEmVoo, BoundsAssumption DEF Coerente, Comandos
<1>2. PgTypeOK'
  BY <1>1 DEF Coerente, PgTypeOK, Falha, Tabelas, Estados
<1>3. SessoesCoerentes'
  BY DEF Coerente, PgTypeOK, SessoesCoerentes, EmVoo, Falha
<1>. QED BY <1>2, <1>3 DEF Coerente

LEMMA CoerentePasso ==
  ASSUME Coerente, [PgNext]_pgVars
  PROVE  Coerente'
<1>1. ASSUME NEW k \in Conexoes, NEW t \in Comandos, Recebe(k, t)
      PROVE  Coerente'
  <2>1. t.num \in Nat /\ t.via \in Conexoes
    BY BoundsAssumption DEF Comandos
  <2>2. PgTypeOK'
    BY <1>1, <2>1 DEF Coerente, PgTypeOK, Recebe, Tabelas, Estados
  <2>3. SessoesCoerentes'
    BY <1>1, SemComandoAssumption
    DEF Coerente, PgTypeOK, SessoesCoerentes, EmVoo, Recebe
  <2>. QED BY <2>2, <2>3 DEF Coerente
<1>2. ASSUME NEW k \in Conexoes, NEW t \in Comandos, Descarta(k, t)
      PROVE  Coerente'
  <2>1. t.num \in Nat
    BY BoundsAssumption DEF Comandos
  <2>2. PgTypeOK'
    BY <1>2, <2>1 DEF Coerente, PgTypeOK, Descarta, Tabelas, Motivos
  <2>3. SessoesCoerentes'
    BY <1>2 DEF Coerente, SessoesCoerentes, EmVoo, Descarta
  <2>. QED BY <2>2, <2>3 DEF Coerente
<1>3. ASSUME NEW k \in Conexoes, RecusaTexto(k)
      PROVE  Coerente'
  BY <1>3, CoerenteFalha
  DEF RecusaTexto, Coerente, SessoesCoerentes, Motivos
<1>4. ASSUME NEW k \in Conexoes, Inicia(k)
      PROVE  Coerente'
  <2>1. PgTypeOK'
    BY <1>4 DEF Coerente, PgTypeOK, Inicia, Tabelas, Estados
  <2>2. SessoesCoerentes'
    BY <1>4 DEF Coerente, PgTypeOK, SessoesCoerentes, EmVoo, Inicia
  <2>. QED BY <2>1, <2>2 DEF Coerente
<1>5. ASSUME NEW k \in Conexoes, RecusaBigint(k) \/ RecusaSaldo(k)
      PROVE  Coerente'
  BY <1>5, CoerenteFalha
  DEF RecusaBigint, RecusaSaldo, Coerente, SessoesCoerentes, Motivos
<1>6. ASSUME NEW k \in Conexoes, Atualiza(k)
      PROVE  Coerente'
  <2>1. EmVoo(k) /\ cmd[k] \in Comandos
    BY <1>6, ComandoEmVoo DEF Atualiza, Coerente, SessoesCoerentes
  <2>2. cmd[k].id_cliente \in Clientes
    BY <2>1 DEF Comandos
  <2>3. NovoSaldo(k) \in Int
    BY <2>1, <2>2, EfeitoInt DEF NovoSaldo, Coerente, PgTypeOK
  <2>4. PgTypeOK'
    BY <1>6, <2>2, <2>3 DEF Coerente, PgTypeOK, Atualiza, Tabelas, Estados
  <2>5. SessoesCoerentes'
    BY <1>6 DEF Coerente, PgTypeOK, SessoesCoerentes, EmVoo, Atualiza
  <2>. QED BY <2>4, <2>5 DEF Coerente
<1>7. ASSUME NEW k \in Conexoes, RecusaValor(k)
      PROVE  Coerente'
  BY <1>7, CoerenteFalha
  DEF RecusaValor, Coerente, SessoesCoerentes, Motivos
<1>8. ASSUME NEW k \in Conexoes, Grava(k)
      PROVE  Coerente'
  <2>1. EmVoo(k) /\ cmd[k] \in Comandos
    BY <1>8, ComandoEmVoo DEF Grava, Coerente, SessoesCoerentes
  <2>2. NovaLinha(k) \in Linhas
    BY <2>1, NovaLinhaTipo DEF Coerente
  <2>3. transacao' \subseteq Linhas
    BY <1>8, <2>2 DEF Coerente, PgTypeOK, Grava
  <2>4. saldo' \in [Clientes -> Int] /\ trava' \in [Clientes -> Conexoes \cup {Livre}]
    BY <1>8 DEF Coerente, PgTypeOK, Grava
  <2>5. PgTypeOK'
    BY <1>8, <2>3, <2>4 DEF Coerente, PgTypeOK, Grava, Estados
  <2>6. SessoesCoerentes'
    BY <1>8 DEF Coerente, PgTypeOK, SessoesCoerentes, EmVoo, Grava
  <2>. QED BY <2>5, <2>6 DEF Coerente
<1>9. ASSUME NEW k \in Conexoes, Reconecta(k)
      PROVE  Coerente'
  <2>1. PgTypeOK'
    BY <1>9 DEF Coerente, PgTypeOK, Reconecta, Tabelas, Estados
  <2>2. SessoesCoerentes'
    BY <1>9 DEF Coerente, PgTypeOK, SessoesCoerentes, EmVoo, Reconecta
  <2>. QED BY <2>1, <2>2 DEF Coerente
<1>10. ASSUME Descarrega
       PROVE  Coerente'
  BY <1>10 DEF Coerente, PgTypeOK, SessoesCoerentes, EmVoo, Descarrega
<1>11. ASSUME Queda
       PROVE  Coerente'
  <2>1. \A t \in transacao : t.num \in Nat
    BY DEF Coerente, PgTypeOK, Linhas
  <2>2. \A k \in Conexoes : EmVoo(k) => cmd[k].num \in Nat
    BY ComandoEmVoo, BoundsAssumption DEF Coerente, Comandos
  <2>3. perdidas' \subseteq [num : Nat, motivo : Motivos]
    BY <1>11, <2>1, <2>2 DEF Queda, Coerente, PgTypeOK, Motivos
  <2>4. PgTypeOK'
    BY <1>11, <2>3 DEF Coerente, PgTypeOK, Queda, Estados
  <2>5. SessoesCoerentes'
    BY <1>11 DEF SessoesCoerentes, EmVoo, Queda
  <2>. QED BY <2>4, <2>5 DEF Coerente
<1>12. CASE UNCHANGED pgVars
  BY <1>12 DEF Coerente, PgTypeOK, SessoesCoerentes, EmVoo, pgVars
<1>. QED
  BY <1>1, <1>2, <1>3, <1>4, <1>5, <1>6, <1>7, <1>8, <1>9, <1>10, <1>11, <1>12
  DEF PgNext, Executa, Pede

(* Type correctness: in every reachable state of the database the tables,  *)
(* the locks and the sessions hold values of their types.                  *)
THEOREM PgTipos == PgSpec => []PgTypeOK
<1>1. PgInit => Coerente
  BY CoerenteInit
<1>2. Coerente /\ [PgNext]_pgVars => Coerente'
  BY CoerentePasso
<1>3. Coerente => PgTypeOK
  BY DEF Coerente
<1>. QED BY <1>1, <1>2, <1>3, PTL DEF PgSpec

-----------------------------------------------------------------------------
(* Layer 1: locks, uncommitted balances and the limit.                     *)
LEMMA TravasInit == PgInit => Travas
<1>. SUFFICES ASSUME PgInit PROVE Travas
  OBVIOUS
<1>1. \A c \in Clientes : 0 >= -Limite[c]
  BY LimiteAssumption
<1>. QED
  BY <1>1, LivreAssumption
  DEF PgInit, Travas, TravaDisciplina, VersaoTravada, ChkSaldo, RespeitaLimite

LEMMA TravasFalha ==
  ASSUME Coerente, Travas, NEW k \in Conexoes, NEW motivo, Falha(k, motivo)
  PROVE  Travas'
<1>1. TravaDisciplina'
  BY LivreAssumption DEF Coerente, PgTypeOK, Travas, TravaDisciplina, Falha
<1>2. VersaoTravada'
  <2>. SUFFICES ASSUME NEW j \in Conexoes, estado'[j] = "alterada"
                PROVE  (versao[j] = NovoSaldo(j) /\ PassaChk(j))'
    BY DEF VersaoTravada
  <2>1. j # k
    BY DEF Falha, Coerente, PgTypeOK
  <2>2. estado[j] = "alterada" /\ cmd'[j] = cmd[j] /\ versao'[j] = versao[j]
    BY <2>1 DEF Falha, Coerente, PgTypeOK
  <2>. QED
    BY <2>2 DEF Travas, VersaoTravada, NovoSaldo, PassaChk, Falha, Tabelas
<1>3. ChkSaldo'
  BY DEF Travas, ChkSaldo, Falha, Tabelas
<1>. QED BY <1>1, <1>2, <1>3 DEF Travas

LEMMA TravasPasso ==
  ASSUME Coerente, Travas, [PgNext]_pgVars
  PROVE  Travas'
<1>. USE DEF Travas, Coerente
<1>1. ASSUME NEW k \in Conexoes, NEW t \in Comandos, Recebe(k, t)
      PROVE  Travas'
  <2>1. TravaDisciplina'
    BY <1>1 DEF PgTypeOK, TravaDisciplina, Recebe
  <2>2. VersaoTravada'
    BY <1>1 DEF PgTypeOK, VersaoTravada, NovoSaldo, PassaChk, Recebe, Tabelas
  <2>. QED BY <1>1, <2>1, <2>2 DEF ChkSaldo, Recebe, Tabelas
<1>2. ASSUME NEW k \in Conexoes, NEW t \in Comandos, Descarta(k, t)
      PROVE  Travas'
  BY <1>2 DEF TravaDisciplina, VersaoTravada, ChkSaldo, NovoSaldo, PassaChk,
              Descarta, Tabelas
<1>3. ASSUME NEW k \in Conexoes, RecusaTexto(k)
      PROVE  Travas'
  BY <1>3, TravasFalha DEF RecusaTexto
<1>4. ASSUME NEW k \in Conexoes, Inicia(k)
      PROVE  Travas'
  BY <1>4 DEF PgTypeOK, TravaDisciplina, VersaoTravada, ChkSaldo, NovoSaldo,
              PassaChk, Inicia, Tabelas
<1>5. ASSUME NEW k \in Conexoes, RecusaBigint(k) \/ RecusaSaldo(k)
      PROVE  Travas'
  BY <1>5, TravasFalha DEF RecusaBigint, RecusaSaldo
<1>6. ASSUME NEW k \in Conexoes, Atualiza(k)
      PROVE  Travas'
  <2>1. cmd[k].id_cliente \in Clientes
    BY <1>6, ComandoEmVoo DEF Atualiza, SessoesCoerentes, Comandos
  <2>2. TravaDisciplina'
    BY <1>6, <2>1, LivreAssumption DEF PgTypeOK, TravaDisciplina, Atualiza
  <2>3. VersaoTravada'
    BY <1>6 DEF PgTypeOK, VersaoTravada, NovoSaldo, PassaChk, Atualiza, Tabelas
  <2>. QED BY <1>6, <2>2, <2>3 DEF ChkSaldo, Atualiza, Tabelas
<1>7. ASSUME NEW k \in Conexoes, RecusaValor(k)
      PROVE  Travas'
  BY <1>7, TravasFalha DEF RecusaValor
<1>8. ASSUME NEW k \in Conexoes, Grava(k)
      PROVE  Travas'
  <2>. DEFINE c == cmd[k].id_cliente
  <2>1. c \in Clientes
    BY <1>8, ComandoEmVoo DEF Grava, SessoesCoerentes, Comandos
  <2>2. trava[c] = k
    BY <1>8, <2>1 DEF Grava, TravaDisciplina
  <2>3. TravaDisciplina'
    BY <1>8, <2>1, <2>2, LivreAssumption DEF PgTypeOK, TravaDisciplina, Grava
  <2>4. VersaoTravada'
    (* Another session that has written holds another row.                 *)
    <3>. SUFFICES ASSUME NEW j \in Conexoes, estado'[j] = "alterada"
                  PROVE  (versao[j] = NovoSaldo(j) /\ PassaChk(j))'
      BY DEF VersaoTravada
    <3>1. j # k
      BY <1>8 DEF Grava, PgTypeOK
    <3>2. estado[j] = "alterada" /\ cmd'[j] = cmd[j] /\ versao'[j] = versao[j]
      BY <1>8, <3>1 DEF Grava, PgTypeOK
    <3>3. cmd[j].id_cliente \in Clientes
      BY <3>2, ComandoEmVoo DEF SessoesCoerentes, Comandos
    <3>4. cmd[j].id_cliente # c
      BY <3>1, <3>2, <3>3, <2>2 DEF TravaDisciplina
    <3>5. saldo'[cmd[j].id_cliente] = saldo[cmd[j].id_cliente]
      BY <1>8, <3>3, <3>4 DEF Grava, PgTypeOK
    <3>. QED
      BY <3>2, <3>5 DEF VersaoTravada, NovoSaldo, PassaChk
  <2>5. RespeitaLimite(c, versao[k])
    BY <1>8 DEF Grava, VersaoTravada, PassaChk
  <2>6. ChkSaldo'
    BY <1>8, <2>1, <2>5 DEF PgTypeOK, ChkSaldo, Grava
  <2>. QED BY <2>3, <2>4, <2>6
<1>9. ASSUME NEW k \in Conexoes, Reconecta(k)
      PROVE  Travas'
  BY <1>9 DEF PgTypeOK, TravaDisciplina, VersaoTravada, ChkSaldo, NovoSaldo,
              PassaChk, Reconecta, Tabelas
<1>10. ASSUME Descarrega
       PROVE  Travas'
  BY <1>10 DEF TravaDisciplina, VersaoTravada, ChkSaldo, NovoSaldo, PassaChk,
               Descarrega
<1>11. ASSUME Queda
       PROVE  Travas'
  BY <1>11, LivreAssumption
  DEF TravaDisciplina, VersaoTravada, ChkSaldo, Queda
<1>12. CASE UNCHANGED pgVars
  BY <1>12 DEF TravaDisciplina, VersaoTravada, ChkSaldo, NovoSaldo, PassaChk,
               pgVars
<1>. QED
  BY <1>1, <1>2, <1>3, <1>4, <1>5, <1>6, <1>7, <1>8, <1>9, <1>10, <1>11, <1>12
  DEF PgNext, Executa, Pede

LEMMA PgTravas == PgSpec => [](Coerente /\ Travas)
<1>1. PgInit => Coerente /\ Travas
  BY CoerenteInit, TravasInit
<1>2. Coerente /\ Travas /\ [PgNext]_pgVars => (Coerente /\ Travas)'
  BY CoerentePasso, TravasPasso
<1>. QED BY <1>1, <1>2, PTL DEF PgSpec

(* No balance, committed or preserved on disk, is ever below minus the     *)
(* limit of its client, whatever the sessions do at the same time and      *)
(* whenever the server crashes: chk_saldo of init.sql.                     *)
THEOREM PgChkSaldo == PgSpec => []ChkSaldo
<1>1. Travas => ChkSaldo
  BY DEF Travas
<1>. QED BY <1>1, PgTravas, PTL

(* A row is locked exactly by the session whose uncommitted update it      *)
(* carries: the implicit transaction of a message never leaks its lock.    *)
THEOREM PgTravaDisciplina == PgSpec => []TravaDisciplina
<1>1. Travas => TravaDisciplina
  BY DEF Travas
<1>. QED BY <1>1, PgTravas, PTL

-----------------------------------------------------------------------------
(* Layer 2: every message is in one place.                                 *)
LEMMA NumerosInit == PgInit => Numeros
  BY DEF PgInit, Numeros, NumerosEnviados, NumerosUnicos, Conservacao, EmVoo

LEMMA NumerosFalha ==
  ASSUME Coerente, Numeros, NEW k \in Conexoes, NEW motivo, EmVoo(k),
         Falha(k, motivo)
  PROVE  Numeros'
<1>. USE DEF Numeros
<1>. DEFINE p == [num |-> cmd[k].num, motivo |-> motivo]
<1>1. /\ cmd'[k] = SemComando
      /\ \A j \in Conexoes : j # k => cmd'[j] = cmd[j]
      /\ UNCHANGED <<transacao, disco, enviados>>
      /\ perdidas' = perdidas \cup {p}
      /\ p.num = cmd[k].num
  BY DEF Falha, Coerente, PgTypeOK, Tabelas
<1>2. \A j \in Conexoes : EmVoo(j)' => j # k /\ EmVoo(j) /\ cmd'[j] = cmd[j]
  BY <1>1 DEF EmVoo
<1>3. NumerosEnviados'
  BY <1>1, <1>2 DEF NumerosEnviados
<1>4. NumerosUnicos'
  BY <1>1, <1>2 DEF NumerosUnicos
<1>5. Conservacao'
  <2>. SUFFICES ASSUME NEW n \in 1..enviados
                PROVE  /\ Gravada(n)' \/ NaSessao(n)' \/ Perdida(n)'
                       /\ ~(Gravada(n)' /\ NaSessao(n)')
                       /\ ~(Gravada(n)' /\ Perdida(n)')
                       /\ ~(NaSessao(n)' /\ Perdida(n)')
    BY <1>1 DEF Conservacao
  <2>1. Gravada(n)' <=> Gravada(n)
    BY <1>1 DEF Gravada
  <2>2. NaSessao(n)' <=> NaSessao(n) /\ n # cmd[k].num
    <3>1. NaSessao(n)' => NaSessao(n) /\ n # cmd[k].num
      BY <1>2 DEF NaSessao, NumerosUnicos
    <3>2. NaSessao(n) /\ n # cmd[k].num => NaSessao(n)'
      BY <1>1 DEF NaSessao, EmVoo
    <3>. QED BY <3>1, <3>2
  <2>3. Perdida(n)' <=> Perdida(n) \/ n = cmd[k].num
    BY <1>1 DEF Perdida
  <2>4. n = cmd[k].num => NaSessao(n)
    BY DEF NaSessao
  <2>. QED BY <2>1, <2>2, <2>3, <2>4 DEF Conservacao
<1>. QED BY <1>3, <1>4, <1>5

(* Steps that leave rows, messages and losses alone.                       *)
LEMMA NumerosQuadro ==
  ASSUME Numeros, UNCHANGED <<transacao, cmd, perdidas, enviados>>,
         disco'.transacao \subseteq transacao
  PROVE  Numeros'
  BY DEF Numeros, NumerosEnviados, NumerosUnicos, Conservacao, Gravada,
         NaSessao, Perdida, EmVoo

(* A new message takes a number nobody has, and goes to one place.         *)
LEMMA NumerosRecebe ==
  ASSUME Coerente, Numeros, NEW k \in Conexoes, NEW t \in Comandos,
         Recebe(k, t)
  PROVE  Numeros'
<1>. USE DEF Numeros
<1>1. /\ enviados \in Nat
      /\ enviados' = enviados + 1
      /\ t.num = enviados'
      /\ UNCHANGED <<transacao, disco, perdidas>>
  BY DEF Recebe, Tabelas, Coerente, PgTypeOK
<1>2. /\ cmd'[k] = t
      /\ \A j \in Conexoes : j # k => cmd'[j] = cmd[j]
      /\ ~EmVoo(k)
      /\ EmVoo(k)'
  BY SemComandoAssumption
  DEF Recebe, Coerente, PgTypeOK, SessoesCoerentes, EmVoo
<1>3. NumerosEnviados'
  BY <1>1, <1>2 DEF NumerosEnviados, EmVoo
<1>4. NumerosUnicos'
  BY <1>1, <1>2 DEF NumerosUnicos, NumerosEnviados, EmVoo
<1>5. Conservacao'
  <2>. SUFFICES ASSUME NEW n \in 1..enviados'
                PROVE  /\ Gravada(n)' \/ NaSessao(n)' \/ Perdida(n)'
                       /\ ~(Gravada(n)' /\ NaSessao(n)')
                       /\ ~(Gravada(n)' /\ Perdida(n)')
                       /\ ~(NaSessao(n)' /\ Perdida(n)')
    BY DEF Conservacao
  <2>1. Gravada(n)' <=> Gravada(n)
    BY <1>1 DEF Gravada
  <2>2. Perdida(n)' <=> Perdida(n)
    BY <1>1 DEF Perdida
  <2>3. NaSessao(n)' <=> NaSessao(n) \/ n = enviados'
    BY <1>1, <1>2 DEF NaSessao, EmVoo
  <2>4. CASE n = enviados'
    BY <1>1, <2>1, <2>2, <2>3, <2>4 DEF NumerosEnviados, Gravada, Perdida
  <2>5. CASE n \in 1..enviados
    BY <2>1, <2>2, <2>3, <2>5, <1>1 DEF Conservacao
  <2>. QED BY <2>4, <2>5, <1>1
<1>. QED BY <1>3, <1>4, <1>5

LEMMA NumerosDescarta ==
  ASSUME Coerente, Numeros, NEW k \in Conexoes, NEW t \in Comandos,
         Descarta(k, t)
  PROVE  Numeros'
<1>. USE DEF Numeros
<1>1. /\ enviados \in Nat
      /\ enviados' = enviados + 1
      /\ UNCHANGED <<transacao, disco, cmd>>
  BY DEF Descarta, Tabelas, Coerente, PgTypeOK
<1>2. ASSUME NEW n
      PROVE  Perdida(n)' <=> Perdida(n) \/ n = enviados'
  <2>. DEFINE p == [num |-> t.num, motivo |-> "queda"]
  <2>1. perdidas' = perdidas \cup {p} /\ p.num = enviados'
    BY DEF Descarta
  <2>. QED BY <2>1 DEF Perdida
<1>3. NumerosEnviados'
  BY <1>1 DEF NumerosEnviados, EmVoo, Descarta
<1>4. NumerosUnicos'
  BY <1>1 DEF NumerosUnicos, EmVoo
<1>5. Conservacao'
  <2>. SUFFICES ASSUME NEW n \in 1..enviados'
                PROVE  /\ Gravada(n)' \/ NaSessao(n)' \/ Perdida(n)'
                       /\ ~(Gravada(n)' /\ NaSessao(n)')
                       /\ ~(Gravada(n)' /\ Perdida(n)')
                       /\ ~(NaSessao(n)' /\ Perdida(n)')
    BY DEF Conservacao
  <2>1. Gravada(n)' <=> Gravada(n)
    BY <1>1 DEF Gravada
  <2>2. NaSessao(n)' <=> NaSessao(n)
    BY <1>1 DEF NaSessao, EmVoo
  <2>3. CASE n = enviados'
    BY <1>1, <1>2, <2>1, <2>2, <2>3 DEF NumerosEnviados, Gravada, NaSessao
  <2>4. CASE n \in 1..enviados
    BY <1>1, <1>2, <2>1, <2>2, <2>4 DEF Conservacao
  <2>. QED BY <2>3, <2>4, <1>1
<1>. QED BY <1>3, <1>4, <1>5

(* A commit turns a message into a row with its number.                    *)
LEMMA NumerosGrava ==
  ASSUME Coerente, Numeros, NEW k \in Conexoes, Grava(k)
  PROVE  Numeros'
<1>. USE DEF Numeros
<1>1. EmVoo(k)
  BY DEF Grava, Coerente, SessoesCoerentes
<1>2. /\ cmd'[k] = SemComando
      /\ \A j \in Conexoes : j # k => cmd'[j] = cmd[j]
      /\ UNCHANGED <<disco, enviados, perdidas>>
      /\ transacao' = transacao \cup {NovaLinha(k)}
      /\ NovaLinha(k).num = cmd[k].num
  BY DEF Grava, NovaLinha, Coerente, PgTypeOK
<1>3. \A j \in Conexoes : EmVoo(j)' => j # k /\ EmVoo(j) /\ cmd'[j] = cmd[j]
  BY <1>2 DEF EmVoo
<1>4. NaSessao(cmd[k].num) /\ ~Gravada(cmd[k].num)
  BY <1>1 DEF NaSessao, NumerosEnviados, Conservacao
<1>5. NumerosEnviados'
  BY <1>1, <1>2, <1>3 DEF NumerosEnviados
<1>6. NumerosUnicos'
  BY <1>2, <1>3, <1>4 DEF NumerosUnicos, Gravada
<1>7. Conservacao'
  <2>. SUFFICES ASSUME NEW n \in 1..enviados
                PROVE  /\ Gravada(n)' \/ NaSessao(n)' \/ Perdida(n)'
                       /\ ~(Gravada(n)' /\ NaSessao(n)')
                       /\ ~(Gravada(n)' /\ Perdida(n)')
                       /\ ~(NaSessao(n)' /\ Perdida(n)')
    BY <1>2 DEF Conservacao
  <2>1. Gravada(n)' <=> Gravada(n) \/ n = cmd[k].num
    BY <1>2 DEF Gravada
  <2>2. NaSessao(n)' <=> NaSessao(n) /\ n # cmd[k].num
    <3>1. NaSessao(n)' => NaSessao(n) /\ n # cmd[k].num
      BY <1>1, <1>3 DEF NaSessao, NumerosUnicos
    <3>2. NaSessao(n) /\ n # cmd[k].num => NaSessao(n)'
      BY <1>2 DEF NaSessao, EmVoo
    <3>. QED BY <3>1, <3>2
  <2>3. Perdida(n)' <=> Perdida(n)
    BY <1>2 DEF Perdida
  <2>. QED BY <1>4, <2>1, <2>2, <2>3 DEF Conservacao
<1>. QED BY <1>5, <1>6, <1>7

(* A crash moves what is not on disk, rows and messages, to the losses.    *)
LEMMA NumerosQueda ==
  ASSUME Coerente, Numeros, Queda
  PROVE  Numeros'
<1>. USE DEF Numeros
<1>1. /\ transacao' = disco.transacao
      /\ UNCHANGED <<disco, enviados>>
      /\ \A k \in Conexoes : ~EmVoo(k)'
      /\ disco.transacao \subseteq transacao
  BY DEF Queda, EmVoo, NumerosUnicos
<1>2. ASSUME NEW n
      PROVE  Perdida(n)' <=>
               \/ Perdida(n)
               \/ NaSessao(n)
               \/ \E t \in transacao \ disco.transacao : t.num = n
  <2>. DEFINE apagadas ==
         {t.num : t \in transacao \ disco.transacao}
           \cup {cmd[k].num : k \in {j \in Conexoes : EmVoo(j)}}
  <2>1. perdidas' =
          perdidas \cup {[num |-> m, motivo |-> "queda"] : m \in apagadas}
    BY DEF Queda
  <2>2. Perdida(n)' <=> Perdida(n) \/ n \in apagadas
    <3>. HIDE DEF apagadas
    <3>1. ASSUME n \in apagadas
          PROVE  Perdida(n)'
      <4>. DEFINE q == [num |-> n, motivo |-> "queda"]
      <4>1. q \in perdidas' /\ q.num = n
        BY <2>1, <3>1
      <4>. QED BY <4>1 DEF Perdida
    <3>2. ASSUME Perdida(n)'
          PROVE  Perdida(n) \/ n \in apagadas
      <4>1. PICK q \in perdidas' : q.num = n
        BY <3>2 DEF Perdida
      <4>2. CASE q \in perdidas
        BY <4>1, <4>2 DEF Perdida
      <4>3. CASE \E m \in apagadas : q = [num |-> m, motivo |-> "queda"]
        BY <4>1, <4>3
      <4>. QED BY <2>1, <4>2, <4>3
    <3>3. Perdida(n) => Perdida(n)'
      BY <2>1 DEF Perdida
    <3>. QED BY <3>1, <3>2, <3>3
  <2>. QED BY <2>2 DEF NaSessao
<1>3. \A n : Gravada(n)' <=> \E t \in disco.transacao : t.num = n
  BY <1>1 DEF Gravada
<1>4. \A n : ~NaSessao(n)'
  BY <1>1 DEF NaSessao
<1>5. NumerosEnviados'
  BY <1>1 DEF NumerosEnviados, Queda
<1>6. NumerosUnicos'
  BY <1>1 DEF NumerosUnicos
<1>7. Conservacao'
  BY <1>1, <1>2, <1>3, <1>4 DEF Conservacao, Gravada, NumerosUnicos
<1>. QED BY <1>5, <1>6, <1>7

LEMMA NumerosPasso ==
  ASSUME Coerente, Numeros, [PgNext]_pgVars
  PROVE  Numeros'
<1>0. disco.transacao \subseteq transacao
  BY DEF Numeros, NumerosUnicos
<1>1. ASSUME NEW k \in Conexoes, NEW t \in Comandos, Recebe(k, t)
      PROVE  Numeros'
  BY <1>1, NumerosRecebe
<1>2. ASSUME NEW k \in Conexoes, NEW t \in Comandos, Descarta(k, t)
      PROVE  Numeros'
  BY <1>2, NumerosDescarta
<1>3. ASSUME NEW k \in Conexoes, RecusaTexto(k)
      PROVE  Numeros'
  BY <1>3, NumerosFalha DEF RecusaTexto, Coerente, SessoesCoerentes
<1>4. ASSUME NEW k \in Conexoes, Inicia(k)
      PROVE  Numeros'
  BY <1>0, <1>4, NumerosQuadro DEF Inicia, Tabelas
<1>5. ASSUME NEW k \in Conexoes, RecusaBigint(k) \/ RecusaSaldo(k)
      PROVE  Numeros'
  BY <1>5, NumerosFalha DEF RecusaBigint, RecusaSaldo, Coerente, SessoesCoerentes
<1>6. ASSUME NEW k \in Conexoes, Atualiza(k)
      PROVE  Numeros'
  BY <1>0, <1>6, NumerosQuadro DEF Atualiza, Tabelas
<1>7. ASSUME NEW k \in Conexoes, RecusaValor(k)
      PROVE  Numeros'
  BY <1>7, NumerosFalha DEF RecusaValor, Coerente, SessoesCoerentes
<1>8. ASSUME NEW k \in Conexoes, Grava(k)
      PROVE  Numeros'
  BY <1>8, NumerosGrava
<1>9. ASSUME NEW k \in Conexoes, Reconecta(k)
      PROVE  Numeros'
  BY <1>0, <1>9, NumerosQuadro DEF Reconecta, Tabelas
<1>10. ASSUME Descarrega
       PROVE  Numeros'
  BY <1>10, NumerosQuadro DEF Descarrega
<1>11. ASSUME Queda
       PROVE  Numeros'
  BY <1>11, NumerosQueda
<1>12. CASE UNCHANGED pgVars
  BY <1>0, <1>12, NumerosQuadro DEF pgVars
<1>. QED
  BY <1>1, <1>2, <1>3, <1>4, <1>5, <1>6, <1>7, <1>8, <1>9, <1>10, <1>11, <1>12
  DEF PgNext, Executa, Pede

(* Every message an API process handed to the server is, for ever after,   *)
(* in exactly one place: in the table, in a session, or lost for good.     *)
THEOREM PgConservacao == PgSpec => []Conservacao
<1>1. PgInit => Coerente /\ Numeros
  BY CoerenteInit, NumerosInit
<1>2. Coerente /\ Numeros /\ [PgNext]_pgVars => (Coerente /\ Numeros)'
  BY CoerentePasso, NumerosPasso
<1>3. Numeros => Conservacao
  BY DEF Numeros
<1>. QED BY <1>1, <1>2, <1>3, PTL DEF PgSpec

-----------------------------------------------------------------------------
(* Layer 3: the two orders of the rows of one connection.                  *)
LEMMA HorasInit == PgInit => Horas
  BY DEF PgInit, Horas, RelogioAdiante, SessaoDepois, OrdemPropria

(* Steps after which there is no new row, no session further on, and no    *)
(* earlier clock.                                                          *)
LEMMA HorasQuadro ==
  ASSUME Coerente, Horas, transacao' \subseteq transacao,
         UNCHANGED <<inicio, relogio>>,
         \A k \in Conexoes :
           \/ ~EmVoo(k)' /\ estado'[k] \notin {"iniciada", "alterada"}
           \/ /\ EmVoo(k) /\ cmd'[k] = cmd[k]
              /\ estado'[k] \in {"iniciada", "alterada"} =>
                   estado[k] \in {"iniciada", "alterada"}
  PROVE  Horas'
<1>. USE DEF Horas
<1>1. RelogioAdiante'
  BY DEF RelogioAdiante
<1>2. SessaoDepois'
  BY DEF SessaoDepois, EmVoo
<1>3. OrdemPropria'
  BY DEF OrdemPropria
<1>. QED BY <1>1, <1>2, <1>3

LEMMA HorasFalha ==
  ASSUME Coerente, Horas, NEW k \in Conexoes, NEW motivo, Falha(k, motivo)
  PROVE  Horas'
<1>1. \A j \in Conexoes :
        IF j = k THEN ~EmVoo(j)' /\ estado'[j] = "ociosa"
                 ELSE cmd'[j] = cmd[j] /\ estado'[j] = estado[j]
  BY DEF Falha, Coerente, PgTypeOK, EmVoo
<1>. QED
  BY <1>1, HorasQuadro DEF Falha, Tabelas, Coerente, SessoesCoerentes, EmVoo

LEMMA HorasPasso ==
  ASSUME Coerente, Numeros, Horas, [PgNext]_pgVars
  PROVE  Horas'
<1>. USE DEF Horas
<1>0. /\ relogio \in Nat
      /\ enviados \in Nat
      /\ \A t \in transacao : t.realizada_em \in Nat /\ t.num \in Nat
      /\ \A k \in Conexoes : inicio[k] \in Nat
  BY DEF Coerente, PgTypeOK, Linhas
<1>1. ASSUME NEW k \in Conexoes, NEW t \in Comandos, Recebe(k, t)
      PROVE  Horas'
  <2>1. /\ UNCHANGED <<transacao, inicio, relogio>>
        /\ estado'[k] = "recebida" /\ cmd'[k] = t /\ t.num = enviados + 1
        /\ \A j \in Conexoes : j # k => cmd'[j] = cmd[j] /\ estado'[j] = estado[j]
    BY <1>1 DEF Recebe, Tabelas, Coerente, PgTypeOK
  <2>2. RelogioAdiante'
    BY <2>1 DEF RelogioAdiante
  <2>3. SessaoDepois'
    BY <1>0, <2>1 DEF SessaoDepois, EmVoo, Numeros, NumerosEnviados
  <2>. QED BY <2>1, <2>2, <2>3 DEF OrdemPropria
<1>2. ASSUME NEW k \in Conexoes, NEW t \in Comandos, Descarta(k, t)
      PROVE  Horas'
  BY <1>2 DEF Descarta, Tabelas, RelogioAdiante, SessaoDepois, OrdemPropria,
              EmVoo
<1>3. ASSUME NEW k \in Conexoes, RecusaTexto(k)
      PROVE  Horas'
  BY <1>3, HorasFalha DEF RecusaTexto
<1>4. ASSUME NEW k \in Conexoes, Inicia(k)
      PROVE  Horas'
  <2>1. /\ UNCHANGED <<transacao, cmd>>
        /\ relogio' = relogio + 1
        /\ inicio'[k] = relogio
        /\ \A j \in Conexoes :
              j # k => inicio'[j] = inicio[j] /\ estado'[j] = estado[j]
    BY <1>4 DEF Inicia, Tabelas, Coerente, PgTypeOK
  <2>2. RelogioAdiante'
    BY <1>0, <2>1 DEF RelogioAdiante
  <2>3. SessaoDepois'
    BY <2>1 DEF SessaoDepois, RelogioAdiante, EmVoo
  <2>. QED BY <2>1, <2>2, <2>3 DEF OrdemPropria
<1>5. ASSUME NEW k \in Conexoes, RecusaBigint(k) \/ RecusaSaldo(k)
      PROVE  Horas'
  BY <1>5, HorasFalha DEF RecusaBigint, RecusaSaldo
<1>6. ASSUME NEW k \in Conexoes, Atualiza(k)
      PROVE  Horas'
  <2>1. /\ UNCHANGED <<transacao, cmd, inicio, relogio>>
        /\ estado[k] = "iniciada"
        /\ \A j \in Conexoes : j # k => estado'[j] = estado[j]
    BY <1>6 DEF Atualiza, Tabelas, Coerente, PgTypeOK
  <2>2. RelogioAdiante'
    BY <2>1 DEF RelogioAdiante
  <2>3. SessaoDepois'
    BY <2>1 DEF SessaoDepois, EmVoo
  <2>. QED BY <2>1, <2>2, <2>3 DEF OrdemPropria
<1>7. ASSUME NEW k \in Conexoes, RecusaValor(k)
      PROVE  Horas'
  BY <1>7, HorasFalha DEF RecusaValor
<1>8. ASSUME NEW k \in Conexoes, Grava(k)
      PROVE  Horas'
  <2>. DEFINE n == NovaLinha(k)
  <2>1. /\ UNCHANGED <<inicio, relogio>>
        /\ transacao' = transacao \cup {n}
        /\ estado[k] = "alterada" /\ EmVoo(k)
        /\ estado'[k] = "ociosa" /\ ~EmVoo(k)'
        /\ \A j \in Conexoes : j # k => cmd'[j] = cmd[j] /\ estado'[j] = estado[j]
    BY <1>8 DEF Grava, Coerente, SessoesCoerentes, PgTypeOK, EmVoo
  <2>2. n.via = k /\ n.num = cmd[k].num /\ n.realizada_em = inicio[k]
    BY DEF NovaLinha
  <2>3. RelogioAdiante'
    BY <2>1, <2>2 DEF RelogioAdiante
  <2>4. SessaoDepois'
    BY <2>1, <2>2 DEF SessaoDepois, EmVoo
  <2>5. \A t \in transacao :
          t.via = k => t.num < n.num /\ t.realizada_em < n.realizada_em
    BY <2>1, <2>2 DEF SessaoDepois
  <2>6. n.num \in Nat /\ n.realizada_em \in Nat
    BY <1>0, <2>1, <2>2 DEF Numeros, NumerosEnviados
  <2>7. OrdemPropria'
    <3>. HIDE DEF n
    <3>. SUFFICES ASSUME NEW s \in transacao', NEW t \in transacao',
                         s.via = t.via, s.num < t.num
                  PROVE  s.realizada_em < t.realizada_em
      BY DEF OrdemPropria
    <3>1. CASE s \in transacao /\ t \in transacao
      BY <3>1 DEF OrdemPropria
    <3>2. CASE s \in transacao /\ t = n
      BY <2>2, <2>5, <3>2
    <3>3. CASE s = n /\ t \in transacao
      BY <1>0, <2>2, <2>5, <2>6, <3>3
    <3>4. CASE s = n /\ t = n
      BY <2>6, <3>4
    <3>. QED BY <2>1, <3>1, <3>2, <3>3, <3>4
  <2>. QED BY <2>3, <2>4, <2>7
<1>9. ASSUME NEW k \in Conexoes, Reconecta(k)
      PROVE  Horas'
  <2>1. /\ UNCHANGED <<transacao, cmd, inicio, relogio>>
        /\ estado'[k] = "ociosa" /\ ~EmVoo(k)
        /\ \A j \in Conexoes : j # k => estado'[j] = estado[j]
    BY <1>9 DEF Reconecta, Tabelas, Coerente, SessoesCoerentes, PgTypeOK
  <2>. QED
    BY <2>1 DEF RelogioAdiante, SessaoDepois, OrdemPropria, EmVoo
<1>10. ASSUME Descarrega
       PROVE  Horas'
  BY <1>10 DEF Descarrega, RelogioAdiante, SessaoDepois, OrdemPropria, EmVoo
<1>11. ASSUME Queda
       PROVE  Horas'
  BY <1>11, HorasQuadro DEF Queda, EmVoo, Numeros, NumerosUnicos
<1>12. CASE UNCHANGED pgVars
  BY <1>12 DEF pgVars, RelogioAdiante, SessaoDepois, OrdemPropria, EmVoo
<1>. QED
  BY <1>1, <1>2, <1>3, <1>4, <1>5, <1>6, <1>7, <1>8, <1>9, <1>10, <1>11, <1>12
  DEF PgNext, Executa, Pede

LEMMA PgHoras == PgSpec => [](Coerente /\ Travas /\ Numeros /\ Horas)
<1>1. PgInit => Coerente /\ Travas /\ Numeros /\ Horas
  BY CoerenteInit, TravasInit, NumerosInit, HorasInit
<1>2. Coerente /\ Travas /\ Numeros /\ Horas /\ [PgNext]_pgVars
        => (Coerente /\ Travas /\ Numeros /\ Horas)'
  BY CoerentePasso, TravasPasso, NumerosPasso, HorasPasso
<1>. QED BY <1>1, <1>2, PTL DEF PgSpec

(* The rows an API process caused carry times in the order in which the    *)
(* process sent them, so its extratos list them in that order.             *)
THEOREM PgOrdemPropria == PgSpec => []OrdemPropria
<1>1. Horas => OrdemPropria
  BY DEF Horas
<1>. QED BY <1>1, PgHoras, PTL

-----------------------------------------------------------------------------
(* Layer 4: the balance of a client is the sum of its rows.  A commit adds *)
(* the effect of its one new row to both sides: the row is new because its *)
(* number is, and the balance it is added to is the committed one because  *)
(* the session holds the lock of the row (VersaoTravada).                  *)
Finitas == IsFiniteSet(transacao) /\ IsFiniteSet(disco.transacao)

Somas == Finitas /\ Reconcilia

LEMMA SomasInit == PgInit => Somas
<1>. SUFFICES ASSUME PgInit PROVE Somas
  OBVIOUS
<1>1. transacao = {} /\ disco.transacao = {} /\ disco.saldo = saldo
  BY DEF PgInit
<1>2. \A c : DoCliente({}, c) = {}
  BY DEF DoCliente
<1>3. \A c \in Clientes : saldo[c] = 0
  BY DEF PgInit
<1>. QED
  BY <1>1, <1>2, <1>3, SomaVazia, FS_EmptySet DEF Somas, Finitas, Reconcilia

(* The rows of a client, like those of any part of the table, have a sum.  *)
LEMMA LinhasComEfeito ==
  ASSUME NEW T, IsFiniteSet(T), T \subseteq Linhas
  PROVE  /\ ComEfeito(T)
         /\ \A c : ComEfeito(DoCliente(T, c))
<1>1. \A t \in Linhas : Efeito(t) \in Int
  <2>. SUFFICES ASSUME NEW t \in Linhas PROVE Efeito(t) \in Int
    OBVIOUS
  <2>1. t.valor \in Valores
    BY DEF Linhas
  <2>2. t.valor \in Nat
    BY <2>1, ValoresAssumption
  <2>. QED BY <2>2 DEF Efeito
<1>2. \A c : DoCliente(T, c) \in SUBSET T
  BY DEF DoCliente
<1>3. ComEfeito(T)
  BY <1>1 DEF ComEfeito
<1>4. \A c : ComEfeito(DoCliente(T, c))
  BY <1>1, <1>2, FS_Subset DEF ComEfeito
<1>. QED BY <1>3, <1>4

LEMMA SomasGrava ==
  ASSUME Coerente, Travas, Numeros, Somas, NEW k \in Conexoes, Grava(k)
  PROVE  Somas'
<1>. DEFINE n == NovaLinha(k)
<1>. DEFINE c == cmd[k].id_cliente
<1>1. EmVoo(k) /\ cmd[k] \in Comandos
  BY ComandoEmVoo DEF Grava, Coerente, SessoesCoerentes
<1>2. c \in Clientes
  BY <1>1 DEF Comandos
<1>3. n.id_cliente = c /\ n.num = cmd[k].num /\ Efeito(n) = Efeito(cmd[k])
  BY DEF NovaLinha, Efeito
<1>4. n \notin transacao
  <2>1. NaSessao(cmd[k].num) /\ cmd[k].num \in 1..enviados
    BY <1>1 DEF NaSessao, Numeros, NumerosEnviados
  <2>2. ~Gravada(cmd[k].num)
    BY <2>1 DEF Numeros, Conservacao
  <2>. QED BY <1>3, <2>2 DEF Gravada
<1>5. transacao' = transacao \cup {n} /\ disco' = disco
  BY DEF Grava
<1>6. versao[k] = saldo[c] + Efeito(n)
  BY <1>3 DEF Grava, Travas, VersaoTravada, NovoSaldo
<1>7. saldo'[c] = saldo[c] + Efeito(n)
  BY <1>2, <1>6 DEF Grava, Coerente, PgTypeOK
<1>8. \A b \in Clientes : b # c => saldo'[b] = saldo[b]
  BY DEF Grava, Coerente, PgTypeOK
<1>9. Efeito(n) \in Int
  BY <1>1, <1>3, EfeitoInt
<1>. HIDE DEF n, c
<1>10. DoCliente(transacao', c) = DoCliente(transacao, c) \cup {n}
  BY <1>3, <1>5 DEF DoCliente
<1>11. \A b : b # c => DoCliente(transacao', b) = DoCliente(transacao, b)
  BY <1>3, <1>5 DEF DoCliente
<1>12. n \notin DoCliente(transacao, c)
  BY <1>4 DEF DoCliente
<1>13. ComEfeito(DoCliente(transacao, c))
  BY LinhasComEfeito DEF Somas, Finitas, Coerente, PgTypeOK
<1>14. Soma(DoCliente(transacao', c)) = Soma(DoCliente(transacao, c)) + Efeito(n)
  BY <1>9, <1>10, <1>12, <1>13, SomaMais
<1>15. Finitas'
  BY <1>5, FS_AddElement DEF Somas, Finitas
<1>16. Reconcilia'
  <2>. SUFFICES ASSUME NEW b \in Clientes
                PROVE  /\ saldo'[b] = Soma(DoCliente(transacao', b))
                       /\ disco'.saldo[b] = Soma(DoCliente(disco'.transacao, b))
    BY DEF Reconcilia
  <2>1. /\ saldo[b] = Soma(DoCliente(transacao, b))
        /\ disco.saldo[b] = Soma(DoCliente(disco.transacao, b))
    BY DEF Somas, Reconcilia
  <2>2. CASE b = c
    BY <1>5, <1>7, <1>14, <2>1, <2>2
  <2>3. CASE b # c
    BY <1>5, <1>8, <1>11, <2>1, <2>3
  <2>. QED BY <2>2, <2>3
<1>. QED BY <1>15, <1>16 DEF Somas

LEMMA SomasPasso ==
  ASSUME Coerente, Travas, Numeros, Somas, [PgNext]_pgVars
  PROVE  Somas'
<1>. USE DEF Somas
<1>1. ASSUME UNCHANGED Tabelas
      PROVE  Somas'
  BY <1>1 DEF Tabelas, Finitas, Reconcilia
<1>2. ASSUME NEW k \in Conexoes, Grava(k)
      PROVE  Somas'
  BY <1>2, SomasGrava
<1>3. ASSUME Descarrega
      PROVE  Somas'
  <2>1. /\ UNCHANGED <<saldo, transacao>>
        /\ disco'.saldo = saldo /\ disco'.transacao = transacao
    BY <1>3 DEF Descarrega
  <2>. QED BY <2>1 DEF Finitas, Reconcilia
<1>4. ASSUME Queda
      PROVE  Somas'
  <2>1. /\ UNCHANGED disco
        /\ saldo' = disco.saldo /\ transacao' = disco.transacao
    BY <1>4 DEF Queda
  <2>. QED BY <2>1 DEF Finitas, Reconcilia
<1>5. ASSUME NEW k \in Conexoes,
             \/ \E t \in Comandos : Recebe(k, t) \/ Descarta(k, t)
             \/ Reconecta(k) \/ RecusaTexto(k) \/ Inicia(k) \/ RecusaBigint(k)
             \/ RecusaSaldo(k) \/ Atualiza(k) \/ RecusaValor(k)
      PROVE  UNCHANGED Tabelas
  BY <1>5 DEF Recebe, Descarta, Reconecta, RecusaTexto, Inicia, RecusaBigint,
              RecusaSaldo, Atualiza, RecusaValor, Falha
<1>6. CASE UNCHANGED pgVars
  BY <1>1, <1>6 DEF pgVars, Tabelas
<1>. QED
  BY <1>1, <1>2, <1>3, <1>4, <1>5, <1>6 DEF PgNext, Executa, Pede

LEMMA PgSomas == PgSpec => [](Coerente /\ Travas /\ Numeros /\ Horas /\ Somas)
<1>1. PgInit => Somas
  BY SomasInit
<1>2. Coerente /\ Travas /\ Numeros /\ Horas /\ Somas /\ [PgNext]_pgVars
        => Somas'
  BY SomasPasso
<1>. QED BY <1>1, <1>2, PgHoras, PTL DEF PgSpec

(* The query that ends init.sql, at every moment: each client's balance,   *)
(* in memory and on disk, is the sum of its credits minus its debits, for  *)
(* any number of sessions, amounts, messages and crashes and every set of  *)
(* descriptions without quotes.                                            *)
THEOREM PgReconcilia == PgSpec => []Reconcilia
<1>1. Somas => Reconcilia
  BY DEF Somas
<1>. QED BY <1>1, PgSomas, PTL

-----------------------------------------------------------------------------
(* The refinement: a commit is the one step of Livro that moves a balance  *)
(* and writes its row; checkpoints and crashes are those of Livro; nothing *)
(* else is visible in the tables.                                          *)
LEMMA LivroGrava ==
  ASSUME Coerente, Travas, Numeros, NEW k \in Conexoes, Grava(k)
  PROVE  L!Aplica
<1>. DEFINE n == NovaLinha(k)
<1>. DEFINE c == cmd[k].id_cliente
<1>1. EmVoo(k) /\ cmd[k] \in Comandos
  BY ComandoEmVoo DEF Grava, Coerente, SessoesCoerentes
<1>2. c \in Clientes
  BY <1>1 DEF Comandos
<1>3. /\ n.id_cliente = c /\ n.num = cmd[k].num
      /\ n.tipo = cmd[k].tipo /\ n.valor = cmd[k].valor
  BY DEF NovaLinha
<1>4. Efeito(n) = Efeito(cmd[k])
  BY <1>3 DEF Efeito
<1>5. n.num \notin {r.num : r \in transacao}
  <2>1. NaSessao(cmd[k].num) /\ cmd[k].num \in 1..enviados
    BY <1>1 DEF NaSessao, Numeros, NumerosEnviados
  <2>2. ~Gravada(cmd[k].num)
    BY <2>1 DEF Numeros, Conservacao
  <2>. QED BY <1>3, <2>2 DEF Gravada
<1>6. transacao' = transacao \cup {n} /\ n \in transacao' \ transacao
  BY <1>5 DEF Grava
<1>7. versao[k] = saldo[c] + Efeito(n) /\ RespeitaLimite(c, versao[k])
  BY <1>4 DEF Grava, Travas, VersaoTravada, NovoSaldo, PassaChk
<1>8. saldo' = [saldo EXCEPT ![c] = @ + Efeito(n)]
  BY <1>7 DEF Grava
<1>9. saldo'[c] = versao[k]
  BY <1>2 DEF Grava, Coerente, PgTypeOK
<1>10. UNCHANGED disco
  BY DEF Grava
<1>11. L!Efeito(n) = Efeito(n) /\ L!RespeitaLimite(c, saldo'[c])
  BY <1>7, <1>9 DEF L!Efeito, Efeito, L!RespeitaLimite, RespeitaLimite
<1>. HIDE DEF n, c
<1>. QED
  BY <1>2, <1>3, <1>5, <1>6, <1>8, <1>10, <1>11 DEF L!Aplica

LEMMA LivroPasso ==
  ASSUME Coerente, Travas, Numeros, [PgNext]_pgVars
  PROVE  [L!Next]_(L!livroVars)
<1>. USE DEF L!livroVars
<1>1. ASSUME NEW k \in Conexoes, NEW t \in Comandos,
             Recebe(k, t) \/ Descarta(k, t)
      PROVE  UNCHANGED L!livroVars
  BY <1>1 DEF Recebe, Descarta, Tabelas
<1>2. ASSUME NEW k \in Conexoes,
             \/ RecusaTexto(k) \/ RecusaBigint(k) \/ RecusaSaldo(k)
             \/ RecusaValor(k)
             \/ Inicia(k) \/ Atualiza(k) \/ Reconecta(k)
      PROVE  UNCHANGED L!livroVars
  BY <1>2 DEF RecusaTexto, RecusaBigint, RecusaSaldo, RecusaValor, Falha, Inicia,
              Atualiza, Reconecta, Tabelas
<1>3. ASSUME NEW k \in Conexoes, Grava(k)
      PROVE  L!Aplica
  BY <1>3, LivroGrava
<1>4. ASSUME Descarrega
      PROVE  L!Descarrega
  BY <1>4 DEF Descarrega, L!Descarrega
<1>5. ASSUME Queda
      PROVE  L!Queda
  BY <1>5 DEF Queda, L!Queda
<1>6. CASE UNCHANGED pgVars
  BY <1>6 DEF pgVars
<1>. QED
  BY <1>1, <1>2, <1>3, <1>4, <1>5, <1>6 DEF PgNext, Executa, Pede, L!Next

(* Two-statement messages under row locks, on any number of sessions and   *)
(* with crashes of the server, are the atomic ledger Livro, for every set  *)
(* of descriptions without quotes.                                         *)
THEOREM PgImplementaLivro == PgSpec => ImplementaLivro
<1>1. PgInit => L!Init
  BY DEF PgInit, L!Init
<1>2. Coerente /\ Travas /\ Numeros /\ [PgNext]_pgVars
        => [L!Next]_(L!livroVars)
  BY LivroPasso
<1>. QED
  BY <1>1, <1>2, PgHoras, PTL DEF PgSpec, ImplementaLivro, L!Spec
=============================================================================
