------------------------------ MODULE Postgres ------------------------------
(***************************************************************************)
(* The database (service db of src/stack/docker-compose.yaml) as the API   *)
(* processes use it: the tables and the check constraint of                *)
(* src/stack/init.sql, and one session per API process that executes the   *)
(* text transacao_repo_insert_async sends,                                 *)
(*     update cliente set saldo = saldo +/- valor where id = ...;          *)
(*     insert into transacao(...) values(...);                             *)
(* Both statements travel in one simple-query message, so the server runs  *)
(* them in one implicit transaction, READ COMMITTED.  The update takes the *)
(* row lock that the transaction keeps until it ends.                      *)
(*                                                                         *)
(* perdidas and enviados are history variables: nothing reads them but the *)
(* properties (an API never looks at the result of the message).           *)
(*                                                                         *)
(* An operator named Mut... is the definition that follows it with a       *)
(* plausible error in it; PROJECT.json pairs it with the property that     *)
(* finds the error.  No specification uses it.                             *)
(***************************************************************************)
EXTENDS Entidades

CONSTANTS
  Conexoes,        \* the connections, one per API process
  Livre,           \* the lock owner of a row nobody has locked
  SemComando,      \* what a session with nothing to do is executing
  MaxInt4,         \* the largest value of transacao.valor (integer)
  MaxInt8,         \* the largest value of cliente.saldo (bigint)
  LimiteExtrato,   \* the "limit 10" of transacao_repo_find_last_10
  MaxEnvios,       \* bound: messages sent to the server in a behaviour
  MaxQuedas        \* bound: crashes of the server in a behaviour

ASSUME LivreAssumption == Livre \notin Conexoes
ASSUME BoundsAssumption == /\ MaxInt4 \in Nat
                           /\ MaxInt8 \in Nat
                           /\ LimiteExtrato \in Nat
                           /\ MaxEnvios \in Nat
                           /\ MaxQuedas \in Nat

(* A message.                                                              *)
Comandos ==
  [num : 1..MaxEnvios, via : Conexoes, id_cliente : Clientes, tipo : Tipos,
   valor : Valores, descricao : Descricoes]

ASSUME SemComandoAssumption == SemComando \notin Comandos

Linhas ==
  [num : Nat, via : Conexoes, id_cliente : Clientes, tipo : Tipos,
   valor : Valores, descricao : Seq(Bytes), realizada_em : Nat]

(* Why a message the API handed over never shows up in the table.          *)
Motivos ==
  {"chk_saldo", "bigint", "integer", "varchar", "descricao", "queda"}

(* "fechada": the connection has no live session on the server.            *)
Estados == {"ociosa", "recebida", "iniciada", "alterada", "fechada"}

VARIABLES
  saldo,       \* [Clientes -> Int]: committed column cliente.saldo
  transacao,   \* committed rows of table transacao
  disco,       \* the part of both that has reached the disk
  trava,       \* [Clientes -> owner of the row lock]
  estado,      \* [Conexoes -> Estados]: what each session is doing
  cmd,         \* [Conexoes -> the message it is executing]
  inicio,      \* [Conexoes -> Nat]: current_timestamp of its transaction
  versao,      \* [Conexoes -> Int]: the uncommitted balance it wrote
  relogio,     \* the clock behind current_timestamp
  quedas,      \* crashes so far
  enviados,    \* history: messages sent so far
  perdidas     \* history: messages that will never be in the table

pgVars == <<saldo, transacao, disco, trava, estado, cmd, inicio, versao,
            relogio, quedas, enviados, perdidas>>

Tabelas == <<saldo, transacao, disco>>

PgTypeOK ==
  /\ saldo \in [Clientes -> Int]
  /\ transacao \subseteq Linhas
  /\ disco \in [saldo : [Clientes -> Int], transacao : SUBSET Linhas]
  /\ trava \in [Clientes -> Conexoes \cup {Livre}]
  /\ estado \in [Conexoes -> Estados]
  /\ cmd \in [Conexoes -> Comandos \cup {SemComando}]
  /\ inicio \in [Conexoes -> Nat]
  /\ versao \in [Conexoes -> Int]
  /\ relogio \in Nat
  /\ quedas \in Nat
  /\ enviados \in Nat
  /\ perdidas \subseteq [num : Nat, motivo : Motivos]

PgInit ==
  /\ saldo = [c \in Clientes |-> 0]
  /\ transacao = {}
  /\ disco = [saldo |-> saldo, transacao |-> transacao]
  /\ trava = [c \in Clientes |-> Livre]
  /\ estado = [k \in Conexoes |-> "fechada"]
  /\ cmd = [k \in Conexoes |-> SemComando]
  /\ inicio = [k \in Conexoes |-> 0]
  /\ versao = [k \in Conexoes |-> 0]
  /\ relogio = 1
  /\ quedas = 0
  /\ enviados = 0
  /\ perdidas = {}

-----------------------------------------------------------------------------
(* The result of "select id, limite, saldo from cliente where id = c" and  *)
(* of the query of transacao_repo_find_last_10: the LimiteExtrato rows     *)
(* with the latest realizada_em.  The order of the list is that of         *)
(* realizada_em, so the set determines it.                                 *)
MaisNovasQue(t, T) == {u \in T : u.realizada_em > t.realizada_em}
MutUltimasUmaAMenos(c) ==
  LET T == DoCliente(transacao, c)
  IN {u \in T : Cardinality(MaisNovasQue(u, T)) < LimiteExtrato - 1}
UltimasTransacoes(c) ==
  LET T == DoCliente(transacao, c)
      lida(t) == [t EXCEPT
                    !.descricao = strzcpy(@, UTF8_TRANSACAO_DESCRICAO_LEN)]
  IN {lida(t) : t \in {u \in T : Cardinality(MaisNovasQue(u, T)) < LimiteExtrato}}

(* The new balance the update of the message of session k computes.        *)
NovoSaldo(k) == saldo[cmd[k].id_cliente] + Efeito(cmd[k])
CabeEmBigint(k) == NovoSaldo(k) \in -(MaxInt8 + 1)..MaxInt8
MutPassaChkSaldoAntigo(k) == RespeitaLimite(cmd[k].id_cliente, saldo[cmd[k].id_cliente])
PassaChk(k) == RespeitaLimite(cmd[k].id_cliente, NovoSaldo(k))

(* A text without quotes that the server can store.                        *)
TextoAceito(s) == Utf8Valido(s)
CabeEmVarchar(s) == string_util_utf8_strlen(s) <= TRANSACAO_DESCRICAO_LEN

(* A message in the server that is neither committed nor refused.          *)
EmVoo(k) == cmd[k] # SemComando

-----------------------------------------------------------------------------
MutRecebeOcupada(k, t) ==
  /\ estado[k] # "fechada"
  /\ enviados < MaxEnvios
  /\ t.num = enviados + 1
  /\ t.via = k
  /\ estado' = [estado EXCEPT ![k] = "recebida"]
  /\ cmd' = [cmd EXCEPT ![k] = t]
  /\ enviados' = t.num
  /\ UNCHANGED <<Tabelas, trava, inicio, versao, relogio, quedas, perdidas>>

(* The server receives message t on an idle session.                       *)
Recebe(k, t) ==
  /\ estado[k] = "ociosa"
  /\ enviados < MaxEnvios
  /\ t.num = enviados + 1
  /\ t.via = k
  /\ estado' = [estado EXCEPT ![k] = "recebida"]
  /\ cmd' = [cmd EXCEPT ![k] = t]
  /\ enviados' = t.num
  /\ UNCHANGED <<Tabelas, trava, inicio, versao, relogio, quedas, perdidas>>

(* Message t is written to a connection whose server side is gone.         *)
Descarta(k, t) ==
  /\ estado[k] = "fechada"
  /\ enviados < MaxEnvios
  /\ t.num = enviados + 1
  /\ t.via = k
  /\ enviados' = t.num
  /\ perdidas' = perdidas \cup {[num |-> t.num, motivo |-> "queda"]}
  /\ UNCHANGED <<Tabelas, trava, estado, cmd, inicio, versao, relogio, quedas>>

MutFalhaSemSoltar(k, motivo) ==
  /\ perdidas' = perdidas \cup {[num |-> cmd[k].num, motivo |-> motivo]}
  /\ estado' = [estado EXCEPT ![k] = "ociosa"]
  /\ cmd' = [cmd EXCEPT ![k] = SemComando]
  /\ versao' = [versao EXCEPT ![k] = 0]
  /\ UNCHANGED <<Tabelas, trava, inicio, relogio, quedas, enviados>>

(* ErrorResponse: the implicit transaction aborts, its lock goes.          *)
Falha(k, motivo) ==
  /\ perdidas' = perdidas \cup {[num |-> cmd[k].num, motivo |-> motivo]}
  /\ trava' = [c \in Clientes |-> IF trava[c] = k THEN Livre ELSE trava[c]]
  /\ estado' = [estado EXCEPT ![k] = "ociosa"]
  /\ cmd' = [cmd EXCEPT ![k] = SemComando]
  /\ versao' = [versao EXCEPT ![k] = 0]
  /\ UNCHANGED <<Tabelas, inicio, relogio, quedas, enviados>>

RecusaTexto(k) ==
  /\ estado[k] = "recebida"
  /\ ~TextoAceito(cmd[k].descricao)
  /\ Falha(k, "descricao")

MutIniciaRelogioParado(k) ==
  /\ estado[k] = "recebida"
  /\ TextoAceito(cmd[k].descricao)
  /\ estado' = [estado EXCEPT ![k] = "iniciada"]
  /\ inicio' = [inicio EXCEPT ![k] = relogio]
  /\ UNCHANGED <<Tabelas, trava, cmd, versao, relogio, quedas, enviados, perdidas>>

(* The implicit transaction begins: current_timestamp is fixed here.       *)
Inicia(k) ==
  /\ estado[k] = "recebida"
  /\ TextoAceito(cmd[k].descricao)
  /\ estado' = [estado EXCEPT ![k] = "iniciada"]
  /\ inicio' = [inicio EXCEPT ![k] = relogio]
  /\ relogio' = relogio + 1
  /\ UNCHANGED <<Tabelas, trava, cmd, versao, quedas, enviados, perdidas>>

(* update cliente: the new balance is computed, and the constraint         *)
(* checked, on the committed version of the row before the row is locked,  *)
(* and again on the version found after waiting for the lock.  An error in *)
(* either never waits.                                                     *)
RecusaBigint(k) ==
  /\ estado[k] = "iniciada"
  /\ ~CabeEmBigint(k)
  /\ Falha(k, "bigint")

RecusaSaldo(k) ==
  /\ estado[k] = "iniciada"
  /\ CabeEmBigint(k)
  /\ ~PassaChk(k)
  /\ Falha(k, "chk_saldo")

MutAtualizaSemTrava(k) ==
  /\ estado[k] = "iniciada"
  /\ CabeEmBigint(k)
  /\ PassaChk(k)
  /\ trava' = [trava EXCEPT ![cmd[k].id_cliente] = k]
  /\ estado' = [estado EXCEPT ![k] = "alterada"]
  /\ versao' = [versao EXCEPT ![k] = NovoSaldo(k)]
  /\ UNCHANGED <<Tabelas, cmd, inicio, relogio, quedas, enviados, perdidas>>

Atualiza(k) ==
  /\ estado[k] = "iniciada"
  /\ CabeEmBigint(k)
  /\ PassaChk(k)
  /\ trava[cmd[k].id_cliente] = Livre
  /\ trava' = [trava EXCEPT ![cmd[k].id_cliente] = k]
  /\ estado' = [estado EXCEPT ![k] = "alterada"]
  /\ versao' = [versao EXCEPT ![k] = NovoSaldo(k)]
  /\ UNCHANGED <<Tabelas, cmd, inicio, relogio, quedas, enviados, perdidas>>

(* insert into transacao: valor is a bigint in the text and an integer in  *)
(* the table, descricao a varchar(10).                                     *)
RecusaValor(k) ==
  /\ estado[k] = "alterada"
  /\ \/ cmd[k].valor > MaxInt4 /\ Falha(k, "integer")
     \/ ~CabeEmVarchar(cmd[k].descricao) /\ Falha(k, "varchar")

MutNovaLinhaSemHora(k) == cmd[k]
NovaLinha(k) ==
  [num |-> cmd[k].num, via |-> k, id_cliente |-> cmd[k].id_cliente,
   tipo |-> cmd[k].tipo, valor |-> cmd[k].valor,
   descricao |-> cmd[k].descricao, realizada_em |-> inicio[k]]

MutGravaSemSoltar(k) ==
  /\ estado[k] = "alterada"
  /\ cmd[k].valor <= MaxInt4
  /\ CabeEmVarchar(cmd[k].descricao)
  /\ transacao' = transacao \cup {NovaLinha(k)}
  /\ saldo' = [saldo EXCEPT ![cmd[k].id_cliente] = versao[k]]
  /\ estado' = [estado EXCEPT ![k] = "ociosa"]
  /\ cmd' = [cmd EXCEPT ![k] = SemComando]
  /\ versao' = [versao EXCEPT ![k] = 0]
  /\ UNCHANGED <<disco, trava, inicio, relogio, quedas, enviados, perdidas>>

(* The insert and the commit, which makes the new version of the row the   *)
(* current one.                                                            *)
Grava(k) ==
  /\ estado[k] = "alterada"
  /\ cmd[k].valor <= MaxInt4
  /\ CabeEmVarchar(cmd[k].descricao)
  /\ transacao' = transacao \cup {NovaLinha(k)}
  /\ saldo' = [saldo EXCEPT ![cmd[k].id_cliente] = versao[k]]
  /\ trava' = [trava EXCEPT ![cmd[k].id_cliente] = Livre]
  /\ estado' = [estado EXCEPT ![k] = "ociosa"]
  /\ cmd' = [cmd EXCEPT ![k] = SemComando]
  /\ versao' = [versao EXCEPT ![k] = 0]
  /\ UNCHANGED <<disco, inicio, relogio, quedas, enviados, perdidas>>

(* synchronous_commit = off: commits reach the disk later, in order.  (The *)
(* disk matters only to behaviours in which the server can crash.)         *)
Descarrega ==
  /\ MaxQuedas > 0
  /\ disco' = [saldo |-> saldo, transacao |-> transacao]
  /\ UNCHANGED <<saldo, transacao, trava, estado, cmd, inicio, versao,
                 relogio, quedas, enviados, perdidas>>

MutQuedaGuardaLinhas ==
  LET apagadas == {cmd[k].num : k \in {j \in Conexoes : EmVoo(j)}}
  IN
  /\ quedas < MaxQuedas
  /\ quedas' = quedas + 1
  /\ saldo' = disco.saldo
  /\ trava' = [c \in Clientes |-> Livre]
  /\ estado' = [k \in Conexoes |-> "fechada"]
  /\ cmd' = [k \in Conexoes |-> SemComando]
  /\ versao' = [k \in Conexoes |-> 0]
  /\ perdidas' = perdidas \cup {[num |-> n, motivo |-> "queda"] : n \in apagadas}
  /\ UNCHANGED <<transacao, disco, inicio, relogio, enviados>>

(* The server crashes and restarts: every session dies, what was running   *)
(* is rolled back, what had not reached the disk is gone.                  *)
Queda ==
  LET apagadas == {t.num : t \in transacao \ disco.transacao}
                    \cup {cmd[k].num : k \in {j \in Conexoes : EmVoo(j)}}
  IN
  /\ quedas < MaxQuedas
  /\ quedas' = quedas + 1
  /\ saldo' = disco.saldo
  /\ transacao' = disco.transacao
  /\ trava' = [c \in Clientes |-> Livre]
  /\ estado' = [k \in Conexoes |-> "fechada"]
  /\ cmd' = [k \in Conexoes |-> SemComando]
  /\ versao' = [k \in Conexoes |-> 0]
  /\ perdidas' = perdidas \cup {[num |-> n, motivo |-> "queda"] : n \in apagadas}
  /\ UNCHANGED <<disco, inicio, relogio, enviados>>

(* A client opens a session (PQconnectdb), or replaces a lost one (PQreset).*)
Reconecta(k) ==
  /\ estado[k] = "fechada"
  /\ estado' = [estado EXCEPT ![k] = "ociosa"]
  /\ UNCHANGED <<Tabelas, trava, cmd, inicio, versao, relogio, quedas,
                 enviados, perdidas>>

(* What session k does by itself, whatever its client does.                *)
Executa(k) ==
  \/ RecusaTexto(k)
  \/ Inicia(k)
  \/ RecusaBigint(k)
  \/ RecusaSaldo(k)
  \/ Atualiza(k)
  \/ RecusaValor(k)
  \/ Grava(k)

(* What a client does to session k.                                        *)
Pede(k) ==
  \/ \E t \in Comandos : Recebe(k, t) \/ Descarta(k, t)
  \/ Reconecta(k)

PgNext ==
  \/ \E k \in Conexoes : Executa(k) \/ Pede(k)
  \/ Descarrega
  \/ Queda

PgSpec == PgInit /\ [][PgNext]_pgVars

-----------------------------------------------------------------------------
(* Properties.                                                             *)

(* No balance, current or preserved on disk, is below minus the limit:     *)
(* init.sql's chk_saldo survives concurrent updates and crashes.           *)
ChkSaldo ==
  \A c \in Clientes : /\ RespeitaLimite(c, saldo[c])
                       /\ RespeitaLimite(c, disco.saldo[c])

(* The query that ends init.sql: a client's balance is always its credits  *)
(* minus its debits, so no update of two concurrent sessions is lost and   *)
(* no half of a message's two statements survives an abort or a crash,     *)
(* as long as no description holds a quote (see Entidades).                *)
Reconcilia ==
  \A c \in Clientes :
    /\ saldo[c] = Soma(DoCliente(transacao, c))
    /\ disco.saldo[c] = Soma(DoCliente(disco.transacao, c))

(* A row is locked by exactly the session whose uncommitted update it      *)
(* carries: an abort, a commit or a crash never leaves a lock behind.      *)
TravaDisciplina ==
  \A c \in Clientes, k \in Conexoes :
    trava[c] = k <=> estado[k] = "alterada" /\ cmd[k].id_cliente = c

(* Every message sent is, at every moment, in exactly one place: a row of  *)
(* the table, a session, or the messages that will never be a row.         *)
Gravada(n) == \E t \in transacao : t.num = n
NaSessao(n) == \E k \in Conexoes : EmVoo(k) /\ cmd[k].num = n
Perdida(n) == \E p \in perdidas : p.num = n

Conservacao ==
  \A n \in 1..enviados :
    /\ Gravada(n) \/ NaSessao(n) \/ Perdida(n)
    /\ ~(Gravada(n) /\ NaSessao(n))
    /\ ~(Gravada(n) /\ Perdida(n))
    /\ ~(NaSessao(n) /\ Perdida(n))

(* The transactions of one API process appear in an extrato (order by      *)
(* realizada_em) in the order in which that process sent them.             *)
OrdemPropria ==
  \A s, t \in transacao :
    s.via = t.via /\ s.num < t.num => s.realizada_em < t.realizada_em

(* Two-statement transactions under row locks look like one atomic step,   *)
(* as long as no description holds a quote, which would end the literal    *)
(* and let the first statement commit without the second.                  *)
L == INSTANCE Livro
ImplementaLivro == L!Spec

(* Whatever the API does next (even die), a message it handed over is      *)
(* eventually decided: no session waits for a lock for ever.               *)
TodaMensagemDecidida ==
  \A k \in Conexoes : EmVoo(k) ~> ~EmVoo(k)
=============================================================================
