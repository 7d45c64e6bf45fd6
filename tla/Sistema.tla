------------------------------- MODULE Sistema -------------------------------
(***************************************************************************)
(* The whole deployment of src/stack: clients, nginx (nginx.conf), the API *)
(* processes and the database.  nginx chooses a process for each request;  *)
(* when a process refuses the connection, closes it without an answer, or  *)
(* does not answer in time, nginx avoids it for a while and applies the    *)
(* default of proxy_next_upstream (error timeout):                         *)
(*                                                                         *)
(*   connection refused         another process, whatever the method       *)
(*   failure after the request  another process for a GET; a POST is not   *)
(*   was sent                   idempotent: 502 or 504 to the client       *)
(*   no process left            502                                        *)
(*                                                                         *)
(*   nova --> escolhe --> enviada --> respondida                           *)
(*               \   <----/   \----> erro                                  *)
(*                \-----------------> erro                                 *)
(*                                                                         *)
(* A process that nginx has given up on knows nothing of it: it takes the  *)
(* request from its queue and runs the handler all the same.               *)
(*                                                                         *)
(* origem is a history variable.                                           *)
(***************************************************************************)
EXTENDS ClienteController

CONSTANTS
  Requisicoes,     \* the requests clients make to nginx
  SemRequisicao,   \* what an idle process is answering
  MaxDemoras       \* bound: times nginx gives up waiting

ASSUME RequisicoesAssumption == SemRequisicao \notin Requisicoes
ASSUME DemorasAssumption == MaxDemoras \in Nat

VARIABLES
  fase,        \* [Requisicoes -> where nginx is with the request]
  oque,        \* [Requisicoes -> what the client asks]
  destino,     \* [Requisicoes -> the process it was last sent to]
  tentados,    \* [Requisicoes -> the processes that failed it]
  status,      \* [Requisicoes -> the status the client got]
  suspensos,   \* the processes nginx avoids (max_fails, fail_timeout)
  demoras,     \* times nginx gave up waiting so far
  fila,        \* [Apis -> requests in the accept queue of the process]
  atual,       \* [Apis -> the request the process is answering]
  origem       \* history: which request each message was sent for

nginxVars == <<fase, oque, destino, tentados, status, suspensos, demoras>>
sisVars == <<vars, nginxVars, fila, atual, origem>>

SisTypeOK ==
  /\ fase \in [Requisicoes -> {"nova", "escolhe", "enviada", "respondida", "erro"}]
  /\ oque \in [Requisicoes -> Pedidos \cup {SemPedido}]
  /\ destino \in [Requisicoes -> Apis \cup {SemPedido}]
  /\ tentados \in [Requisicoes -> SUBSET Apis]
  /\ status \in [Requisicoes -> {0, 200, 400, 404, 422, 502, 504}]
  /\ suspensos \subseteq Apis
  /\ demoras \in Nat
  /\ fila \in [Apis -> SUBSET Requisicoes]
  /\ atual \in [Apis -> Requisicoes \cup {SemRequisicao}]
  /\ origem \subseteq [req : Requisicoes, num : Nat]

SisInit ==
  /\ Init
  /\ fase = [r \in Requisicoes |-> "nova"]
  /\ oque = [r \in Requisicoes |-> SemPedido]
  /\ destino = [r \in Requisicoes |-> SemPedido]
  /\ tentados = [r \in Requisicoes |-> {}]
  /\ status = [r \in Requisicoes |-> 0]
  /\ suspensos = {}
  /\ demoras = 0
  /\ fila = [a \in Apis |-> {}]
  /\ atual = [a \in Apis |-> SemRequisicao]
  /\ origem = {}

-----------------------------------------------------------------------------
(* nginx.                                                                  *)
Post(r) == oque[r].op = "transacao"

ClientePede(r, p) ==
  /\ fase[r] = "nova"
  /\ fase' = [fase EXCEPT ![r] = "escolhe"]
  /\ oque' = [oque EXCEPT ![r] = p]
  /\ UNCHANGED <<vars, destino, tentados, status, suspensos, demoras, fila,
                 atual, origem>>

(* A process listens once it has its database connection (main calls       *)
(* db_init_pool before server_init).                                       *)
Escuta(a) == pc[a] \notin Parados \cup {"conectando"}
Candidatos(r) == Apis \ (tentados[r] \cup suspensos)

Encaminha(r, a) ==
  /\ fase[r] = "escolhe"
  /\ a \in Candidatos(r)
  /\ Escuta(a)
  /\ fase' = [fase EXCEPT ![r] = "enviada"]
  /\ destino' = [destino EXCEPT ![r] = a]
  /\ fila' = [fila EXCEPT ![a] = @ \cup {r}]
  /\ UNCHANGED <<vars, oque, tentados, status, suspensos, demoras, atual, origem>>

MutTentaOutroSemMarcar(r, a) ==
  /\ fase' = [fase EXCEPT ![r] = "escolhe"]
  /\ UNCHANGED <<oque, destino, status, tentados, suspensos>>

(* nginx marks the process and goes on with another.                       *)
TentaOutro(r, a) ==
  /\ fase' = [fase EXCEPT ![r] = "escolhe"]
  /\ tentados' = [tentados EXCEPT ![r] = @ \cup {a}]
  /\ suspensos' = suspensos \cup {a}
  /\ UNCHANGED <<oque, destino, status>>

DevolveErro(r, codigo) ==
  /\ fase' = [fase EXCEPT ![r] = "erro"]
  /\ status' = [status EXCEPT ![r] = codigo]
  /\ UNCHANGED <<oque, destino, tentados>>

Recusada(r, a) ==
  /\ fase[r] = "escolhe"
  /\ a \in Candidatos(r)
  /\ ~Escuta(a)
  /\ TentaOutro(r, a)
  /\ UNCHANGED <<vars, demoras, fila, atual, origem>>

SemProcesso(r) ==
  /\ fase[r] = "escolhe"
  /\ Candidatos(r) = {}
  /\ DevolveErro(r, 502)
  /\ UNCHANGED <<vars, suspensos, demoras, fila, atual, origem>>

MutFalhouRepetePost(r, codigo) == TentaOutro(r, destino[r])

(* The process failed request r after it was sent.                         *)
Falhou(r, codigo) ==
  \/ /\ ~Post(r)
     /\ TentaOutro(r, destino[r])
  \/ /\ Post(r)
     /\ DevolveErro(r, codigo)
     /\ suspensos' = suspensos \cup {destino[r]}

(* The process stopped: its connections are reset, the queued ones too.    *)
Cortada(r) ==
  /\ fase[r] = "enviada"
  /\ pc[destino[r]] \in Parados
  /\ Falhou(r, 502)
  /\ UNCHANGED <<vars, demoras, fila, atual, origem>>

(* proxy_read_timeout.                                                     *)
Demora(r) ==
  /\ fase[r] = "enviada"
  /\ demoras < MaxDemoras
  /\ demoras' = demoras + 1
  /\ Falhou(r, 504)
  /\ UNCHANGED <<vars, fila, atual, origem>>

(* fail_timeout is over.                                                   *)
Reabilita(a) ==
  /\ a \in suspensos
  /\ suspensos' = suspensos \ {a}
  /\ UNCHANGED <<vars, fase, oque, destino, tentados, status, demoras, fila,
                 atual, origem>>

Nginx(r) ==
  \/ \E a \in Apis : Encaminha(r, a) \/ Recusada(r, a)
  \/ SemProcesso(r)
  \/ Cortada(r)

-----------------------------------------------------------------------------
(* The processes, with the sockets between them and nginx.                 *)

(* What the step of process a means for the request r it is answering: the *)
(* answer reaches nginx, unless nginx has given up; or r goes on, or dies  *)
(* with its process.                                                       *)
Entrega(a, r) ==
  \/ /\ pc'[a] = "poll"
     /\ atual' = [atual EXCEPT ![a] = SemRequisicao]
     /\ \/ /\ fase[r] = "enviada" /\ destino[r] = a
           /\ fase' = [fase EXCEPT ![r] = "respondida"]
           /\ status' = [status EXCEPT ![r] = resposta'[a].status]
           /\ UNCHANGED <<oque, destino, tentados, suspensos, demoras>>
        \/ /\ ~(fase[r] = "enviada" /\ destino[r] = a)
           /\ UNCHANGED nginxVars
  \/ /\ pc'[a] # "poll"
     /\ atual' = [atual EXCEPT ![a] = r]
     /\ UNCHANGED nginxVars

(* Messages sent in this step are sent for request r.                      *)
AnotaOrigem(r) ==
  origem' = origem \cup {[req |-> r, num |-> n] : n \in (enviados + 1)..enviados'}

(* accept and recv: the process takes a request from its queue.            *)
Toma(a, r) ==
  /\ r \in fila[a]
  /\ fila' = [fila EXCEPT ![a] = @ \ {r}]
  /\ SaveTransacao(a, oque[r]) \/ FindById(a, oque[r])
  /\ Entrega(a, r)
  /\ UNCHANGED origem

Processa(a) ==
  /\ atual[a] # SemRequisicao
  /\ Atende(a)
  /\ Entrega(a, atual[a])
  /\ AnotaOrigem(atual[a])
  /\ UNCHANGED fila

Inicializa(a) ==
  /\ Conecta(a)
  /\ UNCHANGED <<nginxVars, fila, atual, origem>>

SinalDoSistema(a) ==
  /\ Sinal(a)
  /\ AnotaOrigem(atual[a])
  /\ UNCHANGED <<nginxVars, fila, atual>>

Banco ==
  /\ (\E k \in Conexoes : Servidor(k)) \/ Ambiente
  /\ UNCHANGED <<nginxVars, fila, atual, origem>>

FimDoSistema ==
  /\ \A r \in Requisicoes : fase[r] \in {"respondida", "erro"}
  /\ \A a \in Apis : \/ pc[a] \in Parados
                     \/ pc[a] = "poll" /\ fila[a] = {}
  /\ \A k \in Conexoes : ~EmVoo(k)
  /\ UNCHANGED sisVars

SisNext ==
  \/ \E r \in Requisicoes :
       \/ \E p \in Pedidos : ClientePede(r, p)
       \/ Nginx(r)
       \/ Demora(r)
       \/ \E a \in Apis : Toma(a, r)
  \/ \E a \in Apis :
       Inicializa(a) \/ Processa(a) \/ SinalDoSistema(a) \/ Reabilita(a)
  \/ Banco
  \/ FimDoSistema

SisSpec == SisInit /\ [][SisNext]_sisVars

(* nginx goes on with a request it has; a process connects, takes requests *)
(* and runs its handler on; the server executes what it has received.      *)
SisFairness ==
  /\ \A r \in Requisicoes : WF_sisVars(Nginx(r))
  /\ \A a \in Apis :
       /\ WF_sisVars(Inicializa(a) \/ Processa(a))
       /\ WF_sisVars(\E r \in Requisicoes : Toma(a, r))
       /\ WF_sisVars(Servidor(a) /\ UNCHANGED <<nginxVars, fila, atual, origem>>)

SisFairSpec == SisSpec /\ SisFairness

-----------------------------------------------------------------------------
(* Properties.                                                             *)
Mensagens(r) == {o.num : o \in {q \in origem : q.req = r}}

(* However nginx retries, times out and suspends, and whichever processes  *)
(* die, one request of a client becomes at most one message to the         *)
(* database: nobody is charged twice for one POST.                         *)
AoMaisUmaVez == \A r \in Requisicoes : Cardinality(Mensagens(r)) <= 1

(* What the client of a transaction is told is true of the system and not  *)
(* only of the process that said it: a 200 means a message was sent, a     *)
(* refusal means none was and none will be.  An error of nginx decides     *)
(* nothing: the message may have been sent, but then the process was       *)
(* killed in the middle or nginx did not wait.                             *)
RespostaVerdadeira ==
  \A r \in Requisicoes :
    /\ status[r] = 200 /\ Post(r) => Mensagens(r) # {}
    /\ status[r] \in {400, 404, 422} => Mensagens(r) = {}
    /\ fase[r] = "erro" /\ Mensagens(r) # {} =>
         pc[destino[r]] = "matado" \/ demoras > 0

(* A transaction takes at most one process with it: nginx does not give it *)
(* to the next one.  (An extrato may take both: after a crash of the       *)
(* database each process dies at its first query.)                         *)
UmPostDerrubaUm ==
  \A r \in Requisicoes :
    oque[r] # SemPedido /\ Post(r) =>
      Cardinality({a \in Apis : pc[a] = "morto" /\ atual[a] = r}) <= 1

(* Every client is answered, if only with an error of nginx.               *)
TodoClienteRespondido ==
  \A r \in Requisicoes :
    fase[r] = "escolhe" ~> fase[r] \in {"respondida", "erro"}
=============================================================================
