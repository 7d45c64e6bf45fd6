------------------------------- MODULE Server -------------------------------
(***************************************************************************)
(* src/src/server/server.c: the socket loop of a process, with its poll    *)
(* table, the signal that ends it, and the shared parser of HttpParser.    *)
(*                                                                         *)
(*   testa --> antes_do_poll --> poll --> passa --> testa                  *)
(*                                         \-- socket_read --/             *)
(*                                                                         *)
(* Between any two steps connections may arrive, clients may send, close   *)
(* or reset, and the signal may be delivered.  A connection is named by    *)
(* its socket; its client has a script, the pieces it will send.  The      *)
(* handler called by router_route is one step here: what it was given is   *)
(* recorded in respostas, as is the connection it was answered on.         *)
(***************************************************************************)
EXTENDS HttpParser, Router, FiniteSets

CONSTANTS
  Sockets,   \* the connections clients make
  Roteiros,  \* [Sockets -> what each client may be about to send]
  Alvo,      \* [Pedidos -> the method and url of a request, the url in the
             \* halves it may be cut into, and the id its client means]
  Escuta,    \* the listening socket
  Livre,     \* an unused entry of the table, fd = -1
  SOCKET_MAX_POLL,
  SOCKET_MAX_QUEUED,
  SOCKET_MAX_READ_BUFFER   \* pieces one recv takes

ASSUME SocketsAssumption ==
  /\ Escuta \notin Sockets
  /\ Livre \notin Sockets \cup {Escuta}
  /\ \A s \in Sockets : Roteiros[s] \subseteq Seq(Pedacos)
  /\ Alvo \in [Pedidos -> [method : Metodos, url : Seq(Tokens),
                           linha : Seq(Tokens), id : Seq(Digitos)]]
ASSUME LimitesAssumption ==
  /\ SOCKET_MAX_POLL \in Nat \ {0}
  /\ SOCKET_MAX_QUEUED \in Nat
  /\ SOCKET_MAX_READ_BUFFER \in Nat \ {0}

VARIABLES
  pc, i,            \* where the loop is, and its index
  pfds, revents, nfds,
  shoud_terminate,
  parser,
  roteiro,          \* [Sockets -> the script of its client]
  estado,           \* [Sockets -> how far the connection is]
  enviados,         \* [Sockets -> pieces that have reached the socket]
  lidos,            \* [Sockets -> pieces recv has returned]
  par,              \* [Sockets -> what the client has done to its end]
  fila,             \* the accept queue
  respostas         \* [Sockets -> the answers sent on it]

lacoVars == <<pc, i, pfds, revents, nfds, parser, lidos, respostas>>
redeVars == <<roteiro, enviados, fila>>
vars == <<lacoVars, redeVars, shoud_terminate, estado, par>>

Posicoes == 0..(SOCKET_MAX_POLL - 1)
Respostas ==
  [method : Pedidos \cup {SemPedido}, url : Seq(Metades), body : Seq(Pedidos),
   rota : [rota : {"nenhuma", "find_by_id", "save_transacao"},
           id : Seq(Digitos)]]

TypeOK ==
  /\ pc \in {"testa", "antes_do_poll", "poll", "passa", "socket_read",
             "fim", "morto"}
  /\ i \in 0..SOCKET_MAX_POLL
  /\ pfds \in [Posicoes -> Sockets \cup {Escuta, Livre}]
  /\ revents \in [Posicoes -> {"nada", "pollin", "outro"}]
  /\ nfds \in 0..SOCKET_MAX_POLL
  /\ shoud_terminate \in BOOLEAN
  /\ parser \in Parsers
  /\ roteiro \in [Sockets -> Seq(Pedacos)]
  /\ estado \in [Sockets -> {"fora", "fila", "aberta", "fechada"}]
  /\ enviados \in [Sockets -> Nat]
  /\ lidos \in [Sockets -> Nat]
  /\ par \in [Sockets -> {"aberto", "fin", "rst", "epipe"}]
  /\ fila \in Seq(Sockets)
  /\ respostas \in [Sockets -> Seq(Respostas)]

-----------------------------------------------------------------------------
(* The poll table.                                                         *)
Onde(fd) == {j \in Posicoes : pfds[j] = fd}

poll_push(fd) ==
  \/ /\ nfds < SOCKET_MAX_POLL
     /\ Onde(Livre) # {}
     /\ pfds' = [pfds EXCEPT ![Min(Onde(Livre))] = fd]
     /\ revents' = [revents EXCEPT ![Min(Onde(Livre))] = "nada"]
     /\ nfds' = nfds + 1
  \/ /\ nfds >= SOCKET_MAX_POLL \/ Onde(Livre) = {}
     /\ UNCHANGED <<pfds, revents, nfds>>

poll_pop(fd) ==
  /\ pfds' = [pfds EXCEPT ![Min(Onde(fd))] = Livre]
  /\ nfds' = nfds - 1

(* poll_init, then poll_push of the listening socket.                      *)
Init ==
  /\ pc = "testa"
  /\ i = 0
  /\ pfds = [j \in Posicoes |-> IF j = 0 THEN Escuta ELSE Livre]
  /\ revents = [j \in Posicoes |-> "nada"]
  /\ nfds = 1
  /\ shoud_terminate = FALSE
  /\ parser = http_parser_init
  /\ roteiro \in [Sockets -> UNION {Roteiros[s] : s \in Sockets}]
  /\ \A s \in Sockets : roteiro[s] \in Roteiros[s]
  /\ estado = [s \in Sockets |-> "fora"]
  /\ enviados = [s \in Sockets |-> 0]
  /\ lidos = [s \in Sockets |-> 0]
  /\ par = [s \in Sockets |-> "aberto"]
  /\ fila = <<>>
  /\ respostas = [s \in Sockets |-> <<>>]

-----------------------------------------------------------------------------
(* The clients and the network.                                            *)
Conecta(s) ==
  /\ estado[s] = "fora"
  /\ Len(fila) < SOCKET_MAX_QUEUED
  /\ estado' = [estado EXCEPT ![s] = "fila"]
  /\ fila' = Append(fila, s)
  /\ UNCHANGED <<lacoVars, roteiro, enviados, shoud_terminate, par>>

Viva(s) == estado[s] \in {"fila", "aberta"}

(* A segment arrives: the pieces up to the n-th of the script.             *)
Envia(s) ==
  /\ Viva(s)
  /\ par[s] = "aberto"
  /\ \E n \in (enviados[s] + 1)..Len(roteiro[s]) :
       enviados' = [enviados EXCEPT ![s] = n]
  /\ UNCHANGED <<lacoVars, roteiro, fila, shoud_terminate, estado, par>>

(* The client closes its end.                                              *)
Encerra(s) ==
  /\ Viva(s)
  /\ par[s] = "aberto"
  /\ par' = [par EXCEPT ![s] = "fin"]
  /\ UNCHANGED <<lacoVars, redeVars, shoud_terminate, estado>>

(* A reset arrives.  After the end of the stream the pending error is      *)
(* EPIPE; before it, ECONNRESET, which the next call consumes.             *)
Derruba(s) ==
  /\ Viva(s)
  /\ \/ par[s] = "aberto" /\ par' = [par EXCEPT ![s] = "rst"]
     \/ par[s] = "fin" /\ par' = [par EXCEPT ![s] = "epipe"]
  /\ UNCHANGED <<lacoVars, redeVars, shoud_terminate, estado>>

(* SIGTERM or SIGINT.  A blocked poll returns EINTR.                       *)
handle_signal ==
  /\ ~shoud_terminate
  /\ pc \notin {"fim", "morto"}
  /\ shoud_terminate' = TRUE
  /\ pc' = IF pc = "poll" THEN "testa" ELSE pc
  /\ UNCHANGED <<i, pfds, revents, nfds, parser, lidos, respostas, redeVars,
                 estado, par>>

-----------------------------------------------------------------------------
(* The loop.                                                               *)
mundo == <<redeVars, shoud_terminate, estado, par>>
tabela == <<pfds, revents, nfds>>

MutTestaSempre ==
  /\ pc = "testa"
  /\ pc' = "antes_do_poll"
  /\ UNCHANGED <<i, tabela, parser, lidos, respostas, mundo>>
Testa ==
  /\ pc = "testa"
  /\ pc' = IF shoud_terminate THEN "fim" ELSE "antes_do_poll"
  /\ UNCHANGED <<i, tabela, parser, lidos, respostas, mundo>>

EntraNoPoll ==
  /\ pc = "antes_do_poll"
  /\ pc' = "poll"
  /\ UNCHANGED <<i, tabela, parser, lidos, respostas, mundo>>

(* What poll may say of an entry.  Linux reports POLLIN on a reset         *)
(* connection; poll does not promise it.                                   *)
EventosDaConexao(s) ==
  CASE par[s] \in {"rst", "epipe"} -> {"pollin", "outro"}
    [] par[s] = "fin" \/ enviados[s] > lidos[s] -> {"pollin"}
    [] OTHER -> {"nada"}
EventosDaEscuta == IF fila = <<>> THEN {"nada"} ELSE {"pollin"}
Eventos(fd) ==
  IF fd \in Sockets THEN EventosDaConexao(fd)
  ELSE IF fd = Escuta THEN EventosDaEscuta ELSE {"nada"}

HaEvento == \E j \in Posicoes : pfds[j] # Livre /\ Eventos(pfds[j]) # {"nada"}

PollVolta ==
  /\ pc = "poll"
  /\ HaEvento
  /\ revents' \in {r \in [Posicoes -> {"nada", "pollin", "outro"}] :
                     \A j \in Posicoes : r[j] \in Eventos(pfds[j])}
  /\ pc' = "passa"
  /\ i' = 0
  /\ UNCHANGED <<pfds, nfds, parser, lidos, respostas, mundo>>

FimDaPassada ==
  /\ pc = "passa"
  /\ i = SOCKET_MAX_POLL
  /\ pc' = "testa"
  /\ UNCHANGED <<i, tabela, parser, lidos, respostas, mundo>>

NaPosicao(evento) ==
  /\ pc = "passa"
  /\ i < SOCKET_MAX_POLL
  /\ revents[i] = evento

Proxima == i' = i + 1 /\ pc' = "passa"

Pula ==
  /\ NaPosicao("nada")
  /\ Proxima
  /\ UNCHANGED <<tabela, parser, lidos, respostas, mundo>>

NaEscuta == NaPosicao("pollin") /\ i = 0

MutAceitaSemLimite ==
  /\ NaEscuta
  /\ Proxima
  /\ poll_push(Head(fila))
  /\ estado' = [estado EXCEPT ![Head(fila)] = "aberta"]
  /\ fila' = Tail(fila)
  /\ UNCHANGED <<parser, lidos, respostas, roteiro, enviados, shoud_terminate,
                 par>>
Aceita ==
  /\ NaEscuta
  /\ nfds < SOCKET_MAX_POLL
  /\ Proxima
  /\ poll_push(Head(fila))
  /\ estado' = [estado EXCEPT ![Head(fila)] = "aberta"]
  /\ fila' = Tail(fila)
  /\ UNCHANGED <<parser, lidos, respostas, roteiro, enviados, shoud_terminate,
                 par>>

(* The table is full, or accept fails: the connection stays in the queue.  *)
NaoAceita ==
  /\ NaEscuta
  /\ Proxima
  /\ UNCHANGED <<tabela, parser, lidos, respostas, mundo>>

EntraSocketRead ==
  /\ NaPosicao("pollin")
  /\ i # 0
  /\ pc' = "socket_read"
  /\ UNCHANGED <<i, tabela, parser, lidos, respostas, mundo>>

(* shutdown, close, poll_pop.  Unread pieces are gone.                     *)
FechaConexao(s) ==
  /\ estado' = [estado EXCEPT ![s] = "fechada"]
  /\ enviados' = [enviados EXCEPT ![s] = lidos[s]]
  /\ poll_pop(s)
  /\ Proxima
  /\ UNCHANGED <<revents, parser, lidos, respostas, roteiro, fila,
                 shoud_terminate, par>>

(* The pieces recv returns, and the parser after it has run over them.     *)
NumRecv(s) == Min({enviados[s] - lidos[s], SOCKET_MAX_READ_BUFFER})
Analisado(s) ==
  http_parser_parse(parser,
                    SubSeq(roteiro[s], lidos[s] + 1, lidos[s] + NumRecv(s)))
Completo(h) == Sucesso(h) /\ http_parser_request_is_complete(h)

NoRecv(s) ==
  /\ pc = "socket_read"
  /\ pfds[i] = s
  /\ NumRecv(s) > 0
  /\ lidos' = [lidos EXCEPT ![s] = @ + NumRecv(s)]
  /\ UNCHANGED <<i, tabela, redeVars, shoud_terminate, estado>>

(* The parse failed, or the request is not complete: only a log line.      *)
RecvSemResposta(s) ==
  /\ NoRecv(s)
  /\ ~Completo(Analisado(s))
  /\ parser' = Analisado(s)
  /\ UNCHANGED <<pc, respostas, par>>

(* The url as the text the router is given.                                *)
Texto(url) == FlattenSeq([k \in DOMAIN url |-> Alvo[url[k].pedido][url[k].parte]])

(* router_route, send, http_parser_reset_request.                          *)
RecvResponde(s) ==
  LET h == Analisado(s)
  IN /\ NoRecv(s)
     /\ Completo(h)
     /\ par[s] # "epipe"
     /\ par' = [par EXCEPT ![s] = IF @ = "rst" THEN "epipe" ELSE @]
     /\ respostas' =
          [respostas EXCEPT
             ![s] = Append(@, [method |-> h.method, url |-> h.url,
                               body |-> h.body,
                               rota |-> router_route(Alvo[h.method].method,
                                                     Texto(h.url))])]
     /\ parser' = http_parser_reset_request(h)
     /\ UNCHANGED pc

(* send raises SIGPIPE, which nobody handles.                              *)
RecvMorre(s) ==
  /\ NoRecv(s)
  /\ Completo(Analisado(s))
  /\ par[s] = "epipe"
  /\ pc' = "morto"
  /\ parser' = Analisado(s)
  /\ UNCHANGED <<respostas, par>>

(* recv finds nothing, the end of the stream, or an error.                 *)
FimDoRecv(s) ==
  /\ pc = "socket_read"
  /\ pfds[i] = s
  /\ enviados[s] = lidos[s]
  /\ FechaConexao(s)

MutFechaSemLer(s) ==
  /\ NaPosicao("outro")
  /\ pfds[i] = s
  /\ Proxima
  /\ UNCHANGED <<tabela, parser, lidos, respostas, mundo>>

(* Events, but nothing to read.                                            *)
FechaSemLer(s) ==
  /\ NaPosicao("outro")
  /\ pfds[i] = s
  /\ FechaConexao(s)

-----------------------------------------------------------------------------
Laco ==
  \/ Testa
  \/ EntraNoPoll
  \/ PollVolta
  \/ Pula
  \/ Aceita
  \/ NaoAceita
  \/ EntraSocketRead
  \/ FimDaPassada
  \/ \E s \in Sockets :
       \/ RecvSemResposta(s)
       \/ RecvResponde(s)
       \/ RecvMorre(s)
       \/ FimDoRecv(s)
       \/ FechaSemLer(s)

Cliente(s) == Conecta(s) \/ Envia(s) \/ Encerra(s) \/ Derruba(s)

(* The process has ended, or every client has come and poll has nothing to *)
(* report.                                                                 *)
Fim ==
  /\ \/ pc \in {"fim", "morto"}
     \/ pc = "poll" /\ ~HaEvento /\ \A s \in Sockets : estado[s] # "fora"
  /\ UNCHANGED vars

Next == Laco \/ handle_signal \/ (\E s \in Sockets : Cliente(s)) \/ Fim

Spec == Init /\ [][Next]_vars

(* The loop runs; accept does not fail for ever; a connected client sends  *)
(* or gives up.  Nobody has to connect or to send the signal.              *)
Fairness ==
  /\ WF_vars(Laco)
  /\ SF_vars(Aceita)
  /\ \A s \in Sockets : WF_vars(Envia(s) \/ Encerra(s))

FairSpec == Spec /\ Fairness

-----------------------------------------------------------------------------
(* Properties.                                                             *)

(* Every accepted connection is in the table exactly once until it is      *)
(* closed, nothing else is, and nfds counts the entries in use: no         *)
(* descriptor leaks or is polled after close, however full the table gets. *)
TabelaExata ==
  /\ nfds = Cardinality({j \in Posicoes : pfds[j] # Livre})
  /\ Onde(Escuta) = {0}
  /\ \A s \in Sockets :
       Cardinality(Onde(s)) = IF estado[s] = "aberta" THEN 1 ELSE 0

(* The names of the requests in a script.                                  *)
PedidosDe(s) == {roteiro[s][k].pedido : k \in DOMAIN roteiro[s]}

(* The script of s is one well-formed request that fits the buffers.       *)
Simples(s) ==
  \E p \in Pedidos, n \in 0..MaxCorpo, m \in BOOLEAN :
    LET pedaco(t, c, k) ==
          [tipo |-> t, pedido |-> p, corpo |-> c, mantem |-> k]
    IN /\ n <= HTTP_REQUEST_BODY_BUFFER_SIZE
       /\ roteiro[s] = << pedaco("metodo", 0, FALSE), pedaco("url", 0, FALSE),
                          pedaco("linha", 0, FALSE), pedaco("cab", n, m) >>
                       \o [k \in 1..n |-> pedaco("corpo", 0, FALSE)]

(* All the client was to send was read before the connection was closed.   *)
LidoInteiro(s) == lidos[s] = Len(roteiro[s])
Fechada(s) == estado[s] = "fechada"

UrlInteira(p) == <<Metade(p, "url"), Metade(p, "linha")>>

(* An answer made from the one request of s and from nothing else.         *)
Fiel(s, r) ==
  LET p == roteiro[s][1].pedido
  IN /\ r.method = p
     /\ r.url = UrlInteira(p)
     /\ r.body = [k \in 1..roteiro[s][4].corpo |-> p]

(* As long as every connection carried one well-formed request and was     *)
(* read to its end, each got one answer, made from its own request:        *)
(* however the bytes were cut into segments and whatever the order of the  *)
(* connections, the shared parser shows nothing of one to another.         *)
UmPedidoUmaResposta ==
  (\A s \in Sockets : Fechada(s) => Simples(s) /\ LidoInteiro(s)) =>
    \A s \in Sockets :
      Fechada(s) => Len(respostas[s]) = 1 /\ Fiel(s, respostas[s][1])

(* The url given to the router is the url of one request: handle_on_url    *)
(* appends only to what it has already read of that url.                   *)
UrlDeUmPedido ==
  \A s \in Sockets : \A k \in DOMAIN respostas[s] :
    \A a, b \in DOMAIN respostas[s][k].url :
      respostas[s][k].url[a].pedido = respostas[s][k].url[b].pedido

(* The script of s is well-formed requests, one after the other.           *)
Inteiros(s) ==
  LET r == roteiro[s]
      fim(k) == k + 4 + r[k + 3].corpo   \* behind the request that begins at k
  IN /\ r # <<>> => r[1].tipo = "metodo"
     /\ \A k \in DOMAIN r : r[k].tipo = "metodo" =>
          /\ k + 3 <= Len(r)
          /\ r[k + 1].tipo = "url" /\ r[k + 2].tipo = "linha"
          /\ r[k + 3].tipo = "cab"
          /\ \A j \in (k + 4)..(fim(k) - 1) :
               j <= Len(r) /\ r[j].tipo = "corpo"
          /\ \A j \in k..(fim(k) - 1) : r[j].pedido = r[k].pedido
          /\ fim(k) = Len(r) + 1 \/ r[fim(k)].tipo = "metodo"

(* As long as every connection carried whole well-formed requests, as many *)
(* as its client likes and sent without waiting, and was read to its end:  *)
(* a handler is called only with one request of the connection it answers  *)
(* on, its whole url and body, by its method, and goes on with the id its  *)
(* client means.  Urls that were glued, or joined with the method of the   *)
(* request behind, are answered 400.                                       *)
HandlerDeUmPedido ==
  (\A s \in Sockets : Fechada(s) => Inteiros(s) /\ LidoInteiro(s)) =>
    \A s \in Sockets : \A k \in DOMAIN respostas[s] :
      LET r == respostas[s][k]
      IN r.rota # SemRota =>
           \E c \in DOMAIN roteiro[s] :
             LET p == roteiro[s][c].pedido
             IN /\ roteiro[s][c].tipo = "cab"
                /\ r.url = UrlInteira(p)
                /\ r.body = [j \in 1..roteiro[s][c].corpo |-> p]
                /\ Alvo[r.method].method = Alvo[p].method
                /\ r.rota.id = Alvo[p].id

(* Whatever clients send, pipeline, cut or leave unfinished, no part of a  *)
(* request line is given to the router twice, on one connection or on two: *)
(* what a request leaves in the shared parser may end up in the answer to  *)
(* another, but no request is executed again.                              *)
LinhaUmaVez ==
  \A s, t \in Sockets :
    \A k \in DOMAIN respostas[s], l \in DOMAIN respostas[t] :
      \A a \in DOMAIN respostas[s][k].url, b \in DOMAIN respostas[t][l].url :
        respostas[s][k].url[a] = respostas[t][l].url[b] =>
          s = t /\ k = l /\ a = b

(* A failed parse is a failure of the request at hand: a well-formed       *)
(* request that was read to its end is answered.                           *)
BemFormadoRespondido ==
  \A s \in Sockets :
    Fechada(s) /\ Simples(s) /\ LidoInteiro(s) => respostas[s] # <<>>

(* Every connection in the queue is accepted and closed, though the table  *)
(* may be full when it arrives and accept may fail.                        *)
TodaConexaoEncerrada ==
  \A s \in Sockets :
    estado[s] = "fila" ~> (Fechada(s) \/ pc \in {"fim", "morto"})

(* The signal ends the loop, unless it falls between the test of           *)
(* shoud_terminate and poll.                                               *)
TerminaPeloSinal ==
  (shoud_terminate /\ pc \notin {"antes_do_poll", "poll"})
    ~> pc \in {"fim", "morto"}
=============================================================================
