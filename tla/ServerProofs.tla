---------------------------- MODULE ServerProofs ----------------------------
(***************************************************************************)
(* The server loop, its parser and the router, for every size of the table *)
(* and of the buffers, every set of connections and whatever their clients *)
(* send in whatever segments.  In this order:                              *)
(*                                                                         *)
(*   - the poll table is exact (SrvTabelaExata);                           *)
(*   - one llhttp_execute is a fold over the pieces a recv returned: what  *)
(*     a piece preserves, the call preserves (ExecutePreserva);            *)
(*   - every variable keeps its type (SrvTipos);                           *)
(*   - one well-formed request per connection gets one answer, made of its *)
(*     own bytes (SrvUmPedidoUmaResposta);                                 *)
(*   - no request line is given to the router twice (SrvLinhaUmaVez).      *)
(***************************************************************************)
EXTENDS Server, FiniteSetTheorems, SequenceTheorems, WellFoundedInduction,
        TLAPS

(* The variables of the loop that the table depends on.                    *)
LacoTipos ==
  /\ pfds \in [Posicoes -> Sockets \cup {Escuta, Livre}]
  /\ revents \in [Posicoes -> {"nada", "pollin", "outro"}]
  /\ i \in 0..SOCKET_MAX_POLL
  /\ pc = "socket_read" => i < SOCKET_MAX_POLL
  /\ estado \in [Sockets -> {"fora", "fila", "aberta", "fechada"}]
  /\ fila \in Seq(Sockets)

(* A connection waits in the accept queue once, and only before accept.    *)
FilaExata ==
  /\ \A k \in 1..Len(fila) : estado[fila[k]] = "fila"
  /\ \A k, l \in 1..Len(fila) : fila[k] = fila[l] => k = l

(* poll reported the listening socket because somebody was in the queue,   *)
(* and nobody leaves it before accept.                                     *)
HaQuemAceitar ==
  pc = "passa" /\ i = 0 /\ revents[0] = "pollin" => fila # <<>>

(* TabelaExata without cardinalities of single entries.                    *)
Usadas == {j \in Posicoes : pfds[j] # Livre}
TabelaUnica ==
  /\ nfds = Cardinality(Usadas)
  /\ \A j \in Posicoes : pfds[j] = Escuta <=> j = 0
  /\ \A j, k \in Posicoes : pfds[j] \in Sockets /\ pfds[j] = pfds[k] => j = k
  /\ \A s \in Sockets : estado[s] = "aberta" <=> \E j \in Posicoes : pfds[j] = s

Tabela == LacoTipos /\ FilaExata /\ HaQuemAceitar /\ TabelaUnica

-----------------------------------------------------------------------------
LEMMA PosicoesFinitas ==
  /\ IsFiniteSet(Posicoes)
  /\ Cardinality(Posicoes) = SOCKET_MAX_POLL
  /\ 0 \in Posicoes
  /\ Posicoes \subseteq Nat
<1>1. 0 \in Int /\ SOCKET_MAX_POLL - 1 \in Int /\ SOCKET_MAX_POLL \in Nat
      /\ SOCKET_MAX_POLL >= 1
  BY LimitesAssumption
<1>2. /\ IsFiniteSet(Posicoes)
      /\ Cardinality(Posicoes) =
           IF 0 > SOCKET_MAX_POLL - 1 THEN 0 ELSE (SOCKET_MAX_POLL - 1) - 0 + 1
  BY <1>1, FS_Interval DEF Posicoes
<1>3. Cardinality(Posicoes) = SOCKET_MAX_POLL
  BY <1>1, <1>2
<1>4. 0 \in Posicoes /\ Posicoes \subseteq Nat
  BY <1>1 DEF Posicoes
<1> QED
  BY <1>2, <1>3, <1>4

LEMMA MinPertence ==
  ASSUME NEW S, S \subseteq Posicoes, S # {}
  PROVE  Min(S) \in S
<1>1. S \subseteq Nat
  BY PosicoesFinitas
<1>2. PICK x \in S : \A y \in S : <<y, x>> \notin OpToRel(<, Nat)
  BY <1>1, WFMin, NatLessThanWellFounded
<1>3. \A y \in S : x =< y
  <2> TAKE y \in S
  <2>1. ~(y < x)
    BY <1>1, <1>2 DEF OpToRel
  <2> QED
    BY <1>1, <2>1
<1> QED
  BY <1>3 DEF Min

(* Two tables that differ in one entry.                                    *)
LEMMA ContaMaisUma ==
  ASSUME NEW j \in Posicoes, NEW fd, fd # Livre,
         pfds \in [Posicoes -> Sockets \cup {Escuta, Livre}],
         pfds[j] = Livre, pfds' = [pfds EXCEPT ![j] = fd]
  PROVE  Cardinality(Usadas') = Cardinality(Usadas) + 1
<1>1. IsFiniteSet(Usadas)
  BY PosicoesFinitas, FS_Subset DEF Usadas
<1>2. Usadas' = Usadas \cup {j} /\ j \notin Usadas
  BY DEF Usadas, Posicoes
<1> QED
  BY <1>1, <1>2, FS_AddElement

LEMMA ContaMenosUma ==
  ASSUME NEW j \in Posicoes,
         pfds \in [Posicoes -> Sockets \cup {Escuta, Livre}],
         pfds[j] # Livre, pfds' = [pfds EXCEPT ![j] = Livre]
  PROVE  Cardinality(Usadas') = Cardinality(Usadas) - 1
<1>1. IsFiniteSet(Usadas)
  BY PosicoesFinitas, FS_Subset DEF Usadas
<1>2. Usadas' = Usadas \ {j} /\ j \in Usadas
  BY DEF Usadas, Posicoes
<1> QED
  BY <1>1, <1>2, FS_RemoveElement

(* A table that is not full by its counter has a free entry.               *)
LEMMA HaEntradaLivre ==
  ASSUME TabelaUnica, nfds < SOCKET_MAX_POLL
  PROVE  Onde(Livre) # {} /\ Min(Onde(Livre)) \in Onde(Livre)
<1>1. Usadas # Posicoes
  BY PosicoesFinitas, LimitesAssumption DEF TabelaUnica
<1>2. Onde(Livre) # {}
  BY <1>1 DEF Usadas, Onde
<1> QED
  BY <1>2, MinPertence DEF Onde

(* The entry of a connection is the only one poll_pop can find.            *)
LEMMA EntradaDe ==
  ASSUME TabelaUnica, NEW s \in Sockets, NEW j \in Posicoes, pfds[j] = s
  PROVE  Min(Onde(s)) = j
<1>1. Onde(s) = {j}
  BY DEF TabelaUnica, Onde
<1>2. Min(Onde(s)) \in Onde(s)
  BY <1>1, MinPertence DEF Onde
<1> QED
  BY <1>1, <1>2

-----------------------------------------------------------------------------
(* The invariant holds at the start and every step preserves it.           *)
LEMMA TabelaInit == Init => Tabela
<1> SUFFICES ASSUME Init PROVE Tabela
  OBVIOUS
<1> USE DEF Init
<1>1. LacoTipos
  BY PosicoesFinitas, LimitesAssumption DEF LacoTipos
<1>2. FilaExata /\ HaQuemAceitar
  BY DEF FilaExata, HaQuemAceitar
<1>3. Usadas = {0}
  BY PosicoesFinitas, SocketsAssumption DEF Usadas
<1>4. nfds = Cardinality(Usadas)
  BY <1>3, FS_Singleton
<1>5. TabelaUnica
  BY <1>4, PosicoesFinitas, SocketsAssumption DEF TabelaUnica
<1> QED
  BY <1>1, <1>2, <1>5 DEF Tabela

(* accept: the head of the queue takes a free entry.                       *)
LEMMA TabelaAceita ==
  ASSUME Tabela, Aceita
  PROVE  Tabela'
<1> DEFINE s == Head(fila)
           j == Min(Onde(Livre))
<1> USE DEF Tabela
<1>1. fila # <<>> /\ fila \in Seq(Sockets)
  BY DEF Aceita, NaEscuta, NaPosicao, HaQuemAceitar, LacoTipos
<1>2. s \in Sockets /\ s = fila[1] /\ Len(fila) \in Nat /\ Len(fila) >= 1
  BY <1>1
<1>3. estado[s] = "fila"
  BY <1>2 DEF FilaExata
<1>4. j \in Posicoes /\ pfds[j] = Livre
  BY HaEntradaLivre DEF Aceita, Onde
<1>5. pfds' = [pfds EXCEPT ![j] = s] /\ nfds' = nfds + 1
      /\ revents' = [revents EXCEPT ![j] = "nada"]
  <2>1. nfds < SOCKET_MAX_POLL /\ poll_push(s)
    BY DEF Aceita
  <2>2. Onde(Livre) # {}
    BY <2>1, HaEntradaLivre
  <2>3. IsFiniteSet(Usadas)
    BY PosicoesFinitas, FS_Subset DEF Usadas
  <2>4. nfds \in Nat
    BY <2>3, FS_CardinalityType DEF TabelaUnica
  <2>5. ~(nfds >= SOCKET_MAX_POLL)
    BY <2>1, <2>4, LimitesAssumption
  <2> QED
    BY <2>1, <2>2, <2>5 DEF poll_push
<1>6. estado' = [estado EXCEPT ![s] = "aberta"] /\ fila' = Tail(fila)
      /\ i' = i + 1 /\ pc' = "passa" /\ i = 0
  BY DEF Aceita, Proxima, NaEscuta
<1>7. LacoTipos'
  BY <1>1, <1>2, <1>4, <1>5, <1>6, LimitesAssumption DEF LacoTipos, Posicoes
<1>8. FilaExata'
  <2>1. Len(fila') = Len(fila) - 1
        /\ \A k \in 1..Len(fila') : fila'[k] = fila[k + 1]
    BY <1>1, <1>6
  <2>2. \A k \in 1..Len(fila') : k + 1 \in 1..Len(fila) /\ fila'[k] # s
    BY <1>2, <2>1 DEF FilaExata
  <2>3. \A k \in 1..Len(fila') : estado'[fila'[k]] = "fila"
    BY <1>1, <1>2, <1>6, <2>1, <2>2 DEF FilaExata, LacoTipos
  <2>4. ASSUME NEW k \in 1..Len(fila'), NEW l \in 1..Len(fila'),
               fila'[k] = fila'[l]
        PROVE  k = l
    <3>1. fila[k + 1] = fila[l + 1]
      BY <2>1, <2>4
    <3>2. k + 1 = l + 1
      BY <2>2, <3>1 DEF FilaExata
    <3> QED
      BY <3>2
  <2> QED
    BY <2>3, <2>4 DEF FilaExata
<1>9. HaQuemAceitar'
  BY <1>6 DEF HaQuemAceitar
<1>10. TabelaUnica'
  <2>1. nfds' = Cardinality(Usadas')
    BY <1>2, <1>4, <1>5, ContaMaisUma, SocketsAssumption DEF TabelaUnica, LacoTipos
  <2>2. \A k \in Posicoes : pfds'[k] = IF k = j THEN s ELSE pfds[k]
    BY <1>4, <1>5 DEF LacoTipos
  <2>3. \A k \in Posicoes : pfds[k] # s
    BY <1>2, <1>3 DEF TabelaUnica
  <2>4. j # 0
    BY <1>4, SocketsAssumption DEF TabelaUnica
  <2>5. \A k \in Posicoes : pfds'[k] = Escuta <=> k = 0
    BY <1>2, <2>2, <2>4, SocketsAssumption DEF TabelaUnica
  <2>6. \A k, l \in Posicoes :
          pfds'[k] \in Sockets /\ pfds'[k] = pfds'[l] => k = l
    BY <2>2, <2>3 DEF TabelaUnica
  <2>7. \A t \in Sockets :
          estado'[t] = "aberta" <=> \E k \in Posicoes : pfds'[k] = t
    <3> TAKE t \in Sockets
    <3>1. CASE t = s
      BY <1>2, <1>4, <1>6, <2>2, <3>1 DEF LacoTipos
    <3>2. CASE t # s
      <4>1. estado'[t] = estado[t]
        BY <1>6, <3>2 DEF LacoTipos
      <4>2. \A k \in Posicoes : pfds'[k] = t <=> pfds[k] = t
        BY <1>4, <2>2, <3>2, SocketsAssumption
      <4> QED
        BY <4>1, <4>2 DEF TabelaUnica
    <3> QED
      BY <3>1, <3>2
  <2> QED
    BY <2>1, <2>5, <2>6, <2>7 DEF TabelaUnica
<1> QED
  BY <1>7, <1>8, <1>9, <1>10

(* close: the entry of the connection is freed.                            *)
LEMMA TabelaFecha ==
  ASSUME Tabela, NEW s \in Sockets, FechaConexao(s),
         i \in Posicoes, pfds[i] = s
  PROVE  Tabela'
<1> USE DEF Tabela
<1>1. pfds' = [pfds EXCEPT ![i] = Livre] /\ nfds' = nfds - 1
  BY EntradaDe DEF FechaConexao, poll_pop
<1>2. estado' = [estado EXCEPT ![s] = "fechada"]
      /\ i' = i + 1 /\ pc' = "passa" /\ UNCHANGED <<revents, fila>>
  BY DEF FechaConexao, Proxima
<1>3. estado[s] = "aberta"
  BY DEF TabelaUnica
<1>4. LacoTipos'
  BY <1>1, <1>2, LimitesAssumption DEF LacoTipos, Posicoes
<1>5. FilaExata'
  BY <1>2, <1>3 DEF FilaExata, LacoTipos
<1>6. HaQuemAceitar'
  <2>1. i' # 0
    BY <1>2, PosicoesFinitas
  <2> QED
    BY <2>1 DEF HaQuemAceitar
<1>7. TabelaUnica'
  <2>1. nfds' = Cardinality(Usadas')
    BY <1>1, ContaMenosUma, SocketsAssumption DEF TabelaUnica, LacoTipos
  <2>2. \A k \in Posicoes : pfds'[k] = IF k = i THEN Livre ELSE pfds[k]
    BY <1>1 DEF LacoTipos
  <2>3. i # 0
    BY SocketsAssumption DEF TabelaUnica
  <2>4. \A k \in Posicoes : pfds'[k] = Escuta <=> k = 0
    BY <2>2, <2>3, SocketsAssumption DEF TabelaUnica
  <2>5. \A k, l \in Posicoes :
          pfds'[k] \in Sockets /\ pfds'[k] = pfds'[l] => k = l
    BY <2>2, SocketsAssumption DEF TabelaUnica
  <2>6. \A t \in Sockets :
          estado'[t] = "aberta" <=> \E k \in Posicoes : pfds'[k] = t
    <3> TAKE t \in Sockets
    <3>1. CASE t = s
      BY <1>2, <2>2, <3>1, SocketsAssumption DEF LacoTipos, TabelaUnica
    <3>2. CASE t # s
      <4>1. estado'[t] = estado[t]
        BY <1>2, <3>2 DEF LacoTipos
      <4>2. \A k \in Posicoes : pfds'[k] = t <=> pfds[k] = t
        BY <2>2, <3>2, SocketsAssumption
      <4> QED
        BY <4>1, <4>2 DEF TabelaUnica
    <3> QED
      BY <3>1, <3>2
  <2> QED
    BY <2>1, <2>4, <2>5, <2>6 DEF TabelaUnica
<1> QED
  BY <1>4, <1>5, <1>6, <1>7

(* A step that leaves the table, the queue and the connections alone.      *)
LEMMA TabelaParada ==
  ASSUME Tabela, UNCHANGED <<pfds, nfds, estado, fila>>,
         LacoTipos', HaQuemAceitar'
  PROVE  Tabela'
<1>1. TabelaUnica'
  BY DEF Tabela, TabelaUnica, Usadas
<1>2. FilaExata'
  BY DEF Tabela, FilaExata
<1> QED
  BY <1>1, <1>2 DEF Tabela

LEMMA TabelaConecta ==
  ASSUME Tabela, NEW s \in Sockets, Conecta(s)
  PROVE  Tabela'
<1> USE DEF Tabela
<1>1. fila' = Append(fila, s) /\ estado' = [estado EXCEPT ![s] = "fila"]
      /\ estado[s] = "fora" /\ UNCHANGED <<pc, i, pfds, revents, nfds>>
  BY DEF Conecta, lacoVars
<1>2. LacoTipos'
  BY <1>1 DEF LacoTipos
<1>3. FilaExata'
  <2>1. fila \in Seq(Sockets) /\ Len(fila) \in Nat
    BY DEF LacoTipos
  <2>2. Len(fila') = Len(fila) + 1
        /\ \A k \in 1..Len(fila') :
             fila'[k] = IF k = Len(fila) + 1 THEN s ELSE fila[k]
    BY <1>1, <2>1
  <2>3. \A k \in 1..Len(fila) : fila[k] # s
    BY <1>1 DEF FilaExata
  <2>4. \A k \in 1..Len(fila') : estado'[fila'[k]] = "fila"
    BY <1>1, <2>1, <2>2 DEF FilaExata, LacoTipos
  <2>5. \A k, l \in 1..Len(fila') : fila'[k] = fila'[l] => k = l
    BY <2>1, <2>2, <2>3 DEF FilaExata
  <2> QED
    BY <2>4, <2>5 DEF FilaExata
<1>4. HaQuemAceitar'
  BY <1>1, <1>2 DEF HaQuemAceitar, LacoTipos
<1>5. TabelaUnica'
  BY <1>1 DEF TabelaUnica, Usadas, LacoTipos
<1> QED
  BY <1>2, <1>3, <1>4, <1>5

LEMMA TabelaNext == Tabela /\ [Next]_vars => Tabela'
<1> SUFFICES ASSUME Tabela, [Next]_vars PROVE Tabela'
  OBVIOUS
<1> USE DEF tabela, mundo, redeVars
<1>1. ASSUME Testa PROVE Tabela'
  BY <1>1, TabelaParada DEF Testa, Tabela, LacoTipos, HaQuemAceitar
<1>2. ASSUME EntraNoPoll PROVE Tabela'
  BY <1>2, TabelaParada DEF EntraNoPoll, Tabela, LacoTipos, HaQuemAceitar
<1>3. ASSUME PollVolta PROVE Tabela'
  <2>1. LacoTipos'
    BY <1>3, LimitesAssumption DEF PollVolta, Tabela, LacoTipos
  <2>2. pfds[0] = Escuta /\ revents'[0] \in Eventos(pfds[0])
    BY <1>3, PosicoesFinitas DEF PollVolta, Tabela, TabelaUnica
  <2>3. ASSUME fila = <<>> PROVE Eventos(Escuta) = {"nada"}
    BY <2>3, SocketsAssumption DEF Eventos, EventosDaEscuta
  <2>4. revents'[0] = "pollin" => fila # <<>>
    BY <2>2, <2>3
  <2> QED
    BY <1>3, <2>1, <2>4, TabelaParada DEF PollVolta, HaQuemAceitar
<1>4. ASSUME Pula PROVE Tabela'
  BY <1>4, TabelaParada, LimitesAssumption
     DEF Pula, NaPosicao, Proxima, Tabela, LacoTipos, HaQuemAceitar
<1>5. ASSUME NaoAceita PROVE Tabela'
  BY <1>5, TabelaParada, LimitesAssumption
     DEF NaoAceita, NaEscuta, NaPosicao, Proxima, Tabela, LacoTipos, HaQuemAceitar
<1>6. ASSUME EntraSocketRead PROVE Tabela'
  BY <1>6, TabelaParada
     DEF EntraSocketRead, NaPosicao, Tabela, LacoTipos, HaQuemAceitar
<1>7. ASSUME FimDaPassada PROVE Tabela'
  BY <1>7, TabelaParada DEF FimDaPassada, Tabela, LacoTipos, HaQuemAceitar
<1>8. ASSUME NEW s \in Sockets,
             RecvSemResposta(s) \/ RecvResponde(s) \/ RecvMorre(s)
      PROVE  Tabela'
  <2>1. UNCHANGED <<i, pfds, revents, nfds, fila, estado>>
        /\ pc = "socket_read" /\ pc' \in {"socket_read", "morto"}
    BY <1>8 DEF RecvSemResposta, RecvResponde, RecvMorre, NoRecv
  <2> QED
    BY <2>1, TabelaParada DEF Tabela, LacoTipos, HaQuemAceitar
<1>9. ASSUME NEW s \in Sockets, FimDoRecv(s) PROVE Tabela'
  <2>1. i \in Posicoes /\ pfds[i] = s
    BY <1>9, LimitesAssumption DEF FimDoRecv, Tabela, LacoTipos, Posicoes
  <2> QED
    BY <1>9, <2>1, TabelaFecha DEF FimDoRecv
<1>10. ASSUME NEW s \in Sockets, FechaSemLer(s) PROVE Tabela'
  <2>1. i \in Posicoes /\ pfds[i] = s
    BY <1>10, LimitesAssumption DEF FechaSemLer, NaPosicao, Tabela, LacoTipos, Posicoes
  <2> QED
    BY <1>10, <2>1, TabelaFecha DEF FechaSemLer
<1>11. ASSUME handle_signal PROVE Tabela'
  BY <1>11, TabelaParada DEF handle_signal, Tabela, LacoTipos, HaQuemAceitar
<1>12. ASSUME NEW s \in Sockets, Envia(s) \/ Encerra(s) \/ Derruba(s)
       PROVE  Tabela'
  <2>1. UNCHANGED <<pc, i, pfds, revents, nfds, fila, estado>>
    BY <1>12 DEF Envia, Encerra, Derruba, lacoVars
  <2> QED
    BY <2>1, TabelaParada DEF Tabela, LacoTipos, HaQuemAceitar
<1>13. ASSUME UNCHANGED vars PROVE Tabela'
  BY <1>13, TabelaParada DEF vars, lacoVars, Tabela, LacoTipos, HaQuemAceitar
<1> QED
  BY <1>1, <1>2, <1>3, <1>4, <1>5, <1>6, <1>7, <1>8, <1>9, <1>10, <1>11, <1>12,
     <1>13, TabelaAceita, TabelaConecta DEF Next, Laco, Cliente, Fim

(* No connection leaks and none is polled after it is closed, whatever the *)
(* size of the table and however many connections come.                    *)
THEOREM SrvTabelaExata == Spec => []TabelaExata
<1>1. Tabela => TabelaExata
  <2> SUFFICES ASSUME Tabela PROVE TabelaExata
    OBVIOUS
  <2> USE DEF Tabela
  <2>1. nfds = Cardinality({j \in Posicoes : pfds[j] # Livre})
    BY DEF TabelaUnica, Usadas
  <2>2. Onde(Escuta) = {0}
    BY PosicoesFinitas DEF TabelaUnica, Onde
  <2>3. ASSUME NEW s \in Sockets
        PROVE  Cardinality(Onde(s)) = IF estado[s] = "aberta" THEN 1 ELSE 0
    <3>1. CASE estado[s] = "aberta"
      <4>1. PICK j \in Posicoes : pfds[j] = s
        BY <3>1 DEF TabelaUnica
      <4>2. Onde(s) = {j}
        BY <4>1 DEF TabelaUnica, Onde
      <4> QED
        BY <3>1, <4>2, FS_Singleton
    <3>2. CASE estado[s] # "aberta"
      <4>1. Onde(s) = {}
        BY <3>2 DEF TabelaUnica, Onde
      <4> QED
        BY <3>2, <4>1, FS_EmptySet
    <3> QED
      BY <3>1, <3>2
  <2> QED
    BY <2>1, <2>2, <2>3 DEF TabelaExata
<1> QED
  BY <1>1, TabelaInit, TabelaNext, PTL DEF Spec
-----------------------------------------------------------------------------
(* llhttp runs over the pieces of one recv as a fold.  A fold is read from *)
(* a table: over the subsets of the positions, the parser after the pieces *)
(* at those positions.                                                     *)
Pedacada(h, ps, g) ==
  g = [S \in SUBSET (DOMAIN ps) |->
         IF S = {} THEN h ELSE Passo(g[S \ {Max(S)}], ps[Max(S)])]

LEMMA Inducao ==
  ASSUME NEW S, S \subseteq Nat, 0 \in S, \A n \in S : n + 1 \in S
  PROVE  S = Nat
<1>1. SUFFICES ASSUME Nat \ S # {} PROVE FALSE
  OBVIOUS
<1>. DEFINE R == {ss \in Nat \X Nat : ss[1] < ss[2]}
<1>2. IsWellFoundedOn(R, Nat)
  BY NatLessThanWellFounded DEF OpToRel
<1>3. \A x, y \in Nat : y < x => <<y, x>> \in R
  OBVIOUS
<1>. HIDE DEF R
<1>4. PICK n \in Nat \ S : \A m \in Nat \ S : ~ (<<m, n>> \in R)
  BY <1>1, <1>2, WFMin
<1>5. n # 0 /\ n - 1 \in Nat /\ n - 1 < n
  BY <1>4
<1>6. n - 1 \in S
  BY <1>3, <1>4, <1>5
<1>7. (n - 1) + 1 \in S
  BY <1>6
<1>. QED BY <1>4, <1>5, <1>7

(* The largest position of a set of positions.                             *)
LEMMA MaxPertence ==
  ASSUME NEW n \in Nat, NEW S, S \subseteq 1..n, S # {}
  PROVE  Max(S) \in S /\ \A y \in S : y <= Max(S)
<1>. DEFINE T == {n - x : x \in S}
<1>1. T \subseteq Nat /\ T # {}
  <2>1. \A x \in S : n - x \in Nat
    OBVIOUS
  <2>2. PICK x \in S : TRUE
    OBVIOUS
  <2>3. n - x \in T
    OBVIOUS
  <2>. QED BY <2>1, <2>3
<1>. DEFINE R == {ss \in Nat \X Nat : ss[1] < ss[2]}
<1>2. IsWellFoundedOn(R, Nat)
  BY NatLessThanWellFounded DEF OpToRel
<1>3. \A x, y \in Nat : y < x => <<y, x>> \in R
  OBVIOUS
<1>. HIDE DEF R
<1>4. PICK m \in T : \A k \in T : ~ (<<k, m>> \in R)
  BY <1>1, <1>2, WFMin
<1>5. PICK x \in S : m = n - x
  OBVIOUS
<1>6. \A y \in S : n - y \in T /\ n - y \in Nat /\ ~(n - y < m)
  BY <1>1, <1>3, <1>4
<1>7. \A y \in S : x >= y
  BY <1>5, <1>6
<1>8. Max(S) \in S /\ \A y \in S : Max(S) >= y
  BY <1>7 DEF Max
<1>. QED BY <1>8

LEMMA SubIntervalos ==
  ASSUME NEW n \in Nat
  PROVE  \A S \in SUBSET (1..n) : IsFiniteSet(S) /\ Cardinality(S) \in Nat
                                  /\ Cardinality(S) <= n
<1>1. IsFiniteSet(1..n) /\ Cardinality(1..n) = n
  BY FS_Interval
<1>. QED BY <1>1, FS_Subset, FS_CardinalityType

LEMMA PedacadaExiste ==
  ASSUME NEW h, NEW ps \in Seq(Pedacos)
  PROVE  \E g : Pedacada(h, ps, g)
<1>. DEFINE D == SUBSET (DOMAIN ps)
            Certa(g, n) ==
              \A S \in D : Cardinality(S) <= n =>
                g[S] = IF S = {} THEN h ELSE Passo(g[S \ {Max(S)}], ps[Max(S)])
            N == {n \in Nat : \E g : Certa(g, n)}
<1>0. /\ DOMAIN ps = 1..Len(ps) /\ Len(ps) \in Nat
      /\ \A S \in D : IsFiniteSet(S) /\ Cardinality(S) \in Nat
                      /\ Cardinality(S) <= Len(ps)
  <2>1. DOMAIN ps = 1..Len(ps) /\ Len(ps) \in Nat
    OBVIOUS
  <2>. QED BY <2>1, SubIntervalos
<1>1. 0 \in N
  <2>. DEFINE g == [S \in D |-> h]
  <2>1. \A S \in D : Cardinality(S) <= 0 => S = {}
    BY <1>0, FS_EmptySet
  <2>2. Certa(g, 0)
    BY <2>1
  <2>. HIDE DEF g, Certa
  <2>. QED BY <2>2
<1>2. ASSUME NEW n \in N PROVE n + 1 \in N
  <2>1. PICK g : Certa(g, n)
    OBVIOUS
  <2>. DEFINE f == [S \in D |-> IF S = {} THEN h
                                ELSE Passo(g[S \ {Max(S)}], ps[Max(S)])]
  <2>2. ASSUME NEW S \in D, Cardinality(S) <= n + 1, S # {}
        PROVE  f[S] = Passo(f[S \ {Max(S)}], ps[Max(S)])
    <3>1. PICK R : R = S \ {Max(S)}
      OBVIOUS
    <3>2. Max(S) \in S
      BY <1>0, <2>2, MaxPertence
    <3>3. R \in D /\ Cardinality(R) <= n
      BY <1>0, <2>2, <3>1, <3>2, FS_RemoveElement
    <3>4. f[R] = g[R]
      BY <2>1, <3>3
    <3>5. f[S] = Passo(g[R], ps[Max(S)])
      BY <2>2, <3>1
    <3>. HIDE DEF f
    <3>. QED BY <3>1, <3>4, <3>5
  <2>3. f[{}] = h
    OBVIOUS
  <2>4. Certa(f, n + 1)
    <3>. HIDE DEF f
    <3>. QED BY <2>2, <2>3
  <2>. HIDE DEF f, Certa
  <2>. QED BY <2>4
<1>. HIDE DEF N
<1>3. N = Nat
  BY <1>1, <1>2, Inducao DEF N
<1>4. PICK g : Certa(g, Len(ps))
  BY <1>0, <1>3 DEF N
<1>. DEFINE f == [S \in D |-> g[S]]
<1>5. \A S \in D : S # {} => S \ {Max(S)} \in D
  OBVIOUS
<1>6. \A S \in D : f[S] = IF S = {} THEN h ELSE Passo(f[S \ {Max(S)}], ps[Max(S)])
  <2>. TAKE S \in D
  <2>1. g[S] = IF S = {} THEN h ELSE Passo(g[S \ {Max(S)}], ps[Max(S)])
    BY <1>0, <1>4
  <2>2. S # {} => f[S \ {Max(S)}] = g[S \ {Max(S)}]
    BY <1>5
  <2>3. f[S] = g[S]
    OBVIOUS
  <2>. HIDE DEF f
  <2>. QED BY <2>1, <2>2, <2>3
<1>7. f = [S \in D |-> f[S]]
  OBVIOUS
<1>. HIDE DEF f
<1>8. f = [S \in D |-> IF S = {} THEN h ELSE Passo(f[S \ {Max(S)}], ps[Max(S)])]
  BY <1>6, <1>7
<1>. QED BY <1>8 DEF Pedacada

(* Two tables agree on positions that hold the same pieces.                *)
MesmoComeco(ps, qs, n) ==
  /\ n <= Len(ps)
  /\ n <= Len(qs)
  /\ \A j \in 1..n : ps[j] = qs[j]

LEMMA PedacadaUnica ==
  ASSUME NEW h, NEW ps \in Seq(Pedacos), NEW g, Pedacada(h, ps, g),
         NEW qs \in Seq(Pedacos), NEW k, Pedacada(h, qs, k),
         NEW n \in Nat, MesmoComeco(ps, qs, n)
  PROVE  \A S \in SUBSET (1..n) : g[S] = k[S]
<1>. DEFINE N == {m \in Nat : \A S \in SUBSET (1..n) :
                    Cardinality(S) = m => g[S] = k[S]}
<1>0. \A S \in SUBSET (1..n) :
        /\ IsFiniteSet(S) /\ Cardinality(S) \in Nat
        /\ S \in SUBSET (DOMAIN ps) /\ S \in SUBSET (DOMAIN qs)
  BY SubIntervalos DEF MesmoComeco
<1>1. 0 \in N
  <2>1. \A S \in SUBSET (1..n) : Cardinality(S) = 0 => S = {}
    BY <1>0, FS_EmptySet
  <2>2. g[{}] = h /\ k[{}] = h
    BY DEF Pedacada
  <2>. QED BY <2>1, <2>2
<1>2. ASSUME NEW m \in N PROVE m + 1 \in N
  <2>. SUFFICES ASSUME NEW S \in SUBSET (1..n), Cardinality(S) = m + 1
                PROVE  g[S] = k[S]
    OBVIOUS
  <2>1. PICK R : R = S \ {Max(S)}
    OBVIOUS
  <2>0. m \in Nat /\ m + 1 # 0
    OBVIOUS
  <2>2. S # {}
    BY <2>0, FS_EmptySet
  <2>3. Max(S) \in S /\ Max(S) \in 1..n
    BY <2>2, MaxPertence
  <2>4. R \in SUBSET (1..n) /\ Cardinality(R) = m
    <3>1. IsFiniteSet(S)
      BY <1>0
    <3>2. Cardinality(R) = Cardinality(S) - 1
      BY <2>1, <2>3, <3>1, FS_RemoveElement
    <3>3. Cardinality(R) = m
      BY <2>0, <3>2
    <3>4. R \subseteq 1..n
      BY <2>1
    <3>. QED BY <3>3, <3>4
  <2>5. g[S] = Passo(g[R], ps[Max(S)])
    BY <1>0, <2>1, <2>2 DEF Pedacada
  <2>6. k[S] = Passo(k[R], qs[Max(S)])
    BY <1>0, <2>1, <2>2 DEF Pedacada
  <2>7. g[R] = k[R]
    BY <2>4
  <2>. QED BY <2>3, <2>5, <2>6, <2>7 DEF MesmoComeco
<1>. HIDE DEF N
<1>3. N = Nat
  BY <1>1, <1>2, Inducao DEF N
<1>. QED BY <1>0, <1>3 DEF N

LEMMA ExecuteTabela ==
  ASSUME NEW h, NEW ps \in Seq(Pedacos)
  PROVE  \E g : Pedacada(h, ps, g) /\ llhttp_execute(h, ps) = g[DOMAIN ps]
<1>. DEFINE e == CHOOSE g : Pedacada(h, ps, g)
<1>1. Pedacada(h, ps, e)
  BY PedacadaExiste
<1>2. llhttp_execute(h, ps) = e[DOMAIN ps]
  BY DEF llhttp_execute, FoldLeft, MapThenFoldSet, Pedacada
<1>. HIDE DEF e
<1>. QED BY <1>1, <1>2

(* Nothing read, nothing changed; one piece more, one step more.           *)
LEMMA ExecuteVazio ==
  ASSUME NEW h
  PROVE  llhttp_execute(h, <<>>) = h
<1>0. <<>> \in Seq(Pedacos)
  OBVIOUS
<1>1. PICK g : Pedacada(h, <<>>, g) /\ llhttp_execute(h, <<>>) = g[DOMAIN <<>>]
  BY <1>0, ExecuteTabela
<1>2. DOMAIN <<>> = {}
  OBVIOUS
<1>. QED BY <1>1, <1>2 DEF Pedacada

LEMMA ExecuteMaisUm ==
  ASSUME NEW h, NEW ps \in Seq(Pedacos), NEW qs \in Seq(Pedacos),
         Len(qs) = Len(ps) + 1, \A j \in 1..Len(ps) : qs[j] = ps[j]
  PROVE  llhttp_execute(h, qs) = Passo(llhttp_execute(h, ps), qs[Len(qs)])
<1>. PICK n : n = Len(ps)
  OBVIOUS
<1>0. /\ n \in Nat /\ n = Len(ps) /\ DOMAIN ps = 1..n
      /\ DOMAIN qs = 1..(n + 1) /\ Len(qs) = n + 1
  OBVIOUS
<1>1. PICK g : Pedacada(h, ps, g) /\ llhttp_execute(h, ps) = g[1..n]
  BY <1>0, ExecuteTabela
<1>2. PICK k : Pedacada(h, qs, k) /\ llhttp_execute(h, qs) = k[1..(n + 1)]
  BY <1>0, ExecuteTabela
<1>3. PICK S : S = 1..(n + 1)
  OBVIOUS
<1>4. Max(S) = n + 1
  <2>1. n + 1 \in Nat /\ n + 1 \in S /\ S # {} /\ S \subseteq 1..(n + 1)
    BY <1>0, <1>3
  <2>2. Max(S) \in S /\ n + 1 <= Max(S)
    BY <2>1, MaxPertence
  <2>. QED BY <1>0, <1>3, <2>2
<1>5. S \ {n + 1} = 1..n
  BY <1>0, <1>3
<1>6. k[S] = Passo(k[1..n], qs[n + 1])
  <2>1. S \in SUBSET (DOMAIN qs) /\ n + 1 \in S
    BY <1>0, <1>3
  <2>. QED BY <1>2, <1>4, <1>5, <2>1 DEF Pedacada
<1>7. k[1..n] = g[1..n]
  <2>1. 1..n \in SUBSET (1..n)
    OBVIOUS
  <2>2. MesmoComeco(ps, qs, n)
    BY <1>0 DEF MesmoComeco
  <2>3. n \in Nat /\ Pedacada(h, ps, g) /\ Pedacada(h, qs, k)
    BY <1>0, <1>1, <1>2
  <2>4. \A T \in SUBSET (1..n) : g[T] = k[T]
    BY <2>2, <2>3, PedacadaUnica
  <2>. QED BY <2>1, <2>4
<1>. QED BY <1>0, <1>1, <1>2, <1>3, <1>6, <1>7

(* The next n pieces of a script, after the first l.                       *)
LEMMA TrechoDe ==
  ASSUME NEW r \in Seq(Pedacos), NEW l \in Nat, NEW n \in Nat, l + n <= Len(r)
  PROVE  /\ SubSeq(r, l + 1, l + n) \in Seq(Pedacos)
         /\ Len(SubSeq(r, l + 1, l + n)) = n
         /\ \A j \in 1..n : SubSeq(r, l + 1, l + n)[j] = r[l + j]
<1>1. l + 1 \in Int /\ l + n \in Int
      /\ \A j \in (l + 1)..(l + n) : r[j] \in Pedacos
  OBVIOUS
<1>2. /\ SubSeq(r, l + 1, l + n) \in Seq(Pedacos)
      /\ Len(SubSeq(r, l + 1, l + n))
           = IF l + 1 <= l + n THEN (l + n) - (l + 1) + 1 ELSE 0
      /\ \A j \in 1..((l + n) - (l + 1) + 1) :
           SubSeq(r, l + 1, l + n)[j] = r[(l + 1) + j - 1]
  BY <1>1, SubSeqProperties
<1>3. (l + n) - (l + 1) + 1 = n /\ (~(l + 1 <= l + n) => n = 0)
      /\ \A j \in 1..n : (l + 1) + j - 1 = l + j
  OBVIOUS
<1>. QED BY <1>2, <1>3

(* What holds of the parser and is kept by each piece holds after a recv:  *)
(* R is the set of the parsers of which it holds at each position.         *)
LEMMA ExecutePreserva ==
  ASSUME NEW r \in Seq(Pedacos), NEW l \in Nat, NEW m \in Nat, l + m <= Len(r),
         NEW R, NEW h, <<h, l>> \in R,
         \A x, k : <<x, k>> \in R /\ k \in l..(l + m - 1) =>
                     <<Passo(x, r[k + 1]), k + 1>> \in R
  PROVE  <<llhttp_execute(h, SubSeq(r, l + 1, l + m)), l + m>> \in R
<1>. DEFINE N == {n \in Nat : n <= m =>
                    <<llhttp_execute(h, SubSeq(r, l + 1, l + n)), l + n>> \in R}
<1>1. 0 \in N
  <2>1. SubSeq(r, l + 1, l + 0) = <<>>
    BY SubSeqEmpty
  <2>2. l + 0 = l
    OBVIOUS
  <2>. QED BY <2>1, <2>2, ExecuteVazio
<1>2. ASSUME NEW n \in N PROVE n + 1 \in N
  <2>0. n \in Nat
    OBVIOUS
  <2>1. ASSUME n + 1 <= m
        PROVE  <<llhttp_execute(h, SubSeq(r, l + 1, l + (n + 1))), l + (n + 1)>>
                 \in R
    <3>1. PICK ps : ps = SubSeq(r, l + 1, l + n)
      OBVIOUS
    <3>2. PICK qs : qs = SubSeq(r, l + 1, l + (n + 1))
      OBVIOUS
    <3>3. <<llhttp_execute(h, ps), l + n>> \in R
      BY <2>0, <2>1, <3>1
    <3>. HIDE DEF N
    <3>4. ps \in Seq(Pedacos) /\ Len(ps) = n /\ \A j \in 1..n : ps[j] = r[l + j]
      BY <2>0, <2>1, <3>1, TrechoDe
    <3>5. qs \in Seq(Pedacos) /\ Len(qs) = n + 1
          /\ \A j \in 1..(n + 1) : qs[j] = r[l + j]
      BY <2>0, <2>1, <3>2, TrechoDe
    <3>6. llhttp_execute(h, qs) = Passo(llhttp_execute(h, ps), qs[n + 1])
      <4>1. Len(qs) = Len(ps) + 1
        BY <3>4, <3>5
      <4>2. ASSUME NEW j \in 1..Len(ps) PROVE qs[j] = ps[j]
        <5>1. j \in 1..n /\ j \in 1..(n + 1)
          BY <2>0, <3>4
        <5>. QED BY <3>4, <3>5, <5>1
      <4>3. ps \in Seq(Pedacos) /\ qs \in Seq(Pedacos)
        BY <3>4, <3>5
      <4>4. llhttp_execute(h, qs) = Passo(llhttp_execute(h, ps), qs[Len(qs)])
        BY ONLY <4>1, <4>2, <4>3, ExecuteMaisUm
      <4>. QED BY <3>5, <4>4
    <3>7. qs[n + 1] = r[(l + n) + 1]
      BY <2>0, <3>5
    <3>8. l + n \in l..(l + m - 1) /\ l + (n + 1) = (l + n) + 1
      BY <2>0, <2>1
    <3>9. <<Passo(llhttp_execute(h, ps), r[(l + n) + 1]), (l + n) + 1>> \in R
      BY <3>3, <3>8
    <3>. QED BY <3>2, <3>6, <3>7, <3>8, <3>9
  <2>2. n + 1 \in Nat
    BY <2>0
  <2>. QED BY <2>1, <2>2
<1>. HIDE DEF N
<1>3. N = Nat
  BY <1>1, <1>2, Inducao DEF N
<1>4. m \in N
  BY <1>3
<1>. QED BY <1>4 DEF N

-----------------------------------------------------------------------------
(* The text of a url: its halves one after the other.  It too is read from *)
(* a table, of the text of its first halves.                               *)
Achatada(q, g) ==
  g = [k \in 1..Len(q) |-> IF k = 1 THEN q[k] ELSE g[k - 1] \o q[k]]

LEMMA AchatadaExiste ==
  ASSUME NEW q, Len(q) \in Nat
  PROVE  \E g : Achatada(q, g)
<1>. DEFINE Certa(g, n) ==
              \A k \in 1..n : g[k] = IF k = 1 THEN q[k] ELSE g[k - 1] \o q[k]
            N == {n \in Nat : \E g : Certa(g, n)}
<1>1. 0 \in N
  OBVIOUS
<1>2. ASSUME NEW n \in N PROVE n + 1 \in N
  <2>0. n \in Nat /\ n + 1 \in Nat
    OBVIOUS
  <2>1. PICK g : Certa(g, n)
    OBVIOUS
  <2>. DEFINE f == [k \in 1..(n + 1) |->
                      IF k <= n THEN g[k]
                      ELSE IF k = 1 THEN q[k] ELSE g[k - 1] \o q[k]]
  <2>2. \A k \in 1..n : f[k] = g[k]
    BY <2>0
  <2>3. f[n + 1] = IF n + 1 = 1 THEN q[n + 1] ELSE g[n] \o q[n + 1]
    BY <2>0
  <2>. HIDE DEF f
  <2>4. ASSUME NEW k \in 1..(n + 1)
        PROVE  f[k] = IF k = 1 THEN q[k] ELSE f[k - 1] \o q[k]
    <3>1. CASE k \in 1..n
      <4>1. k # 1 => k - 1 \in 1..n
        BY <2>0, <3>1
      <4>. QED BY <2>1, <2>2, <3>1, <4>1
    <3>2. CASE k = n + 1
      <4>1. n + 1 # 1 => n \in 1..n /\ k - 1 = n
        BY <2>0, <3>2
      <4>. QED BY <2>2, <2>3, <3>2, <4>1
    <3>. QED BY <2>0, <3>1, <3>2
  <2>5. \E e : Certa(e, n + 1)
    BY <2>4
  <2>. QED BY <2>0, <2>5
<1>. HIDE DEF N
<1>3. N = Nat
  BY <1>1, <1>2, Inducao DEF N
<1>4. Len(q) \in N
  BY <1>3
<1>5. PICK g : Certa(g, Len(q))
  BY <1>4 DEF N
<1>. DEFINE f == [k \in 1..Len(q) |-> g[k]]
<1>6. \A k \in 1..Len(q) : f[k] = IF k = 1 THEN q[k] ELSE f[k - 1] \o q[k]
  <2>. TAKE k \in 1..Len(q)
  <2>1. k # 1 => k - 1 \in 1..Len(q)
    OBVIOUS
  <2>. QED BY <1>5, <2>1
<1>7. f = [k \in 1..Len(q) |-> f[k]]
  OBVIOUS
<1>. HIDE DEF f
<1>8. f = [k \in 1..Len(q) |-> IF k = 1 THEN q[k] ELSE f[k - 1] \o q[k]]
  BY <1>6, <1>7
<1>. QED BY <1>8 DEF Achatada

LEMMA AchatadaLinha ==
  ASSUME NEW q, NEW g, Achatada(q, g), NEW j \in 1..Len(q)
  PROVE  g[j] = IF j = 1 THEN q[j] ELSE g[j - 1] \o q[j]
  BY DEF Achatada

LEMMA AchatadaUnica ==
  ASSUME NEW q, NEW r, Len(q) \in Nat, Len(r) \in Nat,
         NEW g, Achatada(q, g), NEW h, Achatada(r, h),
         NEW n \in Nat, MesmoComeco(q, r, n)
  PROVE  \A k \in 1..n : g[k] = h[k]
<1>. DEFINE N == {m \in Nat : m \in 1..n => g[m] = h[m]}
<1>1. 0 \in N
  OBVIOUS
<1>2. ASSUME NEW m \in N PROVE m + 1 \in N
  <2>0. m \in Nat
    OBVIOUS
  <2>. SUFFICES ASSUME m + 1 \in 1..n PROVE g[m + 1] = h[m + 1]
    BY <2>0
  <2>1. m + 1 \in 1..Len(q) /\ m + 1 \in 1..Len(r) /\ q[m + 1] = r[m + 1]
    BY <2>0 DEF MesmoComeco
  <2>. PICK j : j = m + 1
    OBVIOUS
  <2>2. m = j - 1 /\ (j # 1 => m \in 1..n)
    BY <2>0
  <2>3. g[j] = IF j = 1 THEN q[j] ELSE g[j - 1] \o q[j]
    BY <2>1, AchatadaLinha
  <2>4. h[j] = IF j = 1 THEN r[j] ELSE h[j - 1] \o r[j]
    BY <2>1, AchatadaLinha
  <2>5. j # 1 => g[m] = h[m]
    BY <2>2
  <2>. QED BY <2>1, <2>2, <2>3, <2>4, <2>5
<1>. HIDE DEF N
<1>3. N = Nat
  BY <1>1, <1>2, Inducao DEF N
<1>4. \A k \in 1..n : k \in N
  BY <1>3
<1>. QED BY <1>4 DEF N

LEMMA FlattenTabela ==
  ASSUME NEW q, Len(q) \in Nat, Len(q) # 0
  PROVE  \E g : Achatada(q, g) /\ FlattenSeq(q) = g[Len(q)]
<1>. DEFINE e == CHOOSE g : Achatada(q, g)
<1>1. Achatada(q, e)
  BY AchatadaExiste
<1>2. FlattenSeq(q) = e[Len(q)]
  BY DEF FlattenSeq, Achatada
<1>. HIDE DEF e
<1>. QED BY <1>1, <1>2

LEMMA FlattenMaisUm ==
  ASSUME NEW q, NEW r, Len(q) \in Nat, Len(q) # 0, Len(r) = Len(q) + 1,
         MesmoComeco(q, r, Len(q))
  PROVE  FlattenSeq(r) = FlattenSeq(q) \o r[Len(r)]
<1>. PICK n : n = Len(q)
  OBVIOUS
<1>0. n \in Nat /\ n # 0 /\ n + 1 # 0 /\ Len(r) \in Nat /\ Len(r) # 0
      /\ Len(r) = n + 1
  OBVIOUS
<1>1. PICK g : Achatada(q, g) /\ FlattenSeq(q) = g[n]
  BY <1>0, FlattenTabela
<1>2. PICK h : Achatada(r, h) /\ FlattenSeq(r) = h[n + 1]
  BY <1>0, FlattenTabela
<1>. PICK j : j = n + 1
  OBVIOUS
<1>3. j \in 1..Len(r) /\ j # 1 /\ n = j - 1
  BY <1>0
<1>4. h[j] = h[n] \o r[j]
  <2>1. Achatada(r, h)
    BY <1>2
  <2>2. h[j] = IF j = 1 THEN r[j] ELSE h[j - 1] \o r[j]
    BY <1>3, <2>1, AchatadaLinha
  <2>. QED BY <1>3, <2>2
<1>5. \A k \in 1..n : g[k] = h[k]
  BY <1>0, <1>1, <1>2, AchatadaUnica
<1>6. g[n] = h[n]
  BY <1>0, <1>5
<1>. QED BY <1>0, <1>1, <1>2, <1>4, <1>6

LEMMA FlattenUm ==
  ASSUME NEW q, Len(q) = 1
  PROVE  FlattenSeq(q) = q[1]
<1>0. Len(q) \in Nat /\ Len(q) # 0
  OBVIOUS
<1>1. PICK g : Achatada(q, g) /\ FlattenSeq(q) = g[Len(q)]
  BY <1>0, FlattenTabela
<1>. QED BY <1>1 DEF Achatada

(* The two halves of the url of p, and their text.                         *)
TextoDe(m) == Alvo[m.pedido][m.parte]

LEMMA TextoDeTipo ==
  ASSUME NEW m \in Metades
  PROVE  TextoDe(m) \in Seq(Tokens)
  BY SocketsAssumption DEF Metades, TextoDe

LEMMA TextoVazio == Texto(<<>>) = <<>>
<1>1. [k \in DOMAIN <<>> |-> Alvo[<<>>[k].pedido][<<>>[k].parte]] = <<>>
  OBVIOUS
<1>2. FlattenSeq(<<>>) = <<>>
  BY DEF FlattenSeq
<1>. QED BY <1>1, <1>2 DEF Texto

LEMMA TextoMaisUma ==
  ASSUME NEW u \in Seq(Metades), NEW m \in Metades, Texto(u) \in Seq(Tokens)
  PROVE  Texto(Append(u, m)) = Texto(u) \o TextoDe(m)
<1>. PICK n : n = Len(u)
  OBVIOUS
<1>. PICK v : v = Append(u, m)
  OBVIOUS
<1>0. /\ n \in Nat /\ DOMAIN u = 1..n /\ DOMAIN v = 1..(n + 1)
      /\ v[n + 1] = m /\ \A k \in 1..n : v[k] = u[k]
  OBVIOUS
<1>. PICK q : q = [k \in DOMAIN u |-> Alvo[u[k].pedido][u[k].parte]]
  OBVIOUS
<1>. PICK r : r = [k \in DOMAIN v |-> Alvo[v[k].pedido][v[k].parte]]
  OBVIOUS
<1>1. Texto(u) = FlattenSeq(q) /\ Texto(v) = FlattenSeq(r)
  BY DEF Texto
<1>2. Len(q) = n /\ \A k \in 1..n : q[k] = TextoDe(u[k])
  BY <1>0 DEF TextoDe
<1>3. Len(r) = n + 1 /\ \A k \in 1..(n + 1) : r[k] = TextoDe(v[k])
  <2>1. n + 1 \in Nat
    BY <1>0
  <2>. QED BY <1>0, <2>1 DEF TextoDe
<1>4. r[n + 1] = TextoDe(m) /\ \A k \in 1..n : q[k] = r[k]
  <2>1. n + 1 \in 1..(n + 1) /\ \A k \in 1..n : k \in 1..(n + 1)
    BY <1>0
  <2>. QED BY <1>0, <1>2, <1>3, <2>1
<1>5. CASE n = 0
  <2>1. u = <<>>
    BY <1>0, <1>5
  <2>2. Len(r) = 1 /\ r[1] = TextoDe(m)
    <3>1. n + 1 = 1
      BY <1>5
    <3>. QED BY <1>3, <1>4, <3>1
  <2>3. Texto(v) = TextoDe(m)
    BY <1>1, <2>2, FlattenUm
  <2>. QED BY <2>1, <2>3, TextoVazio, TextoDeTipo
<1>6. CASE n # 0
  <2>1. MesmoComeco(q, r, Len(q))
    BY <1>0, <1>2, <1>3, <1>4 DEF MesmoComeco
  <2>2. FlattenSeq(r) = FlattenSeq(q) \o r[Len(r)]
    <3>1. Len(q) \in Nat /\ Len(q) # 0 /\ Len(r) = Len(q) + 1
      BY <1>0, <1>2, <1>3, <1>6
    <3>. QED BY <2>1, <3>1, FlattenMaisUm
  <2>. QED BY <1>1, <1>3, <1>4, <2>2
<1>. QED BY <1>5, <1>6

LEMMA FrontLastDe ==
  ASSUME NEW S, NEW v \in Seq(S), v # <<>>
  PROVE  /\ Front(v) \in Seq(S)
         /\ Last(v) \in S
         /\ Append(Front(v), Last(v)) = v
<1>1. Len(v) \in Nat /\ Len(v) >= 1
  OBVIOUS
<1>2. /\ Front(v) \in Seq(S) /\ Len(Front(v)) = Len(v) - 1
      /\ \A k \in 1..(Len(v) - 1) : Front(v)[k] = v[k]
  <2>. PICK n : n = Len(v) - 1
    OBVIOUS
  <2>1. n \in Nat /\ \A k \in 1..n : v[k] \in S
    BY <1>1
  <2>2. /\ SubSeq(v, 1, n) \in Seq(S)
        /\ Len(SubSeq(v, 1, n)) = IF 1 <= n THEN n - 1 + 1 ELSE 0
        /\ \A k \in 1..(n - 1 + 1) : SubSeq(v, 1, n)[k] = v[1 + k - 1]
    BY <2>1, SubSeqProperties
  <2>3. n - 1 + 1 = n /\ (~ (1 <= n) => n = 0)
        /\ \A k \in 1..n : 1 + k - 1 = k
    BY <2>1
  <2>4. Front(v) = SubSeq(v, 1, n)
    BY DEF Front
  <2>5. Len(Front(v)) = n
    BY <2>2, <2>3, <2>4
  <2>6. \A k \in 1..n : Front(v)[k] = v[k]
    BY <2>2, <2>3, <2>4
  <2>. QED BY <2>2, <2>4, <2>5, <2>6
<1>3. Last(v) \in S /\ Last(v) = v[Len(v)]
  BY <1>1 DEF Last
<1>. PICK w : w = Append(Front(v), Last(v))
  OBVIOUS
<1>4. w \in Seq(S) /\ Len(w) = Len(v)
      /\ \A k \in 1..Len(v) : w[k] = v[k]
  BY <1>1, <1>2, <1>3
<1>5. w = v
  BY <1>4
<1>. QED BY <1>2, <1>3, <1>5

LEMMA TextoTipo ==
  ASSUME NEW u \in Seq(Metades)
  PROVE  Texto(u) \in Seq(Tokens)
<1>. DEFINE N == {n \in Nat : \A v \in Seq(Metades) :
                    Len(v) = n => Texto(v) \in Seq(Tokens)}
<1>1. 0 \in N
  <2>1. \A v \in Seq(Metades) : Len(v) = 0 => v = <<>>
    OBVIOUS
  <2>. QED BY <2>1, TextoVazio
<1>2. ASSUME NEW n \in N PROVE n + 1 \in N
  <2>0. n \in Nat /\ n + 1 \in Nat
    OBVIOUS
  <2>1. ASSUME NEW v \in Seq(Metades), Len(v) = n + 1
        PROVE  Texto(v) \in Seq(Tokens)
    <3>1. PICK u1 \in Seq(Metades), m \in Metades :
            v = Append(u1, m) /\ Len(u1) = n
      <4>1. v # <<>>
        BY <2>0, <2>1
      <4>2. /\ Front(v) \in Seq(Metades) /\ Last(v) \in Metades
            /\ Append(Front(v), Last(v)) = v
        BY <4>1, FrontLastDe
      <4>3. Len(Front(v)) = n
        BY <2>0, <2>1, <4>2
      <4>. QED BY <4>2, <4>3
    <3>2. Texto(u1) \in Seq(Tokens)
      BY <3>1
    <3>3. Texto(v) = Texto(u1) \o TextoDe(m)
      BY <3>1, <3>2, TextoMaisUma
    <3>. QED BY <3>2, <3>3, TextoDeTipo
  <2>. QED BY <2>0, <2>1
<1>. HIDE DEF N
<1>3. N = Nat
  BY <1>1, <1>2, Inducao DEF N
<1>4. Len(u) \in N
  BY <1>3
<1>. QED BY <1>4 DEF N

-----------------------------------------------------------------------------
(* Types.  A body that is being read lacks at least one piece: without     *)
(* this, the count of the missing ones could pass below zero.              *)
ParserTipado(h) == h \in Parsers /\ (h.fase = "corpo" => h.content_length > 0)

LEMMA UrlTipo ==
  ASSUME NEW h \in Parsers, NEW p \in Pedacos, p.tipo \in {"url", "linha"},
         h.fase # "corpo"
  PROVE  ParserTipado(handle_on_url(h, p))
<1>1. Metade(p.pedido, p.tipo) \in Metades
  BY DEF Pedacos, Metade, Metades
<1>2. Append(h.url, Metade(p.pedido, p.tipo)) \in Seq(Metades)
  BY <1>1 DEF Parsers
<1>. QED BY <1>2 DEF handle_on_url, Erro, ParserTipado, Parsers, Fases

LEMMA CompletaTipo ==
  ASSUME NEW h \in Parsers
  PROVE  ParserTipado(handle_on_message_complete(h))
  BY DEF handle_on_message_complete, ParserTipado, Parsers, Fases

LEMMA CorpoTipo ==
  ASSUME NEW h, ParserTipado(h), NEW p \in Pedacos, h.fase = "corpo"
  PROVE  ParserTipado(Corpo(h, p))
<1>. PICK b : b = [h EXCEPT !.content_length = @ - 1]
  OBVIOUS
<1>0. h \in Parsers /\ h.content_length \in 0..MaxCorpo
      /\ h.content_length > 0
  BY DEF ParserTipado, Parsers
<1>1. b \in Parsers /\ b.fase = "corpo"
  <2>1. h.content_length - 1 \in 0..MaxCorpo
    BY <1>0, HttpAssumption
  <2>. QED BY <1>0, <2>1 DEF Parsers
<1>. PICK lido : lido = handle_on_body(b, p)
  OBVIOUS
<1>2. Append(b.body, p.pedido) \in Seq(Pedidos)
  BY <1>1 DEF Parsers, Pedacos
<1>3. lido \in Parsers
  BY <1>1, <1>2 DEF handle_on_body, Erro, Parsers, Fases
<1>4. CASE lido.fase = "corpo" /\ lido.content_length = 0
  BY <1>3, <1>4, CompletaTipo DEF Corpo
<1>5. CASE ~ (lido.fase = "corpo" /\ lido.content_length = 0)
  <2>1. Corpo(h, p) = lido
    BY <1>5 DEF Corpo
  <2>2. lido.content_length \in Nat
    BY <1>3, HttpAssumption DEF Parsers
  <2>. QED BY <1>3, <1>5, <2>1, <2>2 DEF ParserTipado
<1>. QED BY <1>4, <1>5

LEMMA PassoTipo ==
  ASSUME NEW h, ParserTipado(h), NEW p \in Pedacos
  PROVE  ParserTipado(Passo(h, p))
<1>0. h \in Parsers /\ ParserTipado(Erro(h))
  BY DEF ParserTipado, Erro, Parsers, Fases
<1>1. CASE h.fase = "inicio"
  <2>1. Passo(h, p) = Inicio(h, p)
    BY <1>1 DEF Passo
  <2>. QED BY <1>0, <2>1 DEF Inicio, ParserTipado, Parsers, Fases, Pedacos
<1>2. CASE h.fase = "metodo"
  <2>1. Passo(h, p) = Metodo(h, p)
    BY <1>2 DEF Passo
  <2>2. [h EXCEPT !.fase = "url"] \in Parsers
    BY <1>0 DEF Parsers, Fases
  <2>3. [h EXCEPT !.fase = "url"].fase # "corpo"
    BY <1>0 DEF Parsers
  <2>. QED BY <1>0, <2>1, <2>2, <2>3, UrlTipo DEF Metodo
<1>3. CASE h.fase = "url"
  <2>1. Passo(h, p) = Url(h, p)
    BY <1>3 DEF Passo
  <2>2. [h EXCEPT !.fase = "cab"] \in Parsers
    BY <1>0 DEF Parsers, Fases
  <2>3. [h EXCEPT !.fase = "cab"].fase # "corpo"
    BY <1>0 DEF Parsers
  <2>. QED BY <1>0, <2>1, <2>2, <2>3, UrlTipo DEF Url
<1>4. CASE h.fase = "cab"
  <2>1. Passo(h, p) = Cab(h, p)
    BY <1>4 DEF Passo
  <2>2. p.corpo \in Nat /\ p.corpo \in 0..MaxCorpo /\ p.mantem \in BOOLEAN
    BY HttpAssumption DEF Pedacos
  <2>3. CASE p.tipo = "cab" /\ p.corpo = 0
    <3>1. [h EXCEPT !.mantem = p.mantem] \in Parsers
      BY <1>0, <2>2 DEF Parsers
    <3>2. Cab(h, p) = handle_on_message_complete([h EXCEPT !.mantem = p.mantem])
      BY <2>2, <2>3 DEF Cab
    <3>. QED BY <2>1, <3>1, <3>2, CompletaTipo
  <2>4. CASE p.tipo = "cab" /\ p.corpo > 0
    <3>1. Cab(h, p) = [h EXCEPT !.fase = "corpo", !.content_length = p.corpo,
                                !.mantem = p.mantem]
      BY <2>2, <2>4 DEF Cab
    <3>2. Cab(h, p) \in Parsers
      BY <1>0, <2>2, <3>1 DEF Parsers, Fases
    <3>3. Cab(h, p).content_length = p.corpo
      BY <1>0, <3>1 DEF Parsers
    <3>. QED BY <2>1, <2>4, <3>2, <3>3 DEF ParserTipado
  <2>5. CASE p.tipo # "cab"
    <3>1. Cab(h, p) \in {h, Erro(h)}
      BY <2>5 DEF Cab
    <3>. QED BY <1>0, <2>1, <3>1
  <2>. QED BY <2>2, <2>3, <2>4, <2>5
<1>5. CASE h.fase = "corpo"
  <2>1. Passo(h, p) = Corpo(h, p)
    BY <1>5 DEF Passo
  <2>. QED BY <1>5, <2>1, CorpoTipo
<1>6. CASE h.fase \in {"fechado", "erro"}
  BY <1>6 DEF Passo
<1>. QED BY <1>0, <1>1, <1>2, <1>3, <1>4, <1>5, <1>6 DEF Parsers, Fases

(* What recv returns: pieces that have arrived and were not read.          *)
Recebidos ==
  /\ ParserTipado(parser)
  /\ roteiro \in [Sockets -> Seq(Pedacos)]
  /\ enviados \in [Sockets -> Nat]
  /\ lidos \in [Sockets -> Nat]
  /\ \A s \in Sockets : lidos[s] <= enviados[s] /\ enviados[s] <= Len(roteiro[s])

LEMMA NumRecvCabe ==
  ASSUME Recebidos, NEW s \in Sockets
  PROVE  /\ NumRecv(s) \in Nat
         /\ lidos[s] + NumRecv(s) <= enviados[s]
         /\ lidos[s] + NumRecv(s) <= Len(roteiro[s])
         /\ enviados[s] > lidos[s] => NumRecv(s) > 0
<1>. PICK a : a = enviados[s] - lidos[s]
  OBVIOUS
<1>. PICK b : b = SOCKET_MAX_READ_BUFFER
  OBVIOUS
<1>1. a \in Nat /\ b \in Nat /\ b > 0
  BY LimitesAssumption DEF Recebidos
<1>2. \E x \in {a, b} : \A y \in {a, b} : x =< y
  BY <1>1
<1>3. NumRecv(s) \in {a, b} /\ \A y \in {a, b} : NumRecv(s) =< y
  BY <1>2 DEF NumRecv, Min
<1>4. enviados[s] \in Nat /\ lidos[s] \in Nat /\ Len(roteiro[s]) \in Nat
      /\ enviados[s] <= Len(roteiro[s])
  BY DEF Recebidos
<1>. QED BY <1>1, <1>3, <1>4

LEMMA AnalisadoTipo ==
  ASSUME Recebidos, NEW s \in Sockets
  PROVE  ParserTipado(Analisado(s))
<1>. PICK r : r = roteiro[s]
  OBVIOUS
<1>. PICK l : l = lidos[s]
  OBVIOUS
<1>. PICK m : m = NumRecv(s)
  OBVIOUS
<1>1. r \in Seq(Pedacos) /\ l \in Nat /\ m \in Nat /\ l + m <= Len(r)
  BY NumRecvCabe DEF Recebidos
<1>. DEFINE R == {h \in Parsers : ParserTipado(h)} \X Nat
<1>2. ASSUME NEW x, NEW k, <<x, k>> \in R, k \in l..(l + m - 1)
      PROVE  <<Passo(x, r[k + 1]), k + 1>> \in R
  <2>1. ParserTipado(x) /\ k \in Nat /\ k + 1 \in Nat
    BY <1>1, <1>2
  <2>2. r[k + 1] \in Pedacos
    BY <1>1, <1>2
  <2>3. ParserTipado(Passo(x, r[k + 1]))
    BY <2>1, <2>2, PassoTipo
  <2>. QED BY <2>1, <2>3 DEF ParserTipado
<1>3. <<parser, l>> \in R
  BY <1>1 DEF Recebidos, ParserTipado
<1>. HIDE DEF R
<1>4. <<llhttp_execute(parser, SubSeq(r, l + 1, l + m)), l + m>> \in R
  BY <1>1, <1>2, <1>3, ExecutePreserva
<1>. QED BY <1>4 DEF R, Analisado, http_parser_parse

-----------------------------------------------------------------------------
(* What router_route answers, for any url.                                 *)
LEMMA MinDe ==
  ASSUME NEW S, S \subseteq Nat, S # {}
  PROVE  Min(S) \in S /\ \A y \in S : Min(S) =< y
<1>. DEFINE R == {ss \in Nat \X Nat : ss[1] < ss[2]}
<1>1. IsWellFoundedOn(R, Nat)
  BY NatLessThanWellFounded DEF OpToRel
<1>2. \A x, y \in Nat : y < x => <<y, x>> \in R
  OBVIOUS
<1>. HIDE DEF R
<1>3. PICK x \in S : \A y \in S : ~ (<<y, x>> \in R)
  BY <1>1, WFMin
<1>4. \A y \in S : x =< y
  <2>. TAKE y \in S
  <2>1. x \in Nat /\ y \in Nat
    OBVIOUS
  <2>2. ~ (y < x)
    BY <1>2, <1>3, <2>1
  <2>. QED BY <2>1, <2>2
<1>. QED BY <1>4 DEF Min

LEMMA ExtraiTipo ==
  ASSUME NEW url \in Seq(Tokens)
  PROVE  extract_url_param(url) \in Seq(Digitos)
<1>. DEFINE I == {a \in DOMAIN url : \E b \in DOMAIN url : EntreBarras(url, a, b)}
<1>0. DOMAIN url \subseteq Nat
  OBVIOUS
<1>1. CASE I = {}
  BY <1>1 DEF extract_url_param
<1>2. CASE I # {}
  <2>. PICK a : a = Min(I)
    OBVIOUS
  <2>1. a \in I
    BY <1>0, <1>2, MinDe
  <2>. PICK b : b = CHOOSE j \in DOMAIN url : EntreBarras(url, a, j)
    OBVIOUS
  <2>2. b \in DOMAIN url /\ EntreBarras(url, a, b)
    BY <2>1
  <2>3. a \in Nat /\ b \in Nat
    BY <1>0, <2>1, <2>2
  <2>4. \A k \in (a + 1)..(b - 1) : url[k] \in Digitos
    BY <2>2 DEF EntreBarras
  <2>5. extract_url_param(url) = SubSeq(url, a + 1, b - 1)
    BY <1>2 DEF extract_url_param
  <2>6. a + 1 \in Int /\ b - 1 \in Int
    BY <2>3
  <2>. QED BY <2>4, <2>5, <2>6, SubSeqProperties
<1>. QED BY <1>1, <1>2

(* The two routes are the table, or its start.                             *)
Rotas == {route_find_by_id, route_transacao_save}

LEMMA RotasSaoDuas ==
  /\ cliente_controller_init \in Seq(Rotas)
  /\ \A r \in Rotas : r.rota \in {"find_by_id", "save_transacao"}
<1>1. <<>> \in Seq(Rotas) /\ route_find_by_id \in Rotas
      /\ route_transacao_save \in Rotas
  BY DEF Rotas
<1>2. \A q \in Seq(Rotas), r \in Rotas : router_add_route(q, r) \in Seq(Rotas)
  BY DEF router_add_route
<1>3. cliente_controller_init \in Seq(Rotas)
  BY <1>1, <1>2 DEF cliente_controller_init
<1>4. \A r \in Rotas : r.rota \in {"find_by_id", "save_transacao"}
  BY DEF Rotas, route_find_by_id, route_transacao_save
<1>. QED BY <1>3, <1>4

(* Either no route matches, or one does, with the method of the request.   *)
LEMMA RotaEscolhida ==
  ASSUME NEW metodo, NEW url
  PROVE  \/ router_route(metodo, url) = SemRota
         \/ \E r \in Rotas :
              /\ r.method = metodo
              /\ router_match_url(r, url)
              /\ router_route(metodo, url) =
                   [rota |-> r.rota, id |-> extract_url_param(url)]
<1>. PICK routes : routes = cliente_controller_init
  OBVIOUS
<1>. DEFINE I == {k \in DOMAIN routes : /\ routes[k].method = metodo
                                        /\ router_match_url(routes[k], url)}
<1>0. routes \in Seq(Rotas) /\ DOMAIN routes \subseteq Nat
  BY RotasSaoDuas
<1>1. CASE I = {}
  BY <1>1 DEF router_route
<1>2. CASE I # {}
  <2>1. Min(I) \in I
    BY <1>0, <1>2, MinDe
  <2>. PICK k : k = Min(I)
    OBVIOUS
  <2>2. k \in DOMAIN routes /\ routes[k].method = metodo
        /\ router_match_url(routes[k], url) /\ routes[k] \in Rotas
    BY <1>0, <2>1
  <2>3. router_route(metodo, url) =
          [rota |-> routes[k].rota, id |-> extract_url_param(url)]
    BY <1>2 DEF router_route
  <2>. HIDE DEF I
  <2>. QED BY <2>2, <2>3
<1>. QED BY <1>1, <1>2

LEMMA RotaTipo ==
  ASSUME NEW metodo, NEW url \in Seq(Tokens)
  PROVE  router_route(metodo, url) \in
           [rota : {"nenhuma", "find_by_id", "save_transacao"}, id : Seq(Digitos)]
<1>1. CASE router_route(metodo, url) = SemRota
  <2>1. <<>> \in Seq(Digitos)
    OBVIOUS
  <2>. QED BY <1>1, <2>1 DEF SemRota
<1>2. CASE router_route(metodo, url) # SemRota
  BY <1>2, RotaEscolhida, RotasSaoDuas, ExtraiTipo
<1>. QED BY <1>1, <1>2

-----------------------------------------------------------------------------
(* One connection at a time: what has been read from a connection that is  *)
(* still open is what the loop is reading now.                             *)
UmaDeCadaVez ==
  \A s \in Sockets :
    lidos[s] > 0 => \/ estado[s] = "fechada"
                    \/ pc = "socket_read" /\ pfds[i] = s
                    \/ pc = "morto"

Tipado == TypeOK /\ Recebidos /\ UmaDeCadaVez

LEMMA ResetTipo ==
  ASSUME NEW h, ParserTipado(h)
  PROVE  ParserTipado(http_parser_reset_request(h))
<1>. PICK g : g = http_parser_reset_request(h)
  OBVIOUS
<1>1. <<>> \in Seq(Metades) /\ <<>> \in Seq(Pedidos)
  OBVIOUS
<1>2. g \in Parsers
  BY <1>1 DEF http_parser_reset_request, ParserTipado, Parsers, Fases
<1>3. g.fase = "corpo" => h.fase = "corpo" /\ g.content_length = h.content_length
  BY DEF http_parser_reset_request, ParserTipado, Parsers
<1>. QED BY <1>2, <1>3 DEF ParserTipado

LEMMA TipadoInit == Init => Tipado
<1> SUFFICES ASSUME Init PROVE Tipado
  OBVIOUS
<1>1. ParserTipado(http_parser_init)
  BY HttpAssumption DEF ParserTipado, http_parser_init, Parsers, Fases
<1>2. roteiro \in [Sockets -> Seq(Pedacos)]
  <2>1. \A s \in Sockets : roteiro[s] \in Seq(Pedacos)
    BY SocketsAssumption DEF Init
  <2>. QED BY <2>1 DEF Init
<1>3. \A s \in Sockets : Len(roteiro[s]) \in Nat
  BY <1>2
<1>4. Recebidos /\ UmaDeCadaVez
  BY <1>1, <1>2, <1>3 DEF Init, Recebidos, UmaDeCadaVez
<1>5. respostas \in [Sockets -> Seq(Respostas)] /\ fila \in Seq(Sockets)
  BY DEF Init
<1>6. LacoTipos
  BY TabelaInit DEF Tabela
<1>7. parser \in Parsers /\ enviados \in [Sockets -> Nat]
      /\ lidos \in [Sockets -> Nat]
  BY <1>4 DEF Recebidos, ParserTipado
<1>8. /\ par \in [Sockets -> {"aberto", "fin", "rst", "epipe"}]
      /\ pc = "testa" /\ shoud_terminate \in BOOLEAN
  BY DEF Init
<1>9. nfds \in 0..SOCKET_MAX_POLL
  <2>1. nfds = 1 /\ SOCKET_MAX_POLL \in Nat /\ SOCKET_MAX_POLL # 0
    BY LimitesAssumption DEF Init
  <2>. QED BY <2>1
<1>10. TypeOK
  BY <1>2, <1>5, <1>6, <1>7, <1>8, <1>9 DEF TypeOK, LacoTipos
<1>. QED BY <1>4, <1>10 DEF Tipado

(* What the proofs about the parser need of each step: only recv changes   *)
(* the parser, what was read and the answers.                              *)
LEMMA RecvTipado ==
  ASSUME Tabela, Tipado, NEW s \in Sockets, NoRecv(s),
         parser' \in {Analisado(s), http_parser_reset_request(Analisado(s))}
  PROVE  Recebidos'
<1>1. ParserTipado(parser')
  BY AnalisadoTipo, ResetTipo DEF Tipado
<1>2. /\ lidos' = [lidos EXCEPT ![s] = lidos[s] + NumRecv(s)]
      /\ roteiro' = roteiro /\ enviados' = enviados
  BY DEF NoRecv, redeVars
<1>3. NumRecv(s) \in Nat /\ lidos[s] + NumRecv(s) <= enviados[s]
  BY NumRecvCabe DEF Tipado
<1>. QED BY <1>1, <1>2, <1>3 DEF Tipado, Recebidos

LEMMA RespostaTipo ==
  ASSUME Tabela, Tipado, NEW s \in Sockets, RecvResponde(s)
  PROVE  respostas' \in [Sockets -> Seq(Respostas)]
<1>. PICK h : h = Analisado(s)
  OBVIOUS
<1>. PICK x : x = router_route(Alvo[h.method].method, Texto(h.url))
  OBVIOUS
<1>. PICK r : r = [method |-> h.method, url |-> h.url, body |-> h.body, rota |-> x]
  OBVIOUS
<1>1. h \in Parsers
  BY AnalisadoTipo DEF Tipado, ParserTipado
<1>2. h.url \in Seq(Metades) /\ h.body \in Seq(Pedidos)
      /\ h.method \in Pedidos \cup {SemPedido}
  BY <1>1 DEF Parsers
<1>3. x \in [rota : {"nenhuma", "find_by_id", "save_transacao"},
             id : Seq(Digitos)]
  BY <1>2, TextoTipo, RotaTipo
<1>4. r \in Respostas
  BY <1>2, <1>3 DEF Respostas
<1>5. respostas' = [respostas EXCEPT ![s] = Append(respostas[s], r)]
  BY DEF RecvResponde
<1>6. respostas \in [Sockets -> Seq(Respostas)]
  BY DEF Tipado, TypeOK
<1>. QED BY <1>4, <1>5, <1>6

LEMMA TipadoNext == Tabela /\ Tabela' /\ Tipado /\ [Next]_vars => Tipado'
<1> SUFFICES ASSUME Tabela, Tabela', Tipado, [Next]_vars PROVE Tipado'
  OBVIOUS
<1> USE DEF tabela, mundo, redeVars
<1>0. nfds' \in 0..SOCKET_MAX_POLL /\ LacoTipos'
  <2>2. nfds' \in 0..SOCKET_MAX_POLL  \* it counts entries
    <3>1. IsFiniteSet(Usadas') /\ Cardinality(Usadas') <= SOCKET_MAX_POLL
      BY PosicoesFinitas, FS_Subset DEF Usadas
    <3>2. Cardinality(Usadas') \in Nat
      BY <3>1, FS_CardinalityType
    <3>. QED BY <3>1, <3>2, LimitesAssumption DEF Tabela, TabelaUnica
  <2>. QED BY <2>2 DEF Tabela
(* The parts of TypeOK the table does not know.                            *)
<1>. DEFINE Resto ==
       /\ pc \in {"testa", "antes_do_poll", "poll", "passa", "socket_read",
                  "fim", "morto"}
       /\ shoud_terminate \in BOOLEAN
       /\ par \in [Sockets -> {"aberto", "fin", "rst", "epipe"}]
       /\ respostas \in [Sockets -> Seq(Respostas)]
<1>a. Resto /\ Recebidos /\ UmaDeCadaVez
  BY DEF Tipado, TypeOK
<1>b. ASSUME Resto', Recebidos', UmaDeCadaVez' PROVE Tipado'
  BY <1>0, <1>b DEF Tipado, TypeOK, Recebidos, ParserTipado, LacoTipos
<1>1. ASSUME Testa \/ EntraNoPoll \/ PollVolta \/ FimDaPassada \/ Pula
             \/ NaoAceita \/ EntraSocketRead \/ Aceita
      PROVE  Tipado'
  <2>1. UNCHANGED <<parser, lidos, respostas, enviados, roteiro, par,
                    shoud_terminate>>
    BY <1>1 DEF Testa, EntraNoPoll, PollVolta, FimDaPassada, Pula, NaoAceita,
                EntraSocketRead, Aceita
  <2>2. /\ pc \notin {"socket_read", "morto"}
        /\ pc' \in {"fim", "antes_do_poll", "poll", "passa", "testa",
                    "socket_read"}
    BY <1>1 DEF Testa, EntraNoPoll, PollVolta, FimDaPassada, Pula, NaoAceita,
                EntraSocketRead, Aceita, NaEscuta, NaPosicao, Proxima
  <2>3. \A s \in Sockets : estado[s] = "fechada" => estado'[s] = "fechada"
    <3>1. CASE Aceita
      <4>1. fila # <<>> /\ fila \in Seq(Sockets)
        BY <3>1 DEF Aceita, NaEscuta, NaPosicao, Tabela, HaQuemAceitar, LacoTipos
      <4>2. estado[Head(fila)] = "fila"
        BY <4>1 DEF Tabela, FilaExata
      <4>. QED BY <3>1, <4>2 DEF Aceita, Tabela, LacoTipos
    <3>2. CASE ~Aceita
      BY <1>1, <3>2 DEF Testa, EntraNoPoll, PollVolta, FimDaPassada, Pula,
                        NaoAceita, EntraSocketRead
    <3>. QED BY <3>1, <3>2
  <2>4. Resto' /\ Recebidos'
    BY <1>a, <2>1, <2>2 DEF Recebidos
  <2>5. UmaDeCadaVez'
    BY <1>a, <2>1, <2>2, <2>3 DEF UmaDeCadaVez
  <2>. QED BY <1>b, <2>4, <2>5
<1>2. ASSUME NEW s \in Sockets,
             RecvSemResposta(s) \/ RecvResponde(s) \/ RecvMorre(s)
      PROVE  Tipado'
  <2>1. NoRecv(s)
        /\ parser' \in {Analisado(s), http_parser_reset_request(Analisado(s))}
    BY <1>2 DEF RecvSemResposta, RecvResponde, RecvMorre
  <2>2. Recebidos'
    BY <2>1, RecvTipado
  <2>3. /\ pc = "socket_read" /\ pc' \in {"socket_read", "morto"}
        /\ pfds[i] = s /\ UNCHANGED <<i, pfds, estado, shoud_terminate>>
        /\ \A t \in Sockets : t # s => lidos'[t] = lidos[t]
    BY <1>2, <2>1 DEF NoRecv, RecvSemResposta, RecvResponde, RecvMorre, Recebidos,
                      Tipado
  <2>4. UmaDeCadaVez'
    BY <1>a, <2>3 DEF UmaDeCadaVez
  <2>5. respostas' \in [Sockets -> Seq(Respostas)]
    BY <1>2, <1>a, RespostaTipo DEF RecvSemResposta, RecvMorre
  <2>6. par' \in [Sockets -> {"aberto", "fin", "rst", "epipe"}]
    BY <1>2, <1>a DEF RecvSemResposta, RecvResponde, RecvMorre
  <2>. QED BY <1>a, <1>b, <2>2, <2>3, <2>4, <2>5, <2>6
<1>3. ASSUME NEW s \in Sockets, FimDoRecv(s) \/ FechaSemLer(s)
      PROVE  Tipado'
  <2>1. FechaConexao(s) /\ pfds[i] = s
        /\ (pc = "socket_read" \/ NaPosicao("outro"))
    BY <1>3 DEF FimDoRecv, FechaSemLer
  <2>2. /\ estado' = [estado EXCEPT ![s] = "fechada"]
        /\ enviados' = [enviados EXCEPT ![s] = lidos[s]]
        /\ pc' = "passa"
        /\ UNCHANGED <<parser, lidos, respostas, roteiro, shoud_terminate, par>>
    BY <2>1 DEF FechaConexao, Proxima
  <2>3. Resto'
    BY <1>a, <2>2
  <2>4. Recebidos'
    <3>1. \A t \in Sockets : /\ enviados'[t] \in {lidos[t], enviados[t]}
                             /\ lidos[t] \in Nat /\ enviados[t] \in Nat
                             /\ lidos[t] <= enviados[t]
                             /\ enviados[t] <= Len(roteiro[t])
                             /\ Len(roteiro[t]) \in Nat
      BY <1>a, <2>2 DEF Recebidos
    <3>2. \A t \in Sockets : lidos[t] <= enviados'[t]
                             /\ enviados'[t] <= Len(roteiro[t])
      BY <3>1
    <3>3. enviados' \in [Sockets -> Nat]
      BY <1>a, <2>2 DEF Recebidos
    <3>. QED BY <1>a, <2>2, <3>2, <3>3 DEF Recebidos
  <2>5. UmaDeCadaVez'
    <3>1. estado \in [Sockets -> {"fora", "fila", "aberta", "fechada"}]
      BY DEF Tabela, LacoTipos
    <3>2. pc # "morto"
      BY <2>1 DEF NaPosicao
    <3>. QED BY <1>a, <2>1, <2>2, <3>1, <3>2 DEF UmaDeCadaVez
  <2>. QED BY <1>b, <2>3, <2>4, <2>5
<1>4. ASSUME handle_signal PROVE Tipado'
  <2>1. /\ UNCHANGED <<i, pfds, parser, lidos, respostas, roteiro, enviados,
                       estado, par>>
        /\ shoud_terminate' = TRUE /\ pc' = IF pc = "poll" THEN "testa" ELSE pc
    BY <1>4 DEF handle_signal
  <2>. QED BY <1>a, <1>b, <2>1 DEF Recebidos, UmaDeCadaVez
<1>5. ASSUME NEW s \in Sockets, Cliente(s) PROVE Tipado'
  <2>1. /\ UNCHANGED <<pc, i, pfds, parser, lidos, respostas, roteiro,
                       shoud_terminate>>
        /\ \A t \in Sockets : estado[t] = "fechada" => estado'[t] = "fechada"
    BY <1>5 DEF Cliente, Conecta, Envia, Encerra, Derruba, lacoVars, Tabela,
                LacoTipos
  <2>2. par' \in [Sockets -> {"aberto", "fin", "rst", "epipe"}]
    BY <1>5, <1>a DEF Cliente, Conecta, Envia, Encerra, Derruba, lacoVars
  <2>3. /\ enviados' \in [Sockets -> Nat]
        /\ \A t \in Sockets : lidos[t] <= enviados'[t]
                              /\ enviados'[t] <= Len(roteiro[t])
    <3>1. CASE Envia(s)
      <4>1. PICK n \in (enviados[s] + 1)..Len(roteiro[s]) :
              enviados' = [enviados EXCEPT ![s] = n]
        BY <3>1 DEF Envia
      <4>2. n \in Nat /\ n <= Len(roteiro[s]) /\ lidos[s] <= n
        BY <1>a DEF Recebidos
      <4>. QED BY <1>a, <4>1, <4>2 DEF Recebidos
    <3>2. CASE ~Envia(s)
      BY <1>5, <1>a, <3>2 DEF Cliente, Conecta, Encerra, Derruba, Recebidos
    <3>. QED BY <3>1, <3>2
  <2>4. Recebidos'
    BY <1>a, <2>1, <2>3 DEF Recebidos
  <2>5. UmaDeCadaVez'
    BY <1>a, <2>1 DEF UmaDeCadaVez
  <2>. QED BY <1>a, <1>b, <2>1, <2>2, <2>4, <2>5
<1>6. ASSUME UNCHANGED vars PROVE Tipado'
  BY <1>6, <1>a, <1>b DEF vars, lacoVars, Recebidos, UmaDeCadaVez
<1> QED
  BY <1>1, <1>2, <1>3, <1>4, <1>5, <1>6 DEF Next, Laco, Fim

(* Every variable of the loop and of the network keeps its type, the       *)
(* parser's and the answers' included, whatever clients send in whatever   *)
(* segments: no request has more than it can hold, no count passes zero.   *)
THEOREM SrvTipos == Spec => []TypeOK
<1>1. Tipado => TypeOK
  BY DEF Tipado
<1>. QED BY <1>1, TabelaInit, TabelaNext, TipadoInit, TipadoNext, PTL DEF Spec

-----------------------------------------------------------------------------
(* One well-formed request to a connection.  The parser after the first k  *)
(* of the 4 + n pieces of the request p, which found it clean.             *)
Limpo(h) == /\ h.fase = "inicio"
            /\ h.url = <<>>
            /\ h.body = <<>>
            /\ ~ h.complete

Lendo(h, p, n, m, k) ==
  /\ h \in Parsers
  /\ k = 0 => Limpo(h)
  /\ k = 1 => h.fase = "metodo" /\ h.url = <<>>
  /\ k = 2 => h.fase = "url" /\ h.url = <<Metade(p, "url")>>
  /\ k = 3 => h.fase = "cab"
  /\ k < 4 => h.body = <<>>
  /\ k < 4 + n => ~ h.complete
  /\ k > 0 => h.method = p
  /\ k > 2 => h.url = UrlInteira(p)
  /\ k > 3 => h.mantem = m /\ h.body = [j \in 1..(k - 4) |-> p]
  /\ k > 3 /\ k < 4 + n => h.fase = "corpo" /\ h.content_length = 4 + n - k
  /\ k = 4 + n => h.complete /\ h.fase = IF m THEN "inicio" ELSE "fechado"

(* The k-th piece of the request.                                          *)
Peca(x, p, n, m, k) ==
  /\ x.pedido = p
  /\ k = 1 => x.tipo = "metodo"
  /\ k = 2 => x.tipo = "url"
  /\ k = 3 => x.tipo = "linha"
  /\ k = 4 => x.tipo = "cab" /\ x.corpo = n /\ x.mantem = m
  /\ k > 4 => x.tipo = "corpo"

(* Simples(s) by its request.                                              *)
RoteiroDe(s, p, n, m) ==
  /\ p \in Pedidos /\ m \in BOOLEAN
  /\ n \in Nat /\ n <= HTTP_REQUEST_BODY_BUFFER_SIZE
  /\ Len(roteiro[s]) = 4 + n
  /\ \A k \in 1..(4 + n) : Peca(roteiro[s][k], p, n, m, k)

Pedaco(p, t, c, k) == [tipo |-> t, pedido |-> p, corpo |-> c, mantem |-> k]
Cabeca(p, n, m) == << Pedaco(p, "metodo", 0, FALSE), Pedaco(p, "url", 0, FALSE),
                      Pedaco(p, "linha", 0, FALSE), Pedaco(p, "cab", n, m) >>

LEMMA Quatro ==
  ASSUME NEW S, NEW w \in S, NEW x \in S, NEW y \in S, NEW z \in S,
         NEW n \in Nat, NEW v \in S
  PROVE  /\ <<w, x, y, z>> \in Seq(S) /\ Len(<<w, x, y, z>>) = 4
         /\ <<w, x, y, z>>[1] = w /\ <<w, x, y, z>>[2] = x
         /\ <<w, x, y, z>>[3] = y /\ <<w, x, y, z>>[4] = z
         /\ [k \in 1..n |-> v] \in Seq(S) /\ Len([k \in 1..n |-> v]) = n
         /\ \A k \in 1..n : [j \in 1..n |-> v][k] = v
<1>1. <<w, x, y, z>> \in Seq(S) /\ Len(<<w, x, y, z>>) = 4
  OBVIOUS
<1>2. /\ <<w, x, y, z>>[1] = w /\ <<w, x, y, z>>[2] = x
      /\ <<w, x, y, z>>[3] = y /\ <<w, x, y, z>>[4] = z
  OBVIOUS
<1>3. [k \in 1..n |-> v] \in Seq(S) /\ Len([k \in 1..n |-> v]) = n
  OBVIOUS
<1>. QED BY <1>1, <1>2, <1>3

LEMMA QuatroMaisN ==
  ASSUME NEW S, NEW a \in Seq(S), Len(a) = 4,
         NEW n \in Nat, NEW b \in Seq(S), Len(b) = n
  PROVE  /\ Len(a \o b) = 4 + n
         /\ (a \o b)[1] = a[1] /\ (a \o b)[2] = a[2]
         /\ (a \o b)[3] = a[3] /\ (a \o b)[4] = a[4]
         /\ \A k \in 1..(4 + n) : k > 4 => (a \o b)[k] = b[k - 4]
<1>1. /\ Len(a \o b) = 4 + n
      /\ \A k \in 1..(4 + n) :
           (a \o b)[k] = IF k <= 4 THEN a[k] ELSE b[k - 4]
  <2>1. /\ Len(a \o b) = Len(a) + Len(b)
        /\ \A k \in 1..(Len(a) + Len(b)) :
             (a \o b)[k] = IF k <= Len(a) THEN a[k] ELSE b[k - Len(a)]
    BY ConcatProperties
  <2>. QED BY <2>1, Zenon
<1>2. 1 \in 1..(4 + n) /\ 2 \in 1..(4 + n) /\ 3 \in 1..(4 + n) /\ 4 \in 1..(4 + n)
  OBVIOUS
<1>p. PICK q : q = a \o b
  OBVIOUS
<1>3. \A k \in 1..(4 + n) : q[k] = IF k <= 4 THEN a[k] ELSE b[k - 4]
  BY <1>1, <1>p, Zenon
<1>4. q[1] = a[1] /\ q[2] = a[2] /\ q[3] = a[3] /\ q[4] = a[4]
  BY <1>2, <1>3
<1>5. ASSUME NEW k \in 1..(4 + n), k > 4 PROVE q[k] = b[k - 4]
  <2>1. ~ (k <= 4)
    BY <1>5
  <2>. QED BY <1>3, <2>1, Zenon
<1>. QED BY <1>1, <1>4, <1>5, <1>p, Zenon

LEMMA SimplesRoteiro ==
  ASSUME NEW s \in Sockets, Simples(s)
  PROVE  \E p, n, m : RoteiroDe(s, p, n, m)
<1>1. PICK p \in Pedidos, n \in 0..MaxCorpo, m \in BOOLEAN :
        /\ n <= HTTP_REQUEST_BODY_BUFFER_SIZE
        /\ roteiro[s] = Cabeca(p, n, m)
                          \o [k \in 1..n |-> Pedaco(p, "corpo", 0, FALSE)]
  BY DEF Simples, Cabeca, Pedaco
<1>2. n \in Nat /\ 0 \in 0..MaxCorpo
  BY HttpAssumption
<1>3. /\ Pedaco(p, "metodo", 0, FALSE) \in Pedacos
      /\ Pedaco(p, "url", 0, FALSE) \in Pedacos
      /\ Pedaco(p, "linha", 0, FALSE) \in Pedacos
      /\ Pedaco(p, "cab", n, m) \in Pedacos
      /\ Pedaco(p, "corpo", 0, FALSE) \in Pedacos
  BY <1>2 DEF Pedaco, Pedacos
<1>4. PICK a, b :
        /\ a \in Seq(Pedacos) /\ Len(a) = 4
        /\ a[1] = Pedaco(p, "metodo", 0, FALSE)
        /\ a[2] = Pedaco(p, "url", 0, FALSE)
        /\ a[3] = Pedaco(p, "linha", 0, FALSE)
        /\ a[4] = Pedaco(p, "cab", n, m)
        /\ b \in Seq(Pedacos) /\ Len(b) = n
        /\ \A k \in 1..n : b[k] = Pedaco(p, "corpo", 0, FALSE)
        /\ roteiro[s] = a \o b
  <2>1. \A w, x, y, z, v \in Pedacos :
          /\ <<w, x, y, z>> \in Seq(Pedacos) /\ Len(<<w, x, y, z>>) = 4
          /\ <<w, x, y, z>>[1] = w /\ <<w, x, y, z>>[2] = x
          /\ <<w, x, y, z>>[3] = y /\ <<w, x, y, z>>[4] = z
          /\ [k \in 1..n |-> v] \in Seq(Pedacos)
          /\ Len([k \in 1..n |-> v]) = n
          /\ \A k \in 1..n : [j \in 1..n |-> v][k] = v
    BY <1>2, Quatro
  <2>2. Cabeca(p, n, m) =
          << Pedaco(p, "metodo", 0, FALSE), Pedaco(p, "url", 0, FALSE),
             Pedaco(p, "linha", 0, FALSE), Pedaco(p, "cab", n, m) >>
    BY DEF Cabeca
  <2>p. PICK w \in Pedacos, x \in Pedacos, y \in Pedacos, z \in Pedacos,
             v \in Pedacos :
          /\ w = Pedaco(p, "metodo", 0, FALSE) /\ x = Pedaco(p, "url", 0, FALSE)
          /\ y = Pedaco(p, "linha", 0, FALSE) /\ z = Pedaco(p, "cab", n, m)
          /\ v = Pedaco(p, "corpo", 0, FALSE)
    BY <1>3, Zenon
  <2>q. PICK a : a = <<w, x, y, z>>
    OBVIOUS
  <2>3. /\ a \in Seq(Pedacos) /\ Len(a) = 4
        /\ a[1] = w /\ a[2] = x /\ a[3] = y /\ a[4] = z
        /\ Cabeca(p, n, m) = a
    BY <2>1, <2>2, <2>p, <2>q, Zenon
  <2>r. PICK b : b = [k \in 1..n |-> v]
    OBVIOUS
  <2>4. /\ b \in Seq(Pedacos) /\ Len(b) = n
        /\ \A k \in 1..n : b[k] = v
    BY <1>2, <2>r
  <2>5. [k \in 1..n |-> Pedaco(p, "corpo", 0, FALSE)] = [k \in 1..n |-> v]
    BY <2>p, Zenon
  <2>6. roteiro[s] = a \o b
    BY <1>1, <2>3, <2>5, <2>r, Zenon
  <2>. QED BY <2>3, <2>4, <2>6, <2>p, Zenon
<1>5. /\ Len(roteiro[s]) = 4 + n
      /\ roteiro[s][1] = a[1] /\ roteiro[s][2] = a[2]
      /\ roteiro[s][3] = a[3] /\ roteiro[s][4] = a[4]
      /\ \A k \in 1..(4 + n) : k > 4 => roteiro[s][k] = b[k - 4]
  <2>1. /\ a \in Seq(Pedacos) /\ Len(a) = 4 /\ n \in Nat
        /\ b \in Seq(Pedacos) /\ Len(b) = n /\ roteiro[s] = a \o b
    BY <1>2, <1>4
  <2>. QED BY ONLY <2>1, QuatroMaisN
<1>6. ASSUME NEW k \in 1..(4 + n) PROVE Peca(roteiro[s][k], p, n, m, k)
  <2>1. /\ k \in Nat /\ (k > 4 => k - 4 \in 1..n)
        /\ (k = 1 \/ k = 2 \/ k = 3 \/ k = 4 \/ k > 4)
    BY <1>2
  <2>2. CASE k > 4
    <3>1. roteiro[s][k] = Pedaco(p, "corpo", 0, FALSE)
      <4>1. roteiro[s][k] = b[k - 4]
        BY <1>5, <2>2
      <4>. QED BY <1>4, <2>1, <2>2, <4>1
    <3>. QED BY <2>1, <2>2, <3>1 DEF Peca, Pedaco
  <2>3. CASE k = 1
    <3>1. roteiro[s][k] = Pedaco(p, "metodo", 0, FALSE)
      BY <1>4, <1>5, <2>3, Zenon
    <3>. QED BY <2>3, <3>1 DEF Peca, Pedaco
  <2>4. CASE k = 2
    <3>1. roteiro[s][k] = Pedaco(p, "url", 0, FALSE)
      BY <1>4, <1>5, <2>4, Zenon
    <3>. QED BY <2>4, <3>1 DEF Peca, Pedaco
  <2>5. CASE k = 3
    <3>1. roteiro[s][k] = Pedaco(p, "linha", 0, FALSE)
      BY <1>4, <1>5, <2>5, Zenon
    <3>. QED BY <2>5, <3>1 DEF Peca, Pedaco
  <2>6. CASE k = 4
    <3>1. roteiro[s][k] = Pedaco(p, "cab", n, m)
      BY <1>4, <1>5, <2>6, Zenon
    <3>. QED BY <2>6, <3>1 DEF Peca, Pedaco
  <2>. QED BY <2>1, <2>2, <2>3, <2>4, <2>5, <2>6
<1>7. RoteiroDe(s, p, n, m)
  BY <1>1, <1>2, <1>5, <1>6 DEF RoteiroDe
<1>. QED BY <1>7

LEMMA Curtas ==
  ASSUME NEW a, NEW b
  PROVE  /\ Len(<<>>) = 0 /\ Append(<<>>, a) = <<a>>
         /\ Len(<<a>>) = 1 /\ Append(<<a>>, b) = <<a, b>>
         /\ Len(<<a, b>>) = 2
<1>. PICK q : q = Append(<<a>>, b)
  OBVIOUS
<1>1. /\ <<a>> \in Seq({a, b}) /\ Len(<<a>>) = 1
      /\ <<a, b>> \in Seq({a, b}) /\ Len(<<a, b>>) = 2
  OBVIOUS
<1>2. q \in Seq({a, b}) /\ Len(q) = 2
  BY <1>1
<1>3. q[1] = a /\ q[2] = b
  BY <1>1
<1>4. \A k \in 1..2 : q[k] = <<a, b>>[k]
  <2>1. \A k \in 1..2 : k = 1 \/ k = 2
    OBVIOUS
  <2>. QED BY <1>3, <2>1
<1>5. q = <<a, b>>
  BY <1>1, <1>2, <1>4, SeqEqual
<1>6. Len(<<>>) = 0 /\ Append(<<>>, a) = <<a>>
  OBVIOUS
<1>. QED BY <1>1, <1>5, <1>6

(* One piece further, if two halves of a url fit the buffer.               *)
LEMMA LendoPasso ==
  ASSUME HTTP_REQUEST_URL_BUFFER_SIZE > 2,
         NEW p \in Pedidos, NEW n \in Nat, n <= HTTP_REQUEST_BODY_BUFFER_SIZE,
         NEW m \in BOOLEAN, NEW k \in Nat, k < 4 + n,
         NEW h, Lendo(h, p, n, m, k), ParserTipado(h),
         NEW x \in Pedacos, Peca(x, p, n, m, k + 1)
  PROVE  Lendo(Passo(h, x), p, n, m, k + 1)
<1>g. PICK g : g = Passo(h, x)
  OBVIOUS
<1>0. h \in Parsers /\ g \in Parsers
  BY <1>g, PassoTipo DEF ParserTipado
<1>u. HTTP_REQUEST_URL_BUFFER_SIZE \in Nat /\ HTTP_REQUEST_BODY_BUFFER_SIZE \in Nat
  BY HttpAssumption
<1>1. CASE k = 0
  <2>1. g = [h EXCEPT !.fase = "metodo", !.method = p]
    BY <1>1, <1>g DEF Lendo, Limpo, Peca, Passo, Inicio
  <2>. QED BY <1>0, <1>g, <1>1, <2>1 DEF Lendo, Limpo, Parsers
<1>2. CASE k = 1
  <2>f. PICK f : f = [h EXCEPT !.fase = "url"]
    OBVIOUS
  <2>1. g = handle_on_url(f, x)
    BY <1>2, <1>g, <2>f DEF Lendo, Peca, Passo, Metodo
  <2>2. f.url = <<>> /\ f \in Parsers
    BY <1>0, <1>2, <2>f DEF Lendo, Parsers, Fases
  <2>3. ~ (Len(f.url) + 1 >= HTTP_REQUEST_URL_BUFFER_SIZE)
    <3>1. Len(f.url) + 1 = 1
      BY <2>2, Curtas
    <3>. QED BY <1>u, <3>1
  <2>4. g = [f EXCEPT !.url = Append(f.url, Metade(p, "url"))]
    <3>1. x.pedido = p /\ x.tipo = "url"
      BY <1>2 DEF Peca
    <3>. QED BY <2>1, <2>3, <3>1 DEF handle_on_url
  <2>5. Append(f.url, Metade(p, "url")) = <<Metade(p, "url")>>
    BY <2>2, Curtas
  <2>. QED BY <1>0, <1>2, <1>g, <2>f, <2>4, <2>5 DEF Lendo, Parsers
<1>3. CASE k = 2
  <2>f. PICK f : f = [h EXCEPT !.fase = "cab"]
    OBVIOUS
  <2>1. g = handle_on_url(f, x)
    BY <1>3, <1>g, <2>f DEF Lendo, Peca, Passo, Url
  <2>2. f.url = <<Metade(p, "url")>> /\ f \in Parsers
    BY <1>0, <1>3, <2>f DEF Lendo, Parsers, Fases
  <2>3. ~ (Len(f.url) + 1 >= HTTP_REQUEST_URL_BUFFER_SIZE)
    <3>1. Len(f.url) + 1 = 2
      <4>1. \A z : Len(<<z>>) = 1
        BY Curtas
      <4>2. Len(<<Metade(p, "url")>>) = 1
        BY <4>1, Zenon
      <4>3. Len(f.url) = 1
        BY <2>2, <4>2, Zenon
      <4>. QED BY <4>3
    <3>. QED BY <1>u, <3>1
  <2>4. g = [f EXCEPT !.url = Append(f.url, Metade(p, "linha"))]
    <3>1. x.pedido = p /\ x.tipo = "linha"
      BY <1>3 DEF Peca
    <3>. QED BY <2>1, <2>3, <3>1 DEF handle_on_url
  <2>5. Append(f.url, Metade(p, "linha")) = UrlInteira(p)
    BY <2>2, Curtas DEF UrlInteira
  <2>. QED BY <1>0, <1>3, <1>g, <2>f, <2>4, <2>5 DEF Lendo, Parsers
<1>4. CASE k = 3
  <2>0. h.fase = "cab" /\ x.tipo = "cab" /\ x.corpo = n /\ x.mantem = m
        /\ h.url = UrlInteira(p) /\ h.body = <<>> /\ h.method = p /\ ~h.complete
    BY <1>4 DEF Lendo, Peca
  <2>1. [j \in 1..(4 - 4) |-> p] = <<>>
    OBVIOUS
  <2>2. CASE n = 0
    <3>1. g = handle_on_message_complete([h EXCEPT !.mantem = m])
      BY <1>g, <2>0, <2>2 DEF Passo, Cab
    <3>2. g.complete /\ g.fase = (IF m THEN "inicio" ELSE "fechado") /\ g.mantem = m
          /\ g.url = h.url /\ g.body = h.body /\ g.method = h.method
      BY <1>0, <3>1 DEF handle_on_message_complete, Parsers
    <3>. QED BY <1>0, <1>g, <1>4, <2>0, <2>1, <2>2, <3>2 DEF Lendo
  <2>3. CASE n > 0
    <3>1. g = [h EXCEPT !.fase = "corpo", !.content_length = n, !.mantem = m]
      BY <1>g, <2>0, <2>3 DEF Passo, Cab
    <3>2. g.fase = "corpo" /\ g.content_length = n /\ g.mantem = m
          /\ g.url = h.url /\ g.body = h.body /\ g.method = h.method /\ ~g.complete
      BY <1>0, <2>0, <3>1 DEF Parsers
    <3>3. 4 + n - 4 = n /\ ~(4 = 4 + n)
      BY <2>3
    <3>. QED BY <1>0, <1>g, <1>4, <2>0, <2>1, <3>2, <3>3 DEF Lendo
  <2>. QED BY <2>2, <2>3
<1>5. CASE k > 3
  <2>0. /\ h.fase = "corpo" /\ h.content_length = 4 + n - k /\ h.mantem = m
        /\ h.url = UrlInteira(p) /\ h.body = [j \in 1..(k - 4) |-> p]
        /\ h.method = p /\ ~h.complete /\ x.pedido = p
    BY <1>5 DEF Lendo, Peca
  <2>k. PICK b : b = [h EXCEPT !.content_length = @ - 1]
    OBVIOUS
  <2>e. PICK lido : lido = handle_on_body(b, x)
    OBVIOUS
  <2>d. PICK d : d = k - 4
    OBVIOUS
  <2>1. d \in Nat /\ d < n /\ d + 1 = (k + 1) - 4 /\ 4 + n - k = n - d
    BY <1>5, <2>d
  <2>2. b.body = [j \in 1..d |-> p] /\ Len(b.body) = d
    BY <1>0, <2>0, <2>1, <2>k, <2>d DEF Parsers
  <2>3. ~ (Len(b.body) + 1 > HTTP_REQUEST_BODY_BUFFER_SIZE)
    BY <1>u, <2>1, <2>2
  <2>4. Append([j \in 1..d |-> p], p) = [j \in 1..(d + 1) |-> p]
    BY <2>1
  <2>5. lido = [b EXCEPT !.body = [j \in 1..(d + 1) |-> p]]
    BY <2>0, <2>2, <2>3, <2>4, <2>e DEF handle_on_body
  <2>a. /\ b.fase = "corpo" /\ b.content_length = 4 + n - k - 1
        /\ b.mantem = m /\ b.url = UrlInteira(p) /\ b.method = p
        /\ ~ b.complete
    BY <1>0, <2>0, <2>k DEF Parsers
  <2>b. 4 + n - k - 1 = n - d - 1
    BY <1>5, <2>1
  <2>c. /\ lido.fase = b.fase /\ lido.content_length = b.content_length
        /\ lido.mantem = b.mantem /\ lido.url = b.url /\ lido.method = b.method
        /\ lido.complete = b.complete /\ lido.body = [j \in 1..(d + 1) |-> p]
    BY <1>0, <2>5, <2>k DEF Parsers
  <2>6. /\ lido.fase = "corpo" /\ lido.content_length = n - d - 1
        /\ lido.mantem = m /\ lido.url = UrlInteira(p) /\ lido.method = p
        /\ ~ lido.complete /\ lido.body = [j \in 1..((k + 1) - 4) |-> p]
    BY <2>1, <2>a, <2>b, <2>c
  <2>7. g = IF lido.content_length = 0 THEN handle_on_message_complete(lido)
            ELSE lido
    BY <1>g, <2>0, <2>6, <2>e, <2>k DEF Passo, Corpo
  <2>8. n - d - 1 = 4 + n - (k + 1) /\ (n - d - 1 = 0 <=> k + 1 = 4 + n)
        /\ k + 1 > 3 /\ k + 1 > 4 - 1 /\ ~(k + 1 < 4)
    BY <1>5, <2>1
  <2>9. CASE n - d - 1 = 0
    <3>1. g = handle_on_message_complete(lido)
      BY <2>6, <2>7, <2>9
    <3>3. g.complete /\ g.fase = (IF m THEN "inicio" ELSE "fechado") /\ g.mantem = m
          /\ g.url = lido.url /\ g.body = lido.body /\ g.method = lido.method
      BY <1>0, <2>5, <2>6, <2>k, <3>1 DEF handle_on_message_complete, Parsers
    <3>. QED BY <1>0, <1>g, <1>5, <2>6, <2>8, <2>9, <3>3 DEF Lendo
  <2>10. CASE n - d - 1 # 0
    <3>1. g = lido
      BY <2>6, <2>7, <2>10
    <3>2. k + 1 < 4 + n
      BY <2>8, <2>10
    <3>. QED BY <1>0, <1>g, <2>6, <2>8, <3>1, <3>2 DEF Lendo
  <2>. QED BY <2>9, <2>10
<1>6. k = 0 \/ k = 1 \/ k = 2 \/ k = 3 \/ k > 3
  OBVIOUS
<1>. QED BY <1>1, <1>2, <1>3, <1>4, <1>5, <1>6, <1>g

(* The parser after a recv in the middle of the request.                   *)
LEMMA LendoRecv ==
  ASSUME HTTP_REQUEST_URL_BUFFER_SIZE > 2, Recebidos, NEW s \in Sockets,
         NEW p, NEW n, NEW m, RoteiroDe(s, p, n, m), lidos[s] < 4 + n,
         Lendo(parser, p, n, m, lidos[s])
  PROVE  Lendo(Analisado(s), p, n, m, lidos[s] + NumRecv(s))
<1>r. PICK r : r = roteiro[s]
  OBVIOUS
<1>l. PICK l : l = lidos[s]
  OBVIOUS
<1>a. PICK a : a = NumRecv(s)
  OBVIOUS
<1>1. /\ r \in Seq(Pedacos) /\ l \in Nat /\ a \in Nat /\ l + a <= Len(r)
      /\ Len(r) = 4 + n /\ \A k \in 1..(4 + n) : Peca(r[k], p, n, m, k)
      /\ p \in Pedidos /\ m \in BOOLEAN
      /\ n \in Nat /\ n <= HTTP_REQUEST_BODY_BUFFER_SIZE
  BY <1>r, <1>l, <1>a, NumRecvCabe DEF Recebidos, RoteiroDe
<1>. DEFINE R == {hk \in Parsers \X Nat : /\ ParserTipado(hk[1])
                                          /\ Lendo(hk[1], p, n, m, hk[2])}
<1>2. ASSUME NEW x, NEW k, <<x, k>> \in R, k \in l..(l + a - 1)
      PROVE  <<Passo(x, r[k + 1]), k + 1>> \in R
  <2>1. ParserTipado(x) /\ Lendo(x, p, n, m, k)
    BY <1>2
  <2>2. k \in Nat /\ k + 1 \in Nat /\ k < 4 + n /\ k + 1 \in 1..(4 + n)
        /\ k + 1 \in 1..Len(r)
    BY <1>1, <1>2
  <2>3. r[k + 1] \in Pedacos /\ Peca(r[k + 1], p, n, m, k + 1)
    BY <1>1, <2>2
  <2>4. ParserTipado(Passo(x, r[k + 1]))
    BY <2>1, <2>3, PassoTipo
  <2>5. Lendo(Passo(x, r[k + 1]), p, n, m, k + 1)
    BY <1>1, <2>1, <2>2, <2>3, LendoPasso
  <2>6. Passo(x, r[k + 1]) \in Parsers
    BY <2>4 DEF ParserTipado
  <2>. QED BY <2>2, <2>4, <2>5, <2>6
<1>3. <<parser, l>> \in R
  BY <1>1, <1>l DEF Recebidos, ParserTipado
<1>4. \A hk : hk \in R => Lendo(hk[1], p, n, m, hk[2])
  OBVIOUS
<1>. HIDE DEF R
<1>5. <<llhttp_execute(parser, SubSeq(r, l + 1, l + a)), l + a>> \in R
  BY <1>1, <1>2, <1>3, ExecutePreserva
<1>6. Lendo(llhttp_execute(parser, SubSeq(r, l + 1, l + a)), p, n, m, l + a)
  BY <1>4, <1>5
<1>. QED BY <1>6, <1>r, <1>l, <1>a DEF Analisado, http_parser_parse

(* The invariant: while every connection that was closed carried one       *)
(* request read to its end, the parser is clean between connections, and   *)
(* holds of the connection being read just the pieces that were read.      *)
SoInteiras == \A s \in Sockets : Fechada(s) => Simples(s) /\ LidoInteiro(s)
Respondida(s) == Len(respostas[s]) = 1 /\ Fiel(s, respostas[s][1])
EmLeitura(s) ==
  \A p, n, m : RoteiroDe(s, p, n, m) =>
    IF lidos[s] < 4 + n
    THEN Lendo(parser, p, n, m, lidos[s]) /\ respostas[s] = <<>>
    ELSE Limpo(parser) /\ Respondida(s)
Fidelidade ==
  SoInteiras =>
    /\ \A s \in Sockets : Fechada(s) => Respondida(s)
    /\ \A s \in Sockets : lidos[s] = 0 => respostas[s] = <<>>
    /\ pc # "morto" /\ (\A s \in Sockets : lidos[s] > 0 => Fechada(s))
         => Limpo(parser)
    /\ pc # "morto" =>
         \A s \in Sockets : lidos[s] > 0 /\ ~Fechada(s) => EmLeitura(s)

(* A request that was found clean, or is half read, and one more recv.     *)
LEMMA RecvLeitura ==
  ASSUME HTTP_REQUEST_URL_BUFFER_SIZE > 2, Tabela, Tipado,
         Fidelidade, SoInteiras,
         NEW s \in Sockets, NoRecv(s), ~Fechada(s),
         RecvSemResposta(s) \/ RecvResponde(s)
  PROVE  EmLeitura(s)'
<1>0. /\ Recebidos /\ lidos[s] \in Nat /\ NumRecv(s) \in Nat /\ NumRecv(s) > 0
      /\ lidos' = [lidos EXCEPT ![s] = lidos[s] + NumRecv(s)]
      /\ lidos'[s] = lidos[s] + NumRecv(s)
      /\ lidos[s] + NumRecv(s) <= Len(roteiro[s])
      /\ roteiro' = roteiro /\ pc = "socket_read" /\ pfds[i] = s
  BY NumRecvCabe DEF Tipado, Recebidos, NoRecv, redeVars
<1>. SUFFICES ASSUME NEW p, NEW n, NEW m, RoteiroDe(s, p, n, m)
              PROVE  IF lidos'[s] < 4 + n
                     THEN Lendo(parser', p, n, m, lidos'[s])
                          /\ respostas'[s] = <<>>
                     ELSE Limpo(parser') /\ Respondida(s)'
  BY <1>0 DEF EmLeitura, RoteiroDe
<1>h. PICK h : h = Analisado(s)
  OBVIOUS
<1>1. /\ n \in Nat /\ Len(roteiro[s]) = 4 + n /\ lidos[s] < 4 + n
      /\ lidos'[s] \in Nat /\ lidos'[s] <= 4 + n
  BY <1>0 DEF RoteiroDe
<1>2. Lendo(parser, p, n, m, lidos[s]) /\ respostas[s] = <<>>
  <2>1. CASE lidos[s] = 0
    <3>1. \A t \in Sockets : lidos[t] > 0 => Fechada(t)
      BY <1>0, <2>1 DEF Tipado, UmaDeCadaVez, Fechada
    <3>2. Limpo(parser) /\ respostas[s] = <<>>
      BY <1>0, <2>1, <3>1 DEF Fidelidade
    <3>. QED BY <1>0, <1>1, <2>1, <3>2
             DEF Lendo, Limpo, Recebidos, ParserTipado
  <2>2. CASE lidos[s] > 0
    <3>1. EmLeitura(s)
      BY <1>0, <2>2 DEF Fidelidade
    <3>. QED BY <1>1, <3>1 DEF EmLeitura
  <2>. QED BY <1>0, <2>1, <2>2
<1>3. Lendo(h, p, n, m, lidos'[s])
  BY <1>0, <1>1, <1>2, <1>h, LendoRecv
<1>4. CASE lidos'[s] < 4 + n
  <2>1. ~ Completo(h)
    BY <1>3, <1>4 DEF Lendo, Completo, http_parser_request_is_complete
  <2>2. parser' = h /\ respostas' = respostas
    BY <1>h, <2>1 DEF RecvSemResposta, RecvResponde
  <2>. QED BY <1>2, <1>3, <1>4, <2>2
<1>5. CASE lidos'[s] = 4 + n
  <2>1. h.complete /\ h.fase \in {"inicio", "fechado"} /\ h \in Parsers
        /\ h.method = p /\ h.url = UrlInteira(p) /\ h.body = [j \in 1..n |-> p]
    <3>k. PICK k : k = lidos'[s]
      OBVIOUS
    <3>1. k = 4 + n /\ k > 0 /\ k > 2 /\ k > 3 /\ k - 4 = n
      BY <1>1, <1>5, <3>k
    <3>2. Lendo(h, p, n, m, k)
      BY <1>3, <3>k
    <3>3. h.body = [j \in 1..(k - 4) |-> p]
      BY <3>1, <3>2 DEF Lendo
    <3>4. h.body = [j \in 1..n |-> p]
      BY <3>1, <3>3
    <3>. QED BY <3>1, <3>2, <3>4 DEF Lendo
  <2>2. RecvResponde(s)
    BY <1>h, <2>1 DEF RecvSemResposta, Completo, Sucesso,
                      http_parser_request_is_complete
  <2>3. parser' = http_parser_reset_request(h)
    BY <1>h, <2>2 DEF RecvResponde
  <2>4. Limpo(parser')
    BY <2>1, <2>3 DEF http_parser_reset_request, Limpo, Parsers
  <2>5. PICK x : respostas' = [respostas EXCEPT ![s] = Append(respostas[s],
                   [method |-> h.method, url |-> h.url, body |-> h.body,
                    rota |-> x])]
    BY <1>h, <2>2 DEF RecvResponde
  <2>r. PICK r : r = [method |-> h.method, url |-> h.url, body |-> h.body,
                      rota |-> x]
    OBVIOUS
  <2>6. r.method = p /\ r.url = UrlInteira(p) /\ r.body = [j \in 1..n |-> p]
    BY <2>1, <2>r
  <2>7. respostas'[s] = Append(<<>>, r)
    <3>1. respostas \in [Sockets -> Seq(Respostas)]
      BY DEF Tipado, TypeOK
    <3>. QED BY <1>2, <2>5, <2>r, <3>1
  <2>8. Len(respostas'[s]) = 1 /\ respostas'[s][1] = r
    <3>1. \A z : Len(<<z>>) = 1 /\ <<z>>[1] = z /\ Append(<<>>, z) = <<z>>
      BY Curtas
    <3>. QED BY <2>7, <3>1, Zenon
  <2>9. roteiro[s][1].pedido = p /\ roteiro[s][4].corpo = n
    <3>1. 1 \in 1..(4 + n) /\ 4 \in 1..(4 + n)
      BY <1>1
    <3>2. Peca(roteiro[s][1], p, n, m, 1) /\ Peca(roteiro[s][4], p, n, m, 4)
      BY <3>1 DEF RoteiroDe
    <3>. QED BY <3>2 DEF Peca
  <2>10. Respondida(s)'
    BY <1>0, <2>6, <2>8, <2>9 DEF Respondida, Fiel
  <2>. QED BY <1>1, <1>5, <2>4, <2>10
<1>. QED BY <1>1, <1>4, <1>5

LEMMA FidelidadeRecv ==
  ASSUME HTTP_REQUEST_URL_BUFFER_SIZE > 2, Tabela, Tipado, Fidelidade,
         NEW s \in Sockets,
         RecvSemResposta(s) \/ RecvResponde(s) \/ RecvMorre(s)
  PROVE  Fidelidade'
<1>1. /\ NoRecv(s) /\ pc = "socket_read" /\ pfds[i] = s
      /\ UNCHANGED <<estado, roteiro>>
      /\ lidos \in [Sockets -> Nat] /\ NumRecv(s) \in Nat /\ NumRecv(s) > 0
      /\ lidos' = [lidos EXCEPT ![s] = lidos[s] + NumRecv(s)]
      /\ lidos'[s] > 0 /\ lidos'[s] \in Nat
      /\ \A t \in Sockets : t # s => lidos'[t] = lidos[t]
  BY NumRecvCabe DEF Tipado, Recebidos, NoRecv, RecvSemResposta, RecvResponde,
                     RecvMorre, redeVars
<1>2. estado[s] = "aberta"
  <2>1. i \in Posicoes
    BY <1>1, LimitesAssumption DEF Tabela, LacoTipos, Posicoes
  <2>. QED BY <1>1, <2>1 DEF Tabela, TabelaUnica
<1>3. \A t \in Sockets : t # s => respostas'[t] = respostas[t]
  <2>1. respostas \in [Sockets -> Seq(Respostas)]
    BY DEF Tipado, TypeOK
  <2>. QED BY <2>1 DEF RecvSemResposta, RecvResponde, RecvMorre
<1>4. SUFFICES ASSUME SoInteiras' PROVE
        /\ \A t \in Sockets : Fechada(t)' => Respondida(t)'
        /\ \A t \in Sockets : lidos'[t] = 0 => respostas'[t] = <<>>
        /\ pc' # "morto" /\ (\A t \in Sockets : lidos'[t] > 0 => Fechada(t)')
             => Limpo(parser')
        /\ pc' # "morto" =>
             \A t \in Sockets : lidos'[t] > 0 /\ ~Fechada(t)' => EmLeitura(t)'
  BY DEF Fidelidade
<1>5. ~Fechada(s) /\ \A t \in Sockets : Fechada(t)' <=> Fechada(t)
  BY <1>1, <1>2 DEF Fechada
<1>6. SoInteiras
  <2>1. SUFFICES ASSUME NEW t \in Sockets, Fechada(t)
                 PROVE  Simples(t) /\ LidoInteiro(t)
    BY DEF SoInteiras
  <2>2. t # s /\ Fechada(t)'
    BY <1>5, <2>1
  <2>3. Simples(t)' /\ LidoInteiro(t)'
    BY <1>4, <2>2 DEF SoInteiras
  <2>4. Simples(t) <=> Simples(t)'
    BY <1>1 DEF Simples
  <2>5. LidoInteiro(t)
    BY <1>1, <2>2, <2>3 DEF LidoInteiro
  <2>. QED BY <2>3, <2>4, <2>5
<1>7. \A t \in Sockets : Fechada(t)' => Respondida(t)'
  BY <1>1, <1>3, <1>5, <1>6 DEF Fidelidade, Respondida, Fiel
<1>8. \A t \in Sockets : lidos'[t] = 0 => respostas'[t] = <<>>
  BY <1>1, <1>3, <1>6 DEF Fidelidade
<1>9. ~ (\A t \in Sockets : lidos'[t] > 0 => Fechada(t)')
  BY <1>1, <1>5
<1>10. ASSUME pc' # "morto", NEW t \in Sockets, lidos'[t] > 0, ~Fechada(t)'
       PROVE  EmLeitura(t)'
  <2>1. t = s
    BY <1>1, <1>5, <1>10 DEF Tipado, UmaDeCadaVez, Fechada
  <2>2. RecvSemResposta(s) \/ RecvResponde(s)
    BY <1>10 DEF RecvMorre
  <2>3. EmLeitura(s)'
    BY <1>1, <1>5, <1>6, <2>2, RecvLeitura
  <2>. QED BY <2>1, <2>3
<1>. QED BY <1>7, <1>8, <1>9, <1>10

LEMMA FidelidadeFecha ==
  ASSUME Tabela, Tipado, Fidelidade, NEW s \in Sockets, FechaConexao(s),
         i \in Posicoes, pfds[i] = s, pc # "morto"
  PROVE  Fidelidade'
<1>1. /\ estado' = [estado EXCEPT ![s] = "fechada"] /\ pc' = "passa"
      /\ UNCHANGED <<parser, lidos, respostas, roteiro>>
  BY DEF FechaConexao, Proxima
<1>2. estado[s] = "aberta" /\ estado'[s] = "fechada"
      /\ \A t \in Sockets : t # s => estado'[t] = estado[t]
  BY <1>1 DEF Tabela, TabelaUnica, LacoTipos
<1>3. SUFFICES ASSUME SoInteiras' PROVE
        /\ \A t \in Sockets : Fechada(t)' => Respondida(t)'
        /\ \A t \in Sockets : lidos'[t] = 0 => respostas'[t] = <<>>
        /\ Limpo(parser')
        /\ \A t \in Sockets : lidos'[t] > 0 /\ ~Fechada(t)' => EmLeitura(t)'
  BY DEF Fidelidade
<1>4. SoInteiras
  BY <1>1, <1>2, <1>3 DEF SoInteiras, Simples, LidoInteiro, Fechada
<1>5. Simples(s) /\ lidos[s] = Len(roteiro[s])
  BY <1>1, <1>2, <1>3 DEF SoInteiras, Simples, LidoInteiro, Fechada
<1>6. PICK p, n, m : RoteiroDe(s, p, n, m)
  BY <1>5, SimplesRoteiro
<1>7. lidos[s] > 0 /\ ~(lidos[s] < 4 + n)
  BY <1>5, <1>6 DEF RoteiroDe
<1>8. EmLeitura(s)
  BY <1>2, <1>4, <1>7 DEF Fidelidade, Fechada
<1>9. Limpo(parser) /\ Respondida(s)
  BY <1>6, <1>7, <1>8 DEF EmLeitura
<1>10. \A t \in Sockets : Fechada(t)' => Respondida(t)'
  <2>1. \A t \in Sockets : Respondida(t)' <=> Respondida(t)
    BY <1>1 DEF Respondida, Fiel
  <2>2. \A t \in Sockets : Fechada(t)' => t = s \/ Fechada(t)
    BY <1>2 DEF Fechada
  <2>. QED BY <1>4, <1>9, <2>1, <2>2 DEF Fidelidade
<1>11. \A t \in Sockets : lidos'[t] > 0 => Fechada(t)'
  BY <1>1, <1>2, <1>7 DEF Tipado, UmaDeCadaVez, Fechada
<1>12. \A t \in Sockets : lidos'[t] = 0 => respostas'[t] = <<>>
  BY <1>1, <1>4 DEF Fidelidade
<1>. QED BY <1>1, <1>9, <1>10, <1>11, <1>12 DEF Limpo

(* A step that reads, answers and closes nothing.                          *)
LEMMA FidelidadeParada ==
  ASSUME Fidelidade, UNCHANGED <<parser, lidos, respostas, roteiro>>,
         pc' = "morto" <=> pc = "morto",
         \A t \in Sockets : Fechada(t)' <=> Fechada(t)
  PROVE  Fidelidade'
<1>1. SoInteiras' <=> SoInteiras
  BY DEF SoInteiras, Simples, LidoInteiro
<1>2. \A t \in Sockets : /\ Respondida(t)' <=> Respondida(t)
                         /\ EmLeitura(t)' <=> EmLeitura(t)
  BY DEF Respondida, Fiel, EmLeitura, RoteiroDe
<1>. QED BY <1>1, <1>2 DEF Fidelidade

LEMMA FidelidadeNext ==
  ASSUME HTTP_REQUEST_URL_BUFFER_SIZE > 2, Tabela, Tipado, Fidelidade,
         [Next]_vars
  PROVE  Fidelidade'
<1> USE DEF tabela, mundo, redeVars
<1>1. ASSUME Testa \/ EntraNoPoll \/ PollVolta \/ FimDaPassada \/ Pula
             \/ NaoAceita \/ EntraSocketRead \/ Aceita
      PROVE  Fidelidade'
  <2>1. UNCHANGED <<parser, lidos, respostas, roteiro>>
    BY <1>1 DEF Testa, EntraNoPoll, PollVolta, FimDaPassada, Pula, NaoAceita,
                EntraSocketRead, Aceita
  <2>2. pc # "morto" /\ pc' # "morto"
    BY <1>1 DEF Testa, EntraNoPoll, PollVolta, FimDaPassada, Pula, NaoAceita,
                EntraSocketRead, Aceita, NaEscuta, NaPosicao, Proxima
  <2>3. \A t \in Sockets : Fechada(t)' <=> Fechada(t)
    <3>1. CASE Aceita
      <4>1. fila # <<>> /\ fila \in Seq(Sockets)
        BY <3>1 DEF Aceita, NaEscuta, NaPosicao, Tabela, HaQuemAceitar, LacoTipos
      <4>2. estado[Head(fila)] = "fila" /\ Head(fila) \in Sockets
        BY <4>1 DEF Tabela, FilaExata
      <4>3. estado' = [estado EXCEPT ![Head(fila)] = "aberta"]
        BY <3>1 DEF Aceita
      <4>. QED BY <4>2, <4>3 DEF Fechada, Tabela, LacoTipos
    <3>2. CASE ~Aceita
      BY <1>1, <3>2 DEF Testa, EntraNoPoll, PollVolta, FimDaPassada, Pula,
                        NaoAceita, EntraSocketRead, Fechada
    <3>. QED BY <3>1, <3>2
  <2>. QED BY <2>1, <2>2, <2>3, FidelidadeParada
<1>2. ASSUME NEW s \in Sockets,
             RecvSemResposta(s) \/ RecvResponde(s) \/ RecvMorre(s)
      PROVE  Fidelidade'
  BY <1>2, FidelidadeRecv
<1>3. ASSUME NEW s \in Sockets, FimDoRecv(s) \/ FechaSemLer(s)
      PROVE  Fidelidade'
  <2>1. FechaConexao(s) /\ pfds[i] = s
        /\ (pc = "socket_read" \/ (pc = "passa" /\ i < SOCKET_MAX_POLL))
    BY <1>3 DEF FimDoRecv, FechaSemLer, NaPosicao
  <2>2. i \in Posicoes
    BY <2>1, LimitesAssumption DEF Tabela, LacoTipos, Posicoes
  <2>. QED BY <2>1, <2>2, FidelidadeFecha
<1>4. ASSUME handle_signal PROVE Fidelidade'
  <2>1. /\ UNCHANGED <<parser, lidos, respostas, roteiro, estado>>
        /\ pc' = IF pc = "poll" THEN "testa" ELSE pc
    BY <1>4 DEF handle_signal
  <2>. QED BY <2>1, FidelidadeParada DEF Fechada
<1>5. ASSUME NEW s \in Sockets, Cliente(s) PROVE Fidelidade'
  <2>1. UNCHANGED <<pc, parser, lidos, respostas, roteiro>>
    BY <1>5 DEF Cliente, Conecta, Envia, Encerra, Derruba, lacoVars
  <2>2. \A t \in Sockets : Fechada(t)' <=> Fechada(t)
    BY <1>5 DEF Cliente, Conecta, Envia, Encerra, Derruba, lacoVars, Tabela,
                LacoTipos, Fechada
  <2>. QED BY <2>1, <2>2, FidelidadeParada
<1>6. ASSUME UNCHANGED vars PROVE Fidelidade'
  BY <1>6, FidelidadeParada DEF vars, lacoVars, Fechada
<1> QED
  BY <1>1, <1>2, <1>3, <1>4, <1>5, <1>6 DEF Next, Laco, Fim

(* If a url in its two halves fits the buffer: as long as every connection *)
(* carried one well-formed request and was read to its end, each got one   *)
(* answer, made from its own request, however the bytes were segmented and *)
(* whatever the order of the connections.                                  *)
THEOREM SrvUmPedidoUmaResposta ==
  ASSUME HTTP_REQUEST_URL_BUFFER_SIZE > 2
  PROVE  Spec => []UmPedidoUmaResposta
<1>1. Init => Fidelidade
  BY DEF Init, Fidelidade, Fechada, Limpo, http_parser_init
<1>2. Tabela /\ Tipado /\ Fidelidade /\ [Next]_vars => Fidelidade'
  BY FidelidadeNext
<1>3. Fidelidade => UmPedidoUmaResposta
  BY DEF Fidelidade, SoInteiras, Respondida, UmPedidoUmaResposta
<1>. QED
  BY <1>1, <1>2, <1>3, TabelaInit, TabelaNext, TipadoInit, TipadoNext, PTL DEF Spec

-----------------------------------------------------------------------------
(* What a piece does to the url: nothing, or it appends a half.            *)
LEMMA PassoUrl ==
  ASSUME NEW h, ParserTipado(h), NEW x \in Pedacos, NEW g, g = Passo(h, x)
  PROVE  \/ /\ g.url = h.url
            /\ g.fase # "url"
            /\ g.fase = "erro" \/ h.fase \notin {"url", "erro"}
         \/ /\ h.fase = "metodo" /\ x.tipo = "url" /\ g.fase = "url"
            /\ g.url = Append(h.url, Metade(x.pedido, "url"))
         \/ /\ h.fase = "url" /\ x.tipo = "linha" /\ g.fase = "cab"
            /\ g.url = Append(h.url, Metade(x.pedido, "linha"))
<1>0. h \in Parsers
  BY DEF ParserTipado
<1>1. CASE h.fase = "inicio"
  BY <1>0, <1>1 DEF Passo, Inicio, Erro, Parsers
<1>2. CASE h.fase = "metodo"
  <2>f. PICK f : f = [h EXCEPT !.fase = "url"]
    OBVIOUS
  <2>0. f.url = h.url /\ f.fase = "url" /\ f \in Parsers
    BY <1>0, <2>f DEF Parsers, Fases
  <2>1. g = IF x.tipo = "url" THEN handle_on_url(f, x) ELSE Erro(h)
    BY <1>2, <2>f DEF Passo, Metodo
  <2>2. CASE x.tipo # "url"
    BY <1>0, <2>1, <2>2 DEF Erro, Parsers
  <2>3. CASE x.tipo = "url" /\ Len(f.url) + 1 >= HTTP_REQUEST_URL_BUFFER_SIZE
    <3>1. g = Erro(f)
      BY <2>1, <2>3 DEF handle_on_url
    <3>. QED BY <2>0, <3>1 DEF Erro, Parsers
  <2>4. CASE x.tipo = "url" /\ ~(Len(f.url) + 1 >= HTTP_REQUEST_URL_BUFFER_SIZE)
    <3>1. g = [f EXCEPT !.url = Append(f.url, Metade(x.pedido, x.tipo))]
      BY <2>1, <2>4 DEF handle_on_url
    <3>2. g.url = Append(f.url, Metade(x.pedido, x.tipo)) /\ g.fase = f.fase
      BY <2>0, <3>1 DEF Parsers
    <3>. QED BY <1>2, <2>0, <2>4, <3>2
  <2>. QED BY <2>2, <2>3, <2>4
<1>3. CASE h.fase = "url"
  <2>f. PICK f : f = [h EXCEPT !.fase = "cab"]
    OBVIOUS
  <2>0. f.url = h.url /\ f.fase = "cab" /\ f \in Parsers
    BY <1>0, <2>f DEF Parsers, Fases
  <2>1. g = IF x.tipo = "linha" THEN handle_on_url(f, x) ELSE Erro(h)
    BY <1>3, <2>f DEF Passo, Url
  <2>2. CASE x.tipo # "linha"
    BY <1>0, <2>1, <2>2 DEF Erro, Parsers
  <2>3. CASE x.tipo = "linha" /\ Len(f.url) + 1 >= HTTP_REQUEST_URL_BUFFER_SIZE
    <3>1. g = Erro(f)
      BY <2>1, <2>3 DEF handle_on_url
    <3>. QED BY <2>0, <3>1 DEF Erro, Parsers
  <2>4. CASE x.tipo = "linha" /\ ~(Len(f.url) + 1 >= HTTP_REQUEST_URL_BUFFER_SIZE)
    <3>1. g = [f EXCEPT !.url = Append(f.url, Metade(x.pedido, x.tipo))]
      BY <2>1, <2>4 DEF handle_on_url
    <3>2. g.url = Append(f.url, Metade(x.pedido, x.tipo)) /\ g.fase = f.fase
      BY <2>0, <3>1 DEF Parsers
    <3>. QED BY <1>3, <2>0, <2>4, <3>2
  <2>. QED BY <2>2, <2>3, <2>4
<1>4. CASE h.fase = "cab"
  <2>1. g = Cab(h, x)
    BY <1>4 DEF Passo
  <2>2. CASE x.tipo = "cab"
    <3>0. x.corpo = 0 \/ x.corpo > 0
      BY HttpAssumption DEF Pedacos
    <3>1. CASE x.corpo = 0
      BY <1>0, <1>4, <2>1, <2>2, <3>1 DEF Cab, handle_on_message_complete, Parsers
    <3>2. CASE x.corpo > 0
      <4>1. ~(x.corpo = 0)
        BY <3>2, HttpAssumption DEF Pedacos
      <4>. QED BY <1>0, <1>4, <2>1, <2>2, <3>2, <4>1 DEF Cab, Parsers
    <3>. QED BY <3>0, <3>1, <3>2
  <2>3. CASE x.tipo # "cab"
    BY <1>0, <1>4, <2>1, <2>3 DEF Cab, Erro, Parsers
  <2>. QED BY <2>2, <2>3
<1>5. CASE h.fase = "corpo"
  <2>b. PICK b : b = [h EXCEPT !.content_length = @ - 1]
    OBVIOUS
  <2>l. PICK lido : lido = handle_on_body(b, x)
    OBVIOUS
  <2>0. b.url = h.url /\ b.fase = "corpo" /\ DOMAIN b = DOMAIN h
    BY <1>0, <1>5, <2>b DEF Parsers
  <2>d. DOMAIN h = {"fase", "content_length", "mantem", "method", "url", "body",
                    "complete"}
    BY <1>0 DEF Parsers
  <2>1. /\ lido.url = h.url /\ lido.fase \in {"corpo", "erro"}
        /\ DOMAIN lido = DOMAIN h
    BY <2>0, <2>d, <2>l DEF handle_on_body, Erro
  <2>2. g = IF lido.fase = "corpo" /\ lido.content_length = 0
            THEN handle_on_message_complete(lido) ELSE lido
    BY <1>5, <2>b, <2>l DEF Passo, Corpo
  <2>3. g.url = lido.url /\ (g = lido \/ g.fase \in {"inicio", "fechado"})
    BY <2>1, <2>2, <2>d DEF handle_on_message_complete
  <2>. QED BY <1>5, <2>1, <2>3
<1>6. CASE h.fase \in {"fechado", "erro"}
  <2>1. g = h
    BY <1>6 DEF Passo
  <2>. QED BY <1>6, <2>1
<1>. QED BY <1>0, <1>1, <1>2, <1>3, <1>4, <1>5, <1>6 DEF Parsers, Fases

-----------------------------------------------------------------------------
(* A request line is given to the router once.  The halves of urls that    *)
(* are in the script of s up to its k-th piece, or were read from another  *)
(* connection; those that were read; those that are in answers.            *)
EMetade(x, m) == x.tipo \in {"url", "linha"} /\ m = Metade(x.pedido, x.tipo)
LidasAte(s, k) ==
  {m \in Metades :
     \E t \in Sockets : \E j \in DOMAIN roteiro[t] :
       j <= (IF t = s THEN k ELSE lidos[t]) /\ EMetade(roteiro[t][j], m)}
Lidas ==
  {m \in Metades :
     \E t \in Sockets : \E j \in DOMAIN roteiro[t] :
       j <= lidos[t] /\ EMetade(roteiro[t][j], m)}
Dadas ==
  {m \in Metades :
     \E t \in Sockets : \E l \in DOMAIN respostas[t] :
       \E b \in DOMAIN respostas[t][l].url : m = respostas[t][l].url[b]}

(* Names tell requests apart: no two pieces that clients send are the same *)
(* half of the same url.                                                   *)
PedidosDistintos ==
  \A s, t \in Sockets : \A r \in Roteiros[s], q \in Roteiros[t] :
    \A j \in DOMAIN r, k \in DOMAIN q : \A m :
      EMetade(r[j], m) /\ EMetade(q[k], m) => s = t /\ (r = q => j = k)

(* The url a parser holds: each half was read and not given, once.         *)
Guarda(h, lidas, dadas) ==
  /\ \A a \in DOMAIN h.url : h.url[a] \in lidas /\ h.url[a] \notin dadas
  /\ \A a, b \in DOMAIN h.url : h.url[a] = h.url[b] => a = b

Escolhidos == \A s \in Sockets : roteiro[s] \in Roteiros[s]

UmaVez ==
  /\ Escolhidos
  /\ Dadas \subseteq Lidas
  /\ Guarda(parser, Lidas, Dadas)
  /\ LinhaUmaVez

(* A half that is about to be read was never read.                         *)
LEMMA LidasMaisUma ==
  ASSUME PedidosDistintos, Escolhidos, Recebidos, NEW s \in Sockets,
         NEW k \in Nat, k < Len(roteiro[s])
  PROVE  /\ LidasAte(s, k) \subseteq LidasAte(s, k + 1)
         /\ \A m \in Metades : EMetade(roteiro[s][k + 1], m) =>
              m \notin LidasAte(s, k) /\ m \in LidasAte(s, k + 1)
<1>1. /\ roteiro[s] \in Seq(Pedacos) /\ k + 1 \in DOMAIN roteiro[s]
      /\ \A t \in Sockets : /\ roteiro[t] \in Seq(Pedacos) /\ lidos[t] \in Nat
                            /\ roteiro[t] \in Roteiros[t]
  BY DEF Recebidos, Escolhidos
<1>2. LidasAte(s, k) \subseteq LidasAte(s, k + 1)
  <2>1. ASSUME NEW t \in Sockets, NEW j \in DOMAIN roteiro[t],
               j <= (IF t = s THEN k ELSE lidos[t])
        PROVE  j <= (IF t = s THEN k + 1 ELSE lidos[t])
    BY <1>1, <2>1
  <2>. QED BY <2>1, Zenon DEF LidasAte
<1>3. ASSUME NEW m \in Metades, EMetade(roteiro[s][k + 1], m)
      PROVE  m \in LidasAte(s, k + 1)
  <2>1. k + 1 <= (IF s = s THEN k + 1 ELSE lidos[s])
    OBVIOUS
  <2>. QED BY <1>1, <1>3, <2>1, Zenon DEF LidasAte
<1>4. ASSUME NEW m \in Metades, EMetade(roteiro[s][k + 1], m),
             m \in LidasAte(s, k)
      PROVE  FALSE
  <2>0. PICK t \in Sockets : \E j \in DOMAIN roteiro[t] :
          j <= (IF t = s THEN k ELSE lidos[t]) /\ EMetade(roteiro[t][j], m)
    BY <1>4, Zenon DEF LidasAte
  <2>1. PICK j \in DOMAIN roteiro[t] :
          j <= (IF t = s THEN k ELSE lidos[t]) /\ EMetade(roteiro[t][j], m)
    BY <2>0
  <2>r. PICK r \in Roteiros[s] : r = roteiro[s]
    BY <1>1
  <2>q. PICK q \in Roteiros[t] : q = roteiro[t]
    BY <1>1
  <2>n. PICK n \in DOMAIN r : n = k + 1
    BY <1>1, <2>r
  <2>j. j \in DOMAIN q
    BY <2>q
  <2>e. EMetade(r[n], m) /\ EMetade(q[j], m)
    BY <1>4, <2>1, <2>r, <2>q, <2>n
  <2>2. s = t /\ (r = q => n = j)
    <3>1. \A c \in DOMAIN r : \A d \in DOMAIN q : \A y :
            EMetade(r[c], y) /\ EMetade(q[d], y) => s = t /\ (r = q => c = d)
      BY DEF PedidosDistintos
    <3>. QED BY <2>e, <2>j, <3>1, Zenon
  <2>. QED BY <1>1, <2>1, <2>2, <2>r, <2>q, <2>n
<1>. QED BY <1>2, <1>3, <1>4

LEMMA GuardaPasso ==
  ASSUME PedidosDistintos, Escolhidos, Recebidos, NEW s \in Sockets,
         NEW k \in Nat, k < Len(roteiro[s]), NEW D, D \subseteq LidasAte(s, k),
         NEW h, ParserTipado(h), Guarda(h, LidasAte(s, k), D)
  PROVE  /\ D \subseteq LidasAte(s, k + 1)
         /\ Guarda(Passo(h, roteiro[s][k + 1]), LidasAte(s, k + 1), D)
<1>x. PICK x \in Pedacos : x = roteiro[s][k + 1]
  <2>1. roteiro[s] \in Seq(Pedacos) /\ k + 1 \in DOMAIN roteiro[s]
    BY DEF Recebidos
  <2>. QED BY <2>1
<1>g. PICK g : g = Passo(h, x)
  OBVIOUS
<1>u. PICK u \in Seq(Metades) : u = h.url
  BY DEF ParserTipado, Parsers
<1>A. PICK A : A = LidasAte(s, k)
  OBVIOUS
<1>B. PICK B : B = LidasAte(s, k + 1)
  OBVIOUS
<1>1. A \subseteq B /\ D \subseteq A
      /\ \A m \in Metades : EMetade(x, m) => m \notin A /\ m \in B
  BY <1>x, <1>A, <1>B, LidasMaisUma
<1>2. /\ \A a \in DOMAIN u : u[a] \in A /\ u[a] \notin D
      /\ \A a, b \in DOMAIN u : u[a] = u[b] => a = b
  BY <1>u, <1>A DEF Guarda
<1>3. g.url = u \/ \E m \in Metades : EMetade(x, m) /\ g.url = Append(u, m)
  <2>1. \/ g.url = h.url
        \/ x.tipo \in {"url", "linha"}
           /\ g.url = Append(h.url, Metade(x.pedido, x.tipo))
    BY <1>g, PassoUrl
  <2>2. x.tipo \in {"url", "linha"} => Metade(x.pedido, x.tipo) \in Metades
    BY DEF Pedacos, Metade, Metades
  <2>. QED BY <1>u, <2>1, <2>2 DEF EMetade
<1>4. CASE g.url = u
  <2>1. Guarda(g, B, D)
    BY <1>1, <1>2, <1>4 DEF Guarda
  <2>. QED BY <1>1, <2>1, <1>x, <1>g, <1>B
<1>5. ASSUME NEW m \in Metades, EMetade(x, m), g.url = Append(u, m)
      PROVE  Guarda(g, B, D)
  <2>v. PICK v : v = Append(u, m)
    OBVIOUS
  <2>1. m \notin A /\ m \in B /\ m \notin D
    BY <1>1, <1>5
  <2>2. /\ DOMAIN v = 1..(Len(u) + 1) /\ DOMAIN u = 1..Len(u) /\ Len(u) \in Nat
        /\ v[Len(u) + 1] = m /\ \A a \in DOMAIN u : v[a] = u[a]
    BY <2>v
  <2>3. \A a \in DOMAIN v : a \in DOMAIN u \/ a = Len(u) + 1
    BY <2>2
  <2>4. \A a \in DOMAIN v : v[a] \in B /\ v[a] \notin D
    BY <1>1, <1>2, <2>1, <2>2, <2>3, Zenon
  <2>5. \A a, b \in DOMAIN v : v[a] = v[b] => a = b
    BY <1>2, <2>1, <2>2, <2>3, Zenon
  <2>. QED BY <1>5, <2>v, <2>4, <2>5 DEF Guarda
<1>. QED BY <1>1, <1>3, <1>4, <1>5, <1>x, <1>g, <1>B

(* The parser after a recv.                                                *)
LEMMA GuardaAnalisado ==
  ASSUME PedidosDistintos, Escolhidos, Recebidos, NEW s \in Sockets,
         NEW D, D \subseteq Lidas, Guarda(parser, Lidas, D)
  PROVE  /\ D \subseteq LidasAte(s, lidos[s] + NumRecv(s))
         /\ Guarda(Analisado(s), LidasAte(s, lidos[s] + NumRecv(s)), D)
<1>r. PICK r : r = roteiro[s]
  OBVIOUS
<1>l. PICK l : l = lidos[s]
  OBVIOUS
<1>a. PICK a : a = NumRecv(s)
  OBVIOUS
<1>1. r \in Seq(Pedacos) /\ l \in Nat /\ a \in Nat /\ l + a <= Len(r)
  BY <1>r, <1>l, <1>a, NumRecvCabe DEF Recebidos
<1>0. Lidas = LidasAte(s, l)
  BY <1>l, Zenon DEF Lidas, LidasAte
<1>. DEFINE R == {hk \in Parsers \X Nat : /\ ParserTipado(hk[1])
                                          /\ D \subseteq LidasAte(s, hk[2])
                                          /\ Guarda(hk[1], LidasAte(s, hk[2]), D)}
<1>2. ASSUME NEW x, NEW k, <<x, k>> \in R, k \in l..(l + a - 1)
      PROVE  <<Passo(x, r[k + 1]), k + 1>> \in R
  <2>1. /\ ParserTipado(x) /\ D \subseteq LidasAte(s, k)
        /\ Guarda(x, LidasAte(s, k), D)
    BY <1>2
  <2>2. k \in Nat /\ k + 1 \in Nat /\ k < Len(r) /\ r[k + 1] \in Pedacos
    BY <1>1, <1>2
  <2>3. ParserTipado(Passo(x, r[k + 1]))
    BY <2>1, <2>2, PassoTipo
  <2>4. /\ D \subseteq LidasAte(s, k + 1)
        /\ Guarda(Passo(x, r[k + 1]), LidasAte(s, k + 1), D)
    BY <1>r, <2>1, <2>2, GuardaPasso
  <2>5. Passo(x, r[k + 1]) \in Parsers
    BY <2>3 DEF ParserTipado
  <2>. QED BY <2>2, <2>3, <2>4, <2>5
<1>3. <<parser, l>> \in R
  BY <1>0, <1>1 DEF Recebidos, ParserTipado
<1>4. \A hk : hk \in R => /\ D \subseteq LidasAte(s, hk[2])
                          /\ Guarda(hk[1], LidasAte(s, hk[2]), D)
  OBVIOUS
<1>. HIDE DEF R
<1>5. <<llhttp_execute(parser, SubSeq(r, l + 1, l + a)), l + a>> \in R
  BY <1>1, <1>2, <1>3, ExecutePreserva
<1>6. /\ D \subseteq LidasAte(s, l + a)
      /\ Guarda(llhttp_execute(parser, SubSeq(r, l + 1, l + a)),
                LidasAte(s, l + a), D)
  BY <1>4, <1>5
<1>. QED BY <1>6, <1>r, <1>l, <1>a DEF Analisado, http_parser_parse

(* The answer: what the parser held is given, and nothing else.            *)
LEMMA RespostaNova ==
  ASSUME NEW R, NEW antes \in [Sockets -> Seq(R)], NEW s \in Sockets, NEW r,
         NEW depois, depois = [antes EXCEPT ![s] = Append(antes[s], r)],
         NEW t \in Sockets, NEW k \in DOMAIN depois[t]
  PROVE  \/ t = s /\ k = Len(antes[s]) + 1 /\ depois[t][k] = r
         \/ k \in DOMAIN antes[t] /\ depois[t][k] = antes[t][k]
<1>1. CASE t # s
  BY <1>1
<1>2. CASE t = s
  <2>q. PICK q \in Seq(R) : q = antes[s]
    OBVIOUS
  <2>1. depois[t] = Append(q, r)
    BY <1>2, <2>q
  <2>2. k \in 1..(Len(q) + 1)
        /\ Append(q, r)[k] = IF k = Len(q) + 1 THEN r ELSE q[k]
    BY <2>1
  <2>3. k # Len(q) + 1 => k \in DOMAIN q
    BY <2>2
  <2>. QED BY <1>2, <2>1, <2>2, <2>3, <2>q
<1>. QED BY <1>1, <1>2

LEMMA UmaVezResponde ==
  ASSUME Tipado, UmaVez, NEW s \in Sockets, RecvResponde(s), NEW L,
         Dadas \subseteq L, Guarda(Analisado(s), L, Dadas)
  PROVE  LinhaUmaVez' /\ Dadas' \subseteq L
<1>h. PICK h : h = Analisado(s)
  OBVIOUS
<1>x. PICK x : x = router_route(Alvo[h.method].method, Texto(h.url))
  OBVIOUS
<1>r. PICK r : r = [method |-> h.method, url |-> h.url, body |-> h.body, rota |-> x]
  OBVIOUS
<1>1. /\ \A a \in DOMAIN r.url : r.url[a] \in L /\ r.url[a] \notin Dadas
      /\ \A a, b \in DOMAIN r.url : r.url[a] = r.url[b] => a = b
  BY <1>h, <1>r DEF Guarda
<1>2. /\ respostas \in [Sockets -> Seq(Respostas)]
      /\ respostas' = [respostas EXCEPT ![s] = Append(respostas[s], r)]
  BY <1>h, <1>x, <1>r DEF RecvResponde, Tipado, TypeOK
<1>3. ASSUME NEW t \in Sockets, NEW k \in DOMAIN respostas'[t]
      PROVE  \/ t = s /\ k = Len(respostas[s]) + 1 /\ respostas'[t][k] = r
             \/ k \in DOMAIN respostas[t] /\ respostas'[t][k] = respostas[t][k]
  BY <1>2, <1>3, RespostaNova
<1>4. \A t \in Sockets : \A k \in DOMAIN respostas[t] :
        \A b \in DOMAIN respostas[t][k].url : respostas[t][k].url[b] \in Dadas
  <2>. TAKE t \in Sockets
  <2>. TAKE k \in DOMAIN respostas[t]
  <2>. TAKE b \in DOMAIN respostas[t][k].url
  <2>1. respostas[t][k] \in Respostas
    BY <1>2
  <2>2. respostas[t][k].url[b] \in Metades
    BY <2>1 DEF Respostas
  <2>. QED BY <2>2, Zenon DEF Dadas
<1>5. Dadas' \subseteq L
  <2>. SUFFICES ASSUME NEW m \in Dadas' PROVE m \in L
    OBVIOUS
  <2>a. PICK t \in Sockets : \E k \in DOMAIN respostas'[t] :
          \E b \in DOMAIN respostas'[t][k].url : m = respostas'[t][k].url[b]
    BY DEF Dadas
  <2>b. PICK k \in DOMAIN respostas'[t] :
          \E b \in DOMAIN respostas'[t][k].url : m = respostas'[t][k].url[b]
    BY <2>a
  <2>1. PICK b \in DOMAIN respostas'[t][k].url : m = respostas'[t][k].url[b]
    BY <2>b
  <2>2. CASE respostas'[t][k] = r
    BY <1>1, <2>1, <2>2
  <2>3. CASE k \in DOMAIN respostas[t] /\ respostas'[t][k] = respostas[t][k]
    BY <1>4, <2>1, <2>3
  <2>. QED BY <1>3, <2>2, <2>3
<1>6. LinhaUmaVez'
  <2>. SUFFICES ASSUME NEW t \in Sockets, NEW z \in Sockets,
                       NEW k \in DOMAIN respostas'[t], NEW l \in DOMAIN respostas'[z],
                       NEW a \in DOMAIN respostas'[t][k].url,
                       NEW b \in DOMAIN respostas'[z][l].url,
                       respostas'[t][k].url[a] = respostas'[z][l].url[b]
                PROVE  t = z /\ k = l /\ a = b
    BY Zenon DEF LinhaUmaVez
  <2>1. CASE respostas'[t][k] = r /\ t = s /\ k = Len(respostas[s]) + 1
    <3>1. CASE respostas'[z][l] = r /\ z = s /\ l = Len(respostas[s]) + 1
      BY <1>1, <2>1, <3>1
    <3>2. CASE l \in DOMAIN respostas[z] /\ respostas'[z][l] = respostas[z][l]
      BY <1>1, <1>4, <2>1, <3>2
    <3>. QED BY <1>3, <3>1, <3>2
  <2>2. CASE k \in DOMAIN respostas[t] /\ respostas'[t][k] = respostas[t][k]
    <3>1. CASE respostas'[z][l] = r /\ z = s /\ l = Len(respostas[s]) + 1
      BY <1>1, <1>4, <2>2, <3>1
    <3>2. CASE l \in DOMAIN respostas[z] /\ respostas'[z][l] = respostas[z][l]
      <4>1. LinhaUmaVez
        BY DEF UmaVez
      <4>2. /\ a \in DOMAIN respostas[t][k].url /\ b \in DOMAIN respostas[z][l].url
            /\ respostas[t][k].url[a] = respostas[z][l].url[b]
        BY <2>2, <3>2
      <4>3. k \in DOMAIN respostas[t] /\ l \in DOMAIN respostas[z]
        BY <2>2, <3>2
      <4>. HIDE <2>2, <3>2
      <4>. QED BY <4>1, <4>2, <4>3 DEF LinhaUmaVez
    <3>. QED BY <1>3, <3>1, <3>2
  <2>. QED BY <1>3, <2>1, <2>2
<1>. QED BY <1>5, <1>6

LEMMA UmaVezRecv ==
  ASSUME PedidosDistintos, Tipado, UmaVez, NEW s \in Sockets,
         RecvSemResposta(s) \/ RecvResponde(s) \/ RecvMorre(s)
  PROVE  UmaVez'
<1>h. PICK h : h = Analisado(s)
  OBVIOUS
<1>L. PICK L : L = LidasAte(s, lidos[s] + NumRecv(s))
  OBVIOUS
<1>D. PICK D : D = Dadas
  OBVIOUS
<1>1. /\ NoRecv(s) /\ UNCHANGED roteiro /\ Recebidos
      /\ lidos \in [Sockets -> Nat]
      /\ lidos' = [lidos EXCEPT ![s] = lidos[s] + NumRecv(s)]
  BY DEF Tipado, Recebidos, NoRecv, RecvSemResposta, RecvResponde, RecvMorre,
         redeVars
<1>2. D \subseteq L /\ Guarda(h, L, D)
  BY <1>1, <1>h, <1>L, <1>D, GuardaAnalisado DEF UmaVez
<1>3. Lidas' = L
  <2>1. \A t \in Sockets :
          lidos'[t] = IF t = s THEN lidos[s] + NumRecv(s) ELSE lidos[t]
    BY <1>1
  <2>. QED BY <1>1, <1>L, <2>1 DEF Lidas, LidasAte
<1>4. Escolhidos'
  BY <1>1 DEF UmaVez, Escolhidos
<1>5. CASE RecvSemResposta(s) \/ RecvMorre(s)
  <2>1. respostas' = respostas /\ parser' = h
    BY <1>5, <1>h DEF RecvSemResposta, RecvMorre
  <2>2. Dadas' = D /\ LinhaUmaVez'
    BY <1>D, <2>1 DEF Dadas, LinhaUmaVez, UmaVez
  <2>. QED BY <1>2, <1>3, <1>4, <2>1, <2>2 DEF UmaVez
<1>6. CASE RecvResponde(s)
  <2>1. LinhaUmaVez' /\ Dadas' \subseteq L
    BY <1>2, <1>6, <1>h, <1>D, UmaVezResponde
  <2>2. parser' = http_parser_reset_request(h) /\ h \in Parsers
    BY <1>1, <1>6, <1>h, AnalisadoTipo DEF RecvResponde, ParserTipado
  <2>3. parser'.url = <<>>
    BY <2>2 DEF http_parser_reset_request, Parsers
  <2>4. Guarda(parser', Lidas', Dadas')
    BY <2>3 DEF Guarda
  <2>. QED BY <1>3, <1>4, <2>1, <2>4 DEF UmaVez
<1>. QED BY <1>5, <1>6

LEMMA UmaVezNext ==
  ASSUME PedidosDistintos, Tipado, UmaVez, [Next]_vars
  PROVE  UmaVez'
<1> USE DEF tabela, mundo, redeVars
<1>1. ASSUME UNCHANGED <<parser, lidos, respostas, roteiro>>
      PROVE  UmaVez'
  BY <1>1 DEF UmaVez, Escolhidos, Lidas, Dadas, Guarda, LinhaUmaVez
<1>2. ASSUME NEW s \in Sockets,
             RecvSemResposta(s) \/ RecvResponde(s) \/ RecvMorre(s)
      PROVE  UmaVez'
  BY <1>2, UmaVezRecv
<1>3. ASSUME Testa \/ EntraNoPoll \/ PollVolta \/ FimDaPassada \/ Pula
             \/ NaoAceita \/ EntraSocketRead \/ Aceita
      PROVE  UmaVez'
  BY <1>1, <1>3 DEF Testa, EntraNoPoll, PollVolta, FimDaPassada, Pula, NaoAceita,
                    EntraSocketRead, Aceita
<1>4. ASSUME NEW s \in Sockets, FimDoRecv(s) \/ FechaSemLer(s) \/ Cliente(s)
      PROVE  UmaVez'
  BY <1>1, <1>4 DEF FimDoRecv, FechaSemLer, FechaConexao, Cliente, Conecta,
                    Envia, Encerra, Derruba, lacoVars
<1>5. CASE handle_signal \/ UNCHANGED vars
  BY <1>1, <1>5 DEF handle_signal, vars, lacoVars
<1> QED
  BY <1>2, <1>3, <1>4, <1>5 DEF Next, Laco, Fim

(* If names tell requests apart, for any scripts, cuts, segments, orders   *)
(* of connections and buffers: no part of a request line is given to the   *)
(* router twice, though it may be given with parts of another request.     *)
THEOREM SrvLinhaUmaVez ==
  ASSUME PedidosDistintos
  PROVE  Spec => []LinhaUmaVez
<1>1. Init => UmaVez
  <2>. SUFFICES ASSUME Init PROVE UmaVez
    OBVIOUS
  <2>1. parser.url = <<>> /\ \A t \in Sockets : respostas[t] = <<>>
    BY DEF Init, http_parser_init
  <2>2. \A t \in Sockets : DOMAIN respostas[t] = {}
    BY <2>1
  <2>3. Dadas = {}
    BY <2>2, Zenon DEF Dadas
  <2>4. LinhaUmaVez
    BY <2>2, Zenon DEF LinhaUmaVez
  <2>5. Escolhidos
    BY DEF Init, Escolhidos
  <2>. QED BY <2>1, <2>3, <2>4, <2>5 DEF UmaVez, Guarda
<1>2. Tipado /\ UmaVez /\ [Next]_vars => UmaVez'
  BY UmaVezNext
<1>3. UmaVez => LinhaUmaVez
  BY DEF UmaVez
<1>. QED
  BY <1>1, <1>2, <1>3, TabelaInit, TabelaNext, TipadoInit, TipadoNext, PTL DEF Spec
=============================================================================
