---------------------------- MODULE SistemaProofs ----------------------------
(***************************************************************************)
(* Theorems about Sistema, for every set of processes, requests, clients   *)
(* and texts, and whatever signals, crashes, delays and retries happen.    *)
(*                                                                         *)
(* The invariant follows one transaction: nginx gives it to one process    *)
(* only, which either holds it (in its queue or in its handler) and has    *)
(* sent nothing for it, or has sent one message and let go of it, to       *)
(* answer or because it was killed.                                        *)
(***************************************************************************)
EXTENDS Sistema, ClienteControllerProofs, FiniteSetTheorems

Ocupados == {"find_one", "decide", "find_last_10"}

(* Process a holds request r: it is in its queue or in its handler, or was *)
(* there when the process stopped.                                         *)
Nas(r, a) == r \in fila[a] \/ atual[a] = r

(* What a process is doing agrees with the request it is answering.        *)
Ligados ==
  /\ \A a \in Apis :
       /\ pc[a] \in {"conectando", "poll", "encerrado"} => atual[a] = SemRequisicao
       /\ pc[a] \in Ocupados =>
            atual[a] \in Requisicoes /\ pedido[a] = oque[atual[a]]
       /\ pc[a] = "find_last_10" => pedido[a].op = "extrato"
  /\ \A r \in Requisicoes :
       /\ fase[r] # "nova" => oque[r] \in Pedidos
       /\ \A a \in Apis : Nas(r, a) => fase[r] # "nova" /\ destino[r] \in Apis
       /\ fase[r] = "enviada" => destino[r] \in Apis
       /\ Mensagens(r) # {} => destino[r] \in Apis

(* A transaction is in one process, which sends one message for it and     *)
(* then lets go of it.                                                     *)
Unica(r) ==
  /\ \A a, b \in Apis : Nas(r, a) /\ Nas(r, b) => a = b
  /\ \A a \in Apis : r \in fila[a] => atual[a] # r /\ Mensagens(r) = {}
  /\ \A a \in Apis : atual[a] = r /\ pc[a] # "matado" => Mensagens(r) = {}
  /\ fase[r] \in {"escolhe", "respondida"} => \A a \in Apis : ~Nas(r, a)
  /\ fase[r] = "escolhe" => Mensagens(r) = {}
  /\ fase[r] = "enviada" => Nas(r, destino[r])
  /\ \A m, n \in Mensagens(r) : m = n

(* What its client was told agrees with what was sent; a client that was   *)
(* given up on although nginx never lost patience was held by a process    *)
(* that stopped.                                                           *)
Informada(r) ==
  /\ status[r] \in {200, 400, 404, 422} => fase[r] = "respondida"
  /\ status[r] = 200 => Mensagens(r) # {}
  /\ status[r] \in {400, 404, 422} => Mensagens(r) = {}
  /\ fase[r] = "erro" /\ demoras = 0 =>
       /\ \A a \in Apis : Nas(r, a) => pc[a] \in Parados
       /\ Mensagens(r) # {} => pc[destino[r]] = "matado"

(* No message is sent for a request nobody has made, nor for an extrato.   *)
Transacao1(r) == fase[r] # "nova" /\ Post(r)

Acomp(r) ==
  /\ Transacao1(r) => Unica(r) /\ Informada(r)
  /\ ~Transacao1(r) => Mensagens(r) = {}
  /\ fase[r] = "nova" => status[r] = 0

Acompanha == \A r \in Requisicoes : Acomp(r)

SisBase == Base /\ SisTypeOK /\ Ligados
SisInv == SisBase /\ Acompanha

-----------------------------------------------------------------------------
(* What a process does in one step for the request p it is answering: it   *)
(* goes on or dies, it answers without a message, or it sends one and      *)
(* answers 200.                                                            *)
Avanca(a, p) ==
  /\ pc[a] \notin Parados
  /\ \A b \in Apis : b # a => pc'[b] = pc[b] /\ pedido'[b] = pedido[b]
  /\ \/ /\ pc'[a] \in Ocupados \cup {"morto"}
        /\ pedido'[a] = p
        /\ pc'[a] = "find_last_10" => p.op = "extrato"
        /\ enviados' = enviados
     \/ /\ pc'[a] = "poll"
        /\ \/ resposta'[a].status \in {400, 404, 422}
           \/ resposta'[a].status = 200 /\ p.op = "extrato"
        /\ enviados' = enviados
     \/ /\ pc'[a] = "poll"
        /\ resposta'[a].status = 200
        /\ p.op = "transacao"
        /\ enviados' = enviados + 1

LEMMA RespondeAvanca ==
  ASSUME Base, NEW a \in Apis, NEW p, NEW codigo, NEW s, Responde(a, p, codigo, s)
  PROVE  /\ pc'[a] = "poll" /\ resposta'[a].status = codigo
         /\ \A b \in Apis : b # a => pc'[b] = pc[b] /\ pedido'[b] = pedido[b]
  BY DEF Responde, Base, TipoApi, TypeOK

LEMMA EntraAvanca ==
  ASSUME Base, NEW a \in Apis, NEW p, Morre(a, p) \/ EntraFindOne(a, p)
  PROVE  /\ pc'[a] \in {"find_one", "morto"} /\ pedido'[a] = p
         /\ \A b \in Apis : b # a => pc'[b] = pc[b] /\ pedido'[b] = pedido[b]
  BY DEF Morre, EntraFindOne, Base, TipoApi, TypeOK

LEMMA ChegaAvanca ==
  ASSUME Base, NEW a \in Apis, NEW p \in Pedidos,
         SaveTransacao(a, p) \/ FindById(a, p)
  PROVE  Avanca(a, p) /\ enviados' = enviados /\ pc[a] = "poll"
<1>1. pc[a] = "poll" /\ enviados' = enviados
  BY DEF SaveTransacao, FindById, RecebePedido, dbVars, pgVars
<1>2. \/ Morre(a, p) \/ EntraFindOne(a, p)
      \/ \E codigo \in {400, 422} : Responde(a, p, codigo, 0)
  BY DEF SaveTransacao, FindById
<1>. QED
  BY <1>1, <1>2, RespondeAvanca, EntraAvanca DEF Avanca, Parados, Ocupados

LEMMA AtendeAvanca ==
  ASSUME Base, Ligados, NEW a \in Apis, Atende(a), atual[a] # SemRequisicao
  PROVE  Avanca(a, pedido[a]) /\ pc[a] \in Ocupados
<1>. DEFINE p == pedido[a]
<1>0. pc \in [Apis -> Pcs] /\ pedido \in [Apis -> Pedidos \cup {SemPedido}]
  BY DEF Base, TipoApi, TypeOK
<1>1. ~Conecta(a)
  BY DEF Conecta, Ligados
<1>2. pc[a] \in Ocupados
  BY <1>1
  DEF Atende, RedefineConexao, FindOne, FindOneNull, LimiteExcedido, SaveAsync,
      SaveAsyncFalse, FindLast10, FindLast10Null, RespondeExtrato, Ocupados
<1>3. CASE RedefineConexao(a)
  BY <1>2, <1>3
  DEF RedefineConexao, db_get_connection_reset, Reconecta, apiVars, Avanca,
      Parados, Ocupados, Ligados
<1>4. CASE FindOne(a)
  <2>1. enviados' = enviados
    BY <1>4 DEF FindOne, db_query_ok, dbVars, pgVars
  <2>2. CASE Responde(a, p, 404, 0)
    BY <1>2, <2>1, <2>2, RespondeAvanca DEF Avanca, Parados, Ocupados
  <2>3. CASE /\ UNCHANGED pedido
             /\ pc' = [pc EXCEPT ![a] = IF p.op = "extrato" THEN "find_last_10"
                                                            ELSE "decide"]
    BY <1>0, <1>2, <2>1, <2>3 DEF Avanca, Parados, Ocupados
  <2>. QED BY <1>4, <2>2, <2>3 DEF FindOne
<1>5. CASE FindOneNull(a)
  <2>1. enviados' = enviados /\ Morre(a, p)
    BY <1>5 DEF FindOneNull, db_query_null, pgVars
  <2>. QED BY <1>2, <2>1, EntraAvanca DEF Avanca, Parados, Ocupados
<1>6. CASE LimiteExcedido(a) \/ SaveAsyncFalse(a)
  <2>1. enviados' = enviados /\ Responde(a, p, 422, 0)
    BY <1>6 DEF LimiteExcedido, SaveAsyncFalse, db_execute_async_false, dbVars,
                pgVars
  <2>. QED BY <1>2, <2>1, RespondeAvanca DEF Avanca, Parados, Ocupados
<1>7. CASE FindLast10(a) \/ FindLast10Null(a)
  <2>1. /\ enviados' = enviados
        /\ Responde(a, p, 200, ToInt32(lido[a].saldo))
        /\ pc[a] = "find_last_10"
    BY <1>7 DEF FindLast10, FindLast10Null, RespondeExtrato, db_query_ok,
                db_query_null, dbVars, pgVars
  <2>2. p.op = "extrato"
    BY <2>1 DEF Ligados
  <2>. QED BY <1>2, <2>1, <2>2, RespondeAvanca DEF Avanca, Parados, Ocupados
<1>8. CASE SaveAsync(a)
  <2>1. /\ enviados' = enviados + 1 /\ pc[a] = "decide"
        /\ \E s : Responde(a, p, 200, s)
    BY <1>8 DEF SaveAsync, db_execute_async_true, Recebe, Descarta, Comando
  <2>2. p.op = "transacao"
    BY <2>1 DEF Base, TipoApi, PedidosValidados
  <2>. QED BY <1>2, <2>1, <2>2, RespondeAvanca DEF Avanca, Parados, Ocupados
<1>. QED
  BY <1>1, <1>2, <1>3, <1>4, <1>5, <1>6, <1>7, <1>8 DEF Atende

LEMMA SinalAvanca ==
  ASSUME Base, NEW a \in Apis, Sinal(a)
  PROVE  /\ pc[a] \notin Parados
         /\ \A b \in Apis : b # a => pc'[b] = pc[b]
         /\ pedido' = pedido
         /\ \/ pc'[a] = "matado" /\ enviados' = enviados
            \/ pc'[a] = "encerrado" /\ pc[a] = "poll" /\ enviados' = enviados
            \/ /\ pc'[a] = "matado" /\ pc[a] = "decide"
               /\ enviados' = enviados + 1
<1>0. pc \in [Apis -> Pcs]
  BY DEF Base, TipoApi, TypeOK
<1>1. CASE Mata(a)
  BY <1>0, <1>1 DEF Mata, Matado, dbVars, pgVars
<1>2. CASE EnviaEMorre(a)
  BY <1>0, <1>2
  DEF EnviaEMorre, Matado, Parados, db_execute_async_true, Recebe, Descarta, Comando
<1>3. CASE Desliga(a)
  BY <1>0, <1>3 DEF Desliga, Parados, db_close_pool, pgVars
<1>. QED BY <1>1, <1>2, <1>3 DEF Sinal

LEMMA ConectaAvanca ==
  ASSUME Base, NEW a \in Apis, Conecta(a)
  PROVE  /\ pc[a] = "conectando" /\ pc'[a] = "poll"
         /\ \A b \in Apis : b # a => pc'[b] = pc[b]
         /\ UNCHANGED <<pedido, enviados>>
  BY DEF Conecta, db_connect, Reconecta, Base, TipoApi, TypeOK

LEMMA BancoAvanca ==
  ASSUME Banco
  PROVE  UNCHANGED <<pc, pedido, enviados>>
  BY DEF Banco, Servidor, Ambiente, apiVars, Executa, RecusaTexto, RecusaBigint,
         RecusaSaldo, RecusaValor, Falha, Inicia, Atualiza, Grava, Descarrega, Queda

-----------------------------------------------------------------------------
(* The deployment drives the processes as ClienteController says.          *)
LEMMA PassoDasApis ==
  ASSUME SisBase, [SisNext]_sisVars
  PROVE  [Next]_vars
<1>1. ASSUME NEW r \in Requisicoes,
             \/ \E p \in Pedidos : ClientePede(r, p)
             \/ Nginx(r) \/ Demora(r)
      PROVE  UNCHANGED vars
  BY <1>1 DEF ClientePede, Nginx, Encaminha, Recusada, SemProcesso, Cortada, Demora
<1>2. ASSUME NEW r \in Requisicoes, NEW a \in Apis, Toma(a, r)
      PROVE  Chega(a)
  <2>1. oque[r] \in Pedidos
    BY <1>2 DEF Toma, SisBase, Ligados, Nas
  <2>. QED BY <1>2, <2>1 DEF Toma, Chega
<1>3. ASSUME NEW a \in Apis, Inicializa(a) \/ Processa(a)
      PROVE  Atende(a)
  BY <1>3 DEF Inicializa, Processa, Atende
<1>4. ASSUME NEW a \in Apis, SinalDoSistema(a)
      PROVE  Sinal(a)
  BY <1>4 DEF SinalDoSistema
<1>5. ASSUME NEW a \in Apis, Reabilita(a)
      PROVE  UNCHANGED vars
  BY <1>5 DEF Reabilita
<1>6. CASE Banco
  BY <1>6 DEF Banco, Next, Apis
<1>7. CASE FimDoSistema \/ UNCHANGED sisVars
  BY <1>7 DEF FimDoSistema, sisVars
<1>. QED
  BY <1>1, <1>2, <1>3, <1>4, <1>5, <1>6, <1>7 DEF SisNext, Next

(* A request that a step does not touch is followed as before.             *)
LEMMA AcompQuadro ==
  ASSUME NEW q \in Requisicoes, Acomp(q),
         /\ fase'[q] = fase[q] /\ oque'[q] = oque[q]
         /\ status'[q] = status[q] /\ destino'[q] = destino[q],
         Mensagens(q)' = Mensagens(q),
         demoras' = 0 => demoras = 0,
         \A a \in Apis : /\ atual'[a] = q <=> atual[a] = q
                         /\ q \in fila'[a] <=> q \in fila[a]
                         /\ pc[a] \in Parados => pc'[a] = pc[a],
         destino[q] \in Apis \/ fase[q] # "enviada",
         destino[q] \in Apis \/ Mensagens(q) = {}
  PROVE  Acomp(q)'
<1>1. Transacao1(q)' <=> Transacao1(q)
  BY DEF Transacao1, Post
<1>2. ASSUME Unica(q)
      PROVE  Unica(q)'
  BY <1>2 DEF Unica, Nas, Parados
<1>3. ASSUME Informada(q)
      PROVE  Informada(q)'
  BY <1>3 DEF Informada, Nas, Parados
<1>. QED BY <1>1, <1>2, <1>3 DEF Acomp

(* What a step of a process adds to the history.                           *)
LEMMA Anotadas ==
  ASSUME SisBase, NEW r, AnotaOrigem(r),
         \/ enviados' = enviados
         \/ enviados' = enviados + 1 /\ r \in Requisicoes
  PROVE  /\ origem' \subseteq [req : Requisicoes, num : Nat]
         /\ \A q : q # r => Mensagens(q)' = Mensagens(q)
         /\ enviados' = enviados => origem' = origem
         /\ enviados' = enviados + 1 =>
              Mensagens(r)' = Mensagens(r) \cup {enviados + 1}
<1>1. enviados \in Nat /\ origem \subseteq [req : Requisicoes, num : Nat]
  BY DEF SisBase, SisTypeOK, Base, TipoApi, TypeOK, PgTypeOK
<1>2. CASE enviados' = enviados
  <2>1. (enviados + 1)..enviados' = {}
    BY <1>1, <1>2
  <2>2. origem' = origem
    BY <2>1 DEF AnotaOrigem
  <2>. QED BY <1>1, <1>2, <2>2 DEF Mensagens
<1>3. CASE enviados' = enviados + 1 /\ r \in Requisicoes
  <2>1. (enviados + 1)..enviados' = {enviados + 1}
    BY <1>1, <1>3
  <2>2. origem' = origem \cup {[req |-> r, num |-> enviados + 1]}
    BY <2>1 DEF AnotaOrigem
  <2>3. origem' \subseteq [req : Requisicoes, num : Nat]
    BY <1>1, <1>3, <2>2
  <2>4. ASSUME NEW q, q # r
        PROVE  Mensagens(q)' = Mensagens(q)
    BY <2>2, <2>4 DEF Mensagens
  <2>5. Mensagens(r)' = Mensagens(r) \cup {enviados + 1}
    <3>. DEFINE nova == [req |-> r, num |-> enviados + 1]
    <3>1. ASSUME NEW n, n \in Mensagens(r)'
          PROVE  n \in Mensagens(r) \cup {enviados + 1}
      <4>1. PICK o \in origem' : o.req = r /\ o.num = n
        BY <3>1 DEF Mensagens
      <4>. QED BY <2>2, <4>1 DEF Mensagens
    <3>2. Mensagens(r) \subseteq Mensagens(r)'
      BY <2>2 DEF Mensagens
    <3>3. enviados + 1 \in Mensagens(r)'
      <4>1. nova \in origem' /\ nova.req = r /\ nova.num = enviados + 1
        BY <2>2
      <4>. QED BY <4>1 DEF Mensagens
    <3>. QED BY <3>1, <3>2, <3>3
  <2>. QED BY <1>1, <1>3, <2>3, <2>4, <2>5
<1>. QED BY <1>2, <1>3

(* The requests a step does not touch, all together.                       *)
LEMMA Vizinhos ==
  ASSUME SisInv, NEW r,
         \A q \in Requisicoes \ {r} :
           /\ fase'[q] = fase[q] /\ oque'[q] = oque[q]
           /\ status'[q] = status[q] /\ destino'[q] = destino[q]
           /\ Mensagens(q)' = Mensagens(q)
           /\ \A a \in Apis : /\ atual'[a] = q <=> atual[a] = q
                              /\ q \in fila'[a] <=> q \in fila[a],
         demoras' = 0 => demoras = 0,
         \A a \in Apis : pc[a] \in Parados => pc'[a] = pc[a],
         r \in Requisicoes => Acomp(r)'
  PROVE  Acompanha'
<1>1. ASSUME NEW q \in Requisicoes \ {r}
      PROVE  Acomp(q)'
  <2>1. Acomp(q)
    BY DEF SisInv, Acompanha
  <2>2. /\ destino[q] \in Apis \/ fase[q] # "enviada"
        /\ destino[q] \in Apis \/ Mensagens(q) = {}
    BY DEF SisInv, SisBase, Ligados
  <2>. QED BY <2>1, <2>2, AcompQuadro
<1>. QED BY <1>1 DEF Acompanha

-----------------------------------------------------------------------------
(* The steps of the clients and of nginx, which no process notices.        *)
Calado == UNCHANGED <<vars, fila, atual, origem>>

LEMMA ClientePedeAnda ==
  ASSUME SisInv, NEW r \in Requisicoes, NEW p \in Pedidos, ClientePede(r, p)
  PROVE  SisTypeOK' /\ Ligados' /\ Acompanha'
<1>. USE DEF ClientePede, SisInv, SisBase
<1>0. Calado /\ UNCHANGED <<pc, pedido>>
  BY DEF Calado, vars, apiVars
<1>1. SisTypeOK'
  BY DEF SisTypeOK
<1>2. Ligados'
  BY <1>0 DEF Calado, SisTypeOK, Ligados, Nas, Mensagens
<1>3. Acomp(r)'
  <2>1. Mensagens(r)' = {} /\ \A a \in Apis : ~Nas(r, a)'
    BY <1>0 DEF Calado, Acompanha, Acomp, Transacao1, Mensagens, Ligados, Nas
  <2>2. fase'[r] = "escolhe" /\ status'[r] = 0
    BY DEF SisTypeOK, Acompanha, Acomp
  <2>. QED BY <2>1, <2>2 DEF Acomp, Unica, Informada, Nas
<1>4. Acompanha'
  BY <1>0, <1>3, Vizinhos DEF Calado, SisTypeOK, Mensagens
<1>. QED BY <1>1, <1>2, <1>4

LEMMA EncaminhaAnda ==
  ASSUME SisInv, NEW r \in Requisicoes, NEW a \in Apis, Encaminha(r, a)
  PROVE  SisTypeOK' /\ Ligados' /\ Acompanha'
<1>. USE DEF Encaminha, SisInv, SisBase
<1>0. UNCHANGED <<pc, pedido>>
  BY DEF vars, apiVars
<1>1. SisTypeOK'
  BY DEF SisTypeOK
<1>2. fila' = [fila EXCEPT ![a] = @ \cup {r}] /\ fila \in [Apis -> SUBSET Requisicoes]
  BY DEF SisTypeOK
<1>3. Ligados'
  BY <1>0, <1>2 DEF SisTypeOK, Ligados, Nas, Mensagens
<1>4. Acomp(r)'
  <2>1. Acomp(r)
    BY DEF Acompanha
  <2>2. CASE Post(r)
    <3>1. /\ Mensagens(r) = {}
          /\ \A b \in Apis : ~Nas(r, b)
          /\ status[r] \notin {200, 400, 404, 422}
      BY <2>1, <2>2 DEF Acomp, Transacao1, Unica, Informada
    <3>2. \A b \in Apis : Nas(r, b)' <=> b = a
      BY <1>2, <3>1 DEF Nas
    <3>3. \A b \in Apis : atual'[b] # r
      BY <3>1 DEF Nas
    <3>4. fase'[r] = "enviada" /\ destino'[r] = a /\ status' = status
      BY DEF SisTypeOK
    <3>5. Mensagens(r)' = {}
      BY <3>1 DEF Mensagens
    <3>. QED BY <2>2, <3>1, <3>2, <3>3, <3>4, <3>5
      DEF Acomp, Unica, Informada, Transacao1, Post
  <2>3. CASE ~Post(r)
    BY <2>1, <2>3 DEF Acomp, Transacao1, Post, Mensagens, SisTypeOK
  <2>. QED BY <2>2, <2>3
<1>5. Acompanha'
  BY <1>0, <1>2, <1>4, Vizinhos DEF SisTypeOK, Mensagens
<1>. QED BY <1>1, <1>3, <1>5

(* nginx sends the request elsewhere: only before it was sent, or when it   *)
(* is not a transaction.                                                   *)
LEMMA TentaOutroAnda ==
  ASSUME SisInv, NEW r \in Requisicoes, NEW a \in Apis, TentaOutro(r, a), Calado,
         demoras' \in Nat, demoras' = 0 => demoras = 0,
         \/ fase[r] = "escolhe"
         \/ fase[r] # "nova" /\ ~Post(r)
  PROVE  SisTypeOK' /\ Ligados' /\ Acompanha'
<1>. USE DEF TentaOutro, Calado, SisInv, SisBase
<1>0. UNCHANGED <<pc, pedido>>
  BY DEF vars, apiVars
<1>1. SisTypeOK'
  BY DEF SisTypeOK
<1>2. Ligados'
  BY <1>0 DEF SisTypeOK, Ligados, Nas, Mensagens
<1>3. Acomp(r)'
  <2>1. Acomp(r)
    BY DEF Acompanha
  <2>2. CASE fase[r] = "escolhe"
    <3>1. fase'[r] = "escolhe" /\ status'[r] = status[r] /\ (Post(r)' <=> Post(r))
      BY <2>2 DEF SisTypeOK, Post
    <3>2. CASE Post(r)
      <4>1. Unica(r) /\ Informada(r)
        BY <2>1, <2>2, <3>2 DEF Acomp, Transacao1
      <4>2. Unica(r)' /\ Informada(r)'
        BY <1>0, <2>2, <3>1, <4>1 DEF Unica, Informada, Nas, Mensagens
      <4>. QED BY <3>1, <3>2, <4>2 DEF Acomp, Transacao1
    <3>3. CASE ~Post(r)
      BY <2>1, <2>2, <3>1, <3>3 DEF Acomp, Transacao1, Mensagens
    <3>. QED BY <3>2, <3>3
  <2>3. CASE fase[r] # "nova" /\ ~Post(r)
    BY <2>1, <2>3 DEF Acomp, Transacao1, Post, Mensagens, SisTypeOK
  <2>. QED BY <2>2, <2>3
<1>4. Acompanha'
  BY <1>0, <1>3, Vizinhos DEF SisTypeOK, Mensagens
<1>. QED BY <1>1, <1>2, <1>4

(* nginx gives up: nobody can answer, or the process it chose stopped, or   *)
(* it has waited long enough.                                              *)
LEMMA DevolveErroAnda ==
  ASSUME SisInv, NEW r \in Requisicoes, NEW codigo \in {502, 504},
         DevolveErro(r, codigo), Calado, suspensos' \subseteq Apis,
         demoras' \in Nat, demoras' = 0 => demoras = 0,
         \/ fase[r] = "escolhe"
         \/ fase[r] = "enviada" /\ pc[destino[r]] \in Parados
         \/ fase[r] = "enviada" /\ demoras' # 0
  PROVE  SisTypeOK' /\ Ligados' /\ Acompanha'
<1>. USE DEF DevolveErro, Calado, SisInv, SisBase
<1>0. UNCHANGED <<pc, pedido>>
  BY DEF vars, apiVars
<1>1. SisTypeOK'
  BY DEF SisTypeOK
<1>2. Ligados'
  BY <1>0 DEF SisTypeOK, Ligados, Nas, Mensagens
<1>3. Acomp(r)'
  <2>1. Acomp(r)
    BY DEF Acompanha
  <2>2. fase'[r] = "erro" /\ status'[r] \notin {200, 400, 404, 422}
    BY DEF SisTypeOK
  <2>3. CASE Post(r)
    <3>1. Unica(r) /\ Informada(r)
      BY <2>1, <2>3 DEF Acomp, Transacao1
    <3>2. Unica(r)'
      BY <1>0, <2>2, <3>1 DEF Unica, Nas, Mensagens
    <3>3. CASE fase[r] = "escolhe"
      BY <1>0, <2>2, <3>1, <3>2, <3>3
      DEF Acomp, Unica, Informada, Nas, Mensagens
    <3>4. CASE fase[r] = "enviada" /\ pc[destino[r]] \in Parados
      <4>1. destino[r] \in Apis /\ Nas(r, destino[r])
        BY <3>1, <3>4 DEF Unica, Ligados
      <4>2. \A a \in Apis : Nas(r, a) => pc[a] \in Parados
        BY <3>1, <3>4, <4>1 DEF Unica
      <4>3. Mensagens(r) # {} => pc[destino[r]] = "matado"
        BY <3>1, <4>1 DEF Unica, Nas
      <4>4. Informada(r)'
        BY <1>0, <2>2, <4>2, <4>3 DEF Informada, Nas, Mensagens
      <4>. QED BY <2>2, <2>3, <3>2, <4>4 DEF Acomp, Transacao1, Post
    <3>5. CASE fase[r] = "enviada" /\ demoras' # 0
      BY <2>2, <2>3, <3>2, <3>5 DEF Acomp, Informada, Transacao1, Post
    <3>. QED BY <3>3, <3>4, <3>5
  <2>4. CASE ~Post(r)
    BY <2>1, <2>2, <2>4 DEF Acomp, Transacao1, Post, Mensagens
  <2>. QED BY <2>3, <2>4
<1>4. Acompanha'
  BY <1>0, <1>3, Vizinhos DEF SisTypeOK, Mensagens
<1>. QED BY <1>1, <1>2, <1>4

-----------------------------------------------------------------------------
(* A step of process a for request r: it holds on to it, or it answers and  *)
(* lets go of it.                                                          *)
LEMMA ProcessoAnda ==
  ASSUME SisInv, NEW a \in Apis, NEW r \in Requisicoes,
         Avanca(a, oque[r]), Entrega(a, r), AnotaOrigem(r),
         \/ atual[a] = r /\ fila' = fila
         \/ /\ atual[a] = SemRequisicao
            /\ r \in fila[a]
            /\ fila' = [fila EXCEPT ![a] = @ \ {r}]
  PROVE  SisTypeOK' /\ Ligados' /\ Acompanha'
<1>. USE DEF SisInv, SisBase
<1>1. Nas(r, a) /\ fase[r] # "nova" /\ destino[r] \in Apis /\ oque[r] \in Pedidos
  BY DEF Nas, Ligados
<1>2. /\ Acomp(r)
      /\ pc[a] \notin Parados
      /\ \/ enviados' = enviados
         \/ enviados' = enviados + 1
      /\ ~Post(r) => enviados' = enviados
  BY DEF Acompanha, Avanca, Post
<1>3. /\ origem' \subseteq [req : Requisicoes, num : Nat]
      /\ \A q : q # r => Mensagens(q)' = Mensagens(q)
      /\ enviados' = enviados => origem' = origem
      /\ enviados' = enviados + 1 =>
           Mensagens(r)' = Mensagens(r) \cup {enviados + 1}
  BY <1>2, Anotadas
<1>4. UNCHANGED <<oque, destino, tentados, suspensos, demoras>>
  BY DEF Entrega, nginxVars
<1>5. /\ pc'[a] = "poll" => resposta'[a].status \in {200, 400, 404, 422}
      /\ pc'[a] # "poll" => pc'[a] \in Ocupados \cup {"morto"} /\ pedido'[a] = oque[r]
  BY DEF Avanca, Ocupados
<1>6. SisTypeOK'
  BY <1>3, <1>4, <1>5 DEF SisTypeOK, Entrega, nginxVars
<1>7. /\ \A b \in Apis : b # a =>
           /\ pc'[b] = pc[b] /\ pedido'[b] = pedido[b]
           /\ atual'[b] = atual[b] /\ fila'[b] = fila[b]
      /\ fila'[a] \subseteq fila[a]
      /\ \A q \in Requisicoes : q # r => (q \in fila'[a] <=> q \in fila[a])
      /\ pc'[a] = "poll" => atual'[a] = SemRequisicao
      /\ pc'[a] # "poll" => atual'[a] = r
  BY DEF SisTypeOK, Entrega, Avanca
<1>8. /\ \A q \in Requisicoes : q # r => fase'[q] = fase[q] /\ status'[q] = status[q]
      /\ fase'[r] # "nova"
      /\ fase'[r] = "enviada" => fase[r] = "enviada"
  BY <1>1 DEF SisTypeOK, Entrega, nginxVars
<1>9. Ligados'
  <2>1. ASSUME NEW b \in Apis
        PROVE  /\ pc'[b] \in {"conectando", "poll", "encerrado"} =>
                    atual'[b] = SemRequisicao
               /\ pc'[b] \in Ocupados =>
                    /\ atual'[b] \in Requisicoes
                    /\ pedido'[b] = oque'[atual'[b]]
               /\ pc'[b] = "find_last_10" => pedido'[b].op = "extrato"
    <3>1. CASE b # a
      BY <1>4, <1>7, <3>1 DEF Ligados
    <3>2. CASE b = a
      BY <1>4, <1>5, <1>7, <3>2 DEF Avanca, Ocupados
    <3>. QED BY <3>1, <3>2
  <2>2. ASSUME NEW q \in Requisicoes
        PROVE  /\ fase'[q] # "nova" => oque'[q] \in Pedidos
               /\ fase'[q] = "enviada" => destino'[q] \in Apis
               /\ Mensagens(q)' # {} => destino'[q] \in Apis
    BY <1>1, <1>3, <1>4, <1>8 DEF Ligados
  <2>3. ASSUME NEW q \in Requisicoes, NEW b \in Apis, Nas(q, b)'
        PROVE  fase'[q] # "nova" /\ destino'[q] \in Apis
    <3>1. CASE q = r
      BY <1>1, <1>4, <1>8, <3>1
    <3>2. CASE q # r
      <4>1. Nas(q, b)
        BY <1>7, <2>3, <3>2, RequisicoesAssumption DEF Nas
      <4>. QED BY <1>4, <1>8, <3>2, <4>1 DEF Ligados
    <3>. QED BY <3>1, <3>2
  <2>. QED BY <2>1, <2>2, <2>3 DEF Ligados
<1>10. Acomp(r)'
  <2>1. CASE ~Post(r)
    BY <1>1, <1>2, <1>3, <1>4, <1>8, <2>1
    DEF Acomp, Transacao1, Post, Mensagens
  <2>2. CASE Post(r)
    <3>1. Unica(r) /\ Informada(r)
      BY <1>1, <1>2, <2>2 DEF Acomp, Transacao1
    <3>2. /\ Mensagens(r) = {}
          /\ \A b \in Apis : Nas(r, b) => b = a
          /\ fase[r] \in {"enviada", "erro"}
          /\ fase[r] = "enviada" => destino[r] = a
          /\ fase[r] = "erro" => demoras # 0
          /\ status[r] \notin {200, 400, 404, 422}
      <4>1. \A b \in Apis : Nas(r, b) => b = a
        BY <1>1, <3>1 DEF Unica
      <4>2. Mensagens(r) = {}
        BY <1>2, <3>1 DEF Unica, Parados
      <4>3. fase[r] \in {"enviada", "erro"}
        BY <1>1, <3>1 DEF Unica, SisTypeOK
      <4>4. fase[r] = "enviada" => destino[r] = a
        BY <1>1, <3>1, <4>1 DEF Unica
      <4>. QED BY <1>1, <1>2, <3>1, <4>1, <4>2, <4>3, <4>4 DEF Informada
    <3>3. /\ \A b \in Apis : r \notin fila'[b]
          /\ \A b \in Apis : atual'[b] = r => b = a /\ pc'[a] # "poll"
      <4>1. \A b \in Apis : b # a => r \notin fila'[b] /\ atual'[b] # r
        BY <1>7, <3>2 DEF Nas
      <4>2. r \notin fila'[a]
        BY <3>1 DEF Unica, SisTypeOK
      <4>. QED BY <1>7, <4>1, <4>2, RequisicoesAssumption
    <3>4. CASE pc'[a] # "poll"
      <4>1. enviados' = enviados /\ UNCHANGED <<fase, status>>
        BY <3>4 DEF Avanca, Entrega, nginxVars
      <4>2. Mensagens(r)' = {}
        BY <1>3, <3>2, <4>1 DEF Mensagens
      <4>3. \A b \in Apis : Nas(r, b)' <=> b = a
        BY <1>7, <3>3, <3>4 DEF Nas
      <4>. QED BY <1>4, <1>8, <2>2, <3>2, <3>3, <4>1, <4>2, <4>3
        DEF Acomp, Unica, Informada, Transacao1, Post
    <3>5. CASE pc'[a] = "poll"
      <4>1. \A b \in Apis : ~Nas(r, b)'
        BY <3>3, <3>5 DEF Nas
      <4>2. \/ enviados' = enviados /\ resposta'[a].status \in {400, 404, 422}
            \/ enviados' = enviados + 1 /\ resposta'[a].status = 200
        BY <2>2, <3>5 DEF Avanca, Post, Ocupados
      <4>3. \/ Mensagens(r)' = {} /\ resposta'[a].status \in {400, 404, 422}
            \/ Mensagens(r)' = {enviados + 1} /\ resposta'[a].status = 200
        BY <1>3, <3>2, <4>2 DEF Mensagens
      <4>6. \A m, n \in Mensagens(r)' : m = n
        BY <4>3
      <4>4. CASE fase[r] = "enviada"
        <5>1. fase'[r] = "respondida" /\ status'[r] = resposta'[a].status
          BY <3>2, <3>5, <4>4 DEF Entrega, SisTypeOK
        <5>2. Unica(r)'
          BY <3>3, <3>5, <4>1, <4>6, <5>1 DEF Unica, Nas
        <5>3. Informada(r)'
          BY <4>3, <5>1 DEF Informada
        <5>. QED BY <2>2, <1>4, <5>1, <5>2, <5>3 DEF Acomp, Transacao1, Post
      <4>5. CASE fase[r] = "erro"
        <5>1. fase'[r] = "erro" /\ status'[r] = status[r]
          BY <3>5, <4>5 DEF Entrega, nginxVars
        <5>2. Unica(r)'
          BY <3>3, <3>5, <4>1, <4>6, <5>1 DEF Unica, Nas
        <5>3. Informada(r)'
          BY <1>4, <3>2, <4>5, <5>1 DEF Informada
        <5>. QED BY <2>2, <1>4, <5>1, <5>2, <5>3 DEF Acomp, Transacao1, Post
      <4>. QED BY <3>2, <4>4, <4>5
    <3>. QED BY <3>4, <3>5
  <2>. QED BY <2>1, <2>2
<1>11. Acompanha'
  <2>1. \A b \in Apis : pc[b] \in Parados => pc'[b] = pc[b]
    BY <1>2, <1>7
  <2>2. \A q \in Requisicoes \ {r} : \A b \in Apis :
          /\ atual'[b] = q <=> atual[b] = q
          /\ q \in fila'[b] <=> q \in fila[b]
    BY <1>7, RequisicoesAssumption
  <2>. QED BY <1>3, <1>4, <1>8, <1>10, <2>1, <2>2, Vizinhos
<1>. QED BY <1>6, <1>9, <1>11

(* A signal ends a process: what it holds stays with it, and one message    *)
(* may still leave.                                                        *)
LEMMA SinalAnda ==
  ASSUME SisInv, NEW a \in Apis, SinalDoSistema(a)
  PROVE  SisTypeOK' /\ Ligados' /\ Acompanha'
<1>. USE DEF SisInv, SisBase
<1>0. PICK r : r = atual[a]
  OBVIOUS
<1>1. /\ pc[a] \notin Parados
      /\ \A b \in Apis : b # a => pc'[b] = pc[b]
      /\ pedido' = pedido
      /\ UNCHANGED <<fase, oque, destino, tentados, status, suspensos, demoras,
                     fila, atual>>
      /\ AnotaOrigem(r)
      /\ pc'[a] \in {"matado", "encerrado"}
      /\ pc'[a] = "encerrado" => pc[a] = "poll"
  BY <1>0, SinalAvanca DEF SinalDoSistema, nginxVars
<1>2. \/ enviados' = enviados
      \/ /\ enviados' = enviados + 1
         /\ r \in Requisicoes
         /\ Post(r)
         /\ pc'[a] = "matado"
  <2>1. \/ enviados' = enviados
        \/ /\ pc'[a] = "matado" /\ pc[a] = "decide"
           /\ enviados' = enviados + 1
    BY SinalAvanca DEF SinalDoSistema
  <2>2. pc[a] = "decide" => pedido[a].op = "transacao"
    BY DEF Base, TipoApi, PedidosValidados
  <2>. QED BY <1>0, <2>1, <2>2 DEF Ligados, Ocupados, Post
<1>3. /\ origem' \subseteq [req : Requisicoes, num : Nat]
      /\ \A q : q # r => Mensagens(q)' = Mensagens(q)
      /\ enviados' = enviados => origem' = origem
      /\ enviados' = enviados + 1 =>
           Mensagens(r)' = Mensagens(r) \cup {enviados + 1}
  BY <1>1, <1>2, Anotadas
<1>4. SisTypeOK'
  BY <1>1, <1>3 DEF SisTypeOK
<1>5. Ligados'
  <2>1. \A b \in Apis :
          /\ pc'[b] \in {"conectando", "poll", "encerrado"} =>
               atual'[b] = SemRequisicao
          /\ pc'[b] \in Ocupados =>
               atual'[b] \in Requisicoes /\ pedido'[b] = oque'[atual'[b]]
          /\ pc'[b] = "find_last_10" => pedido'[b].op = "extrato"
    BY <1>1 DEF Ligados, Ocupados
  <2>2. ASSUME NEW q \in Requisicoes
        PROVE  Mensagens(q)' # {} => destino'[q] \in Apis
    <3>1. CASE q = r
      BY <1>0, <1>1, <3>1 DEF Ligados, Nas
    <3>2. CASE q # r
      BY <1>1, <1>3, <3>2 DEF Ligados
    <3>. QED BY <3>1, <3>2
  <2>. QED BY <1>1, <2>1, <2>2 DEF Ligados, Nas
<1>6. ASSUME r \in Requisicoes
      PROVE  Acomp(r)'
  <2>0. fase'[r] # "nova" /\ Acomp(r)
    BY <1>0, <1>1, <1>6 DEF Ligados, Nas, Acompanha
  <2>1. CASE ~Post(r)
    BY <1>1, <1>2, <1>3, <2>0, <2>1 DEF Acomp, Transacao1, Post, Mensagens
  <2>2. CASE Post(r)
    <3>1. Unica(r) /\ Informada(r) /\ Nas(r, a)
      BY <1>0, <1>1, <2>0, <2>2 DEF Acomp, Transacao1, Nas
    <3>2. /\ Mensagens(r) = {}
          /\ \A b \in Apis : Nas(r, b) => b = a
          /\ \A b \in Apis : r \notin fila[b]
          /\ fase[r] \notin {"escolhe", "respondida"}
          /\ fase[r] = "erro" => demoras # 0
      BY <1>0, <1>1, <3>1 DEF Unica, Informada, Nas, Parados
    <3>3. /\ \A m, n \in Mensagens(r)' : m = n
          /\ Mensagens(r)' # {} => pc'[a] = "matado"
      BY <1>2, <1>3, <3>2 DEF Mensagens
    <3>4. Unica(r)'
      BY <1>0, <1>1, <3>1, <3>2, <3>3 DEF Unica, Nas
    <3>5. Informada(r)'
      BY <1>1, <3>1, <3>2 DEF Informada
    <3>. QED BY <2>0, <2>2, <1>1, <3>4, <3>5 DEF Acomp, Transacao1, Post
  <2>. QED BY <2>1, <2>2
<1>7. Acompanha'
  <2>1. \A b \in Apis : pc[b] \in Parados => pc'[b] = pc[b]
    BY <1>1
  <2>. QED BY <1>1, <1>3, <1>6, <2>1, Vizinhos
<1>. QED BY <1>4, <1>5, <1>7

(* The steps that no request notices.                                      *)
LEMMA QuietosAnda ==
  ASSUME SisInv,
         UNCHANGED <<fase, oque, destino, tentados, status, demoras, fila, atual,
                     origem, pedido>>,
         suspensos' \subseteq Apis,
         \A a \in Apis :
           pc'[a] = pc[a] \/ (pc[a] = "conectando" /\ pc'[a] = "poll")
  PROVE  SisTypeOK' /\ Ligados' /\ Acompanha'
<1>. USE DEF SisInv, SisBase
<1>1. SisTypeOK'
  BY DEF SisTypeOK
<1>2. Ligados'
  BY DEF Ligados, Nas, Mensagens, Ocupados
<1>3. Acompanha'
  <2>1. \A a \in Apis : pc[a] \in Parados => pc'[a] = pc[a]
    BY DEF Parados
  <2>2. SemRequisicao \notin Requisicoes
    BY RequisicoesAssumption
  <2>. QED BY <2>1, <2>2, Vizinhos DEF Mensagens
<1>. QED BY <1>1, <1>2, <1>3

-----------------------------------------------------------------------------
LEMMA SisInvInit == SisInit => SisInv
<1>. SUFFICES ASSUME SisInit PROVE SisInv
  OBVIOUS
<1>1. Base
  BY BaseInit DEF SisInit
<1>2. SisTypeOK
  BY DEF SisInit, SisTypeOK
<1>3. Ligados
  BY RequisicoesAssumption DEF SisInit, Init, Ligados, Nas, Mensagens, Ocupados
<1>4. Acompanha
  BY DEF SisInit, Acompanha, Acomp, Transacao1, Mensagens
<1>. QED BY <1>1, <1>2, <1>3, <1>4 DEF SisInv, SisBase

LEMMA SisInvPasso ==
  ASSUME SisInv, [SisNext]_sisVars
  PROVE  SisInv'
<1>. USE DEF SisInv, SisBase
<1>1. Base'
  BY PassoDasApis, BasePasso
<1>. SUFFICES SisTypeOK' /\ Ligados' /\ Acompanha'
  BY <1>1
<1>2. ASSUME NEW r \in Requisicoes, NEW p \in Pedidos, ClientePede(r, p)
      PROVE  SisTypeOK' /\ Ligados' /\ Acompanha'
  BY <1>2, ClientePedeAnda
<1>3. ASSUME NEW r \in Requisicoes, NEW a \in Apis, Encaminha(r, a)
      PROVE  SisTypeOK' /\ Ligados' /\ Acompanha'
  BY <1>3, EncaminhaAnda
<1>4. ASSUME NEW r \in Requisicoes, NEW a \in Apis, Recusada(r, a)
      PROVE  SisTypeOK' /\ Ligados' /\ Acompanha'
  BY <1>4, TentaOutroAnda DEF Recusada, Calado, SisTypeOK
<1>5. ASSUME NEW r \in Requisicoes, SemProcesso(r)
      PROVE  SisTypeOK' /\ Ligados' /\ Acompanha'
  BY <1>5, DevolveErroAnda DEF SemProcesso, Calado, SisTypeOK
<1>6. ASSUME NEW r \in Requisicoes, Cortada(r)
      PROVE  SisTypeOK' /\ Ligados' /\ Acompanha'
  <2>1. destino[r] \in Apis /\ fase[r] # "nova" /\ suspensos \subseteq Apis
    BY <1>6 DEF Cortada, Ligados, SisTypeOK
  <2>2. Calado /\ demoras' = demoras /\ demoras \in Nat
    BY <1>6 DEF Cortada, Calado, SisTypeOK
  <2>3. CASE ~Post(r) /\ TentaOutro(r, destino[r])
    BY <2>1, <2>2, <2>3, TentaOutroAnda
  <2>4. CASE DevolveErro(r, 502) /\ suspensos' = suspensos \cup {destino[r]}
    BY <1>6, <2>1, <2>2, <2>4, DevolveErroAnda DEF Cortada
  <2>. QED BY <1>6, <2>3, <2>4 DEF Cortada, Falhou
<1>7. ASSUME NEW r \in Requisicoes, Demora(r)
      PROVE  SisTypeOK' /\ Ligados' /\ Acompanha'
  <2>1. destino[r] \in Apis /\ fase[r] = "enviada" /\ suspensos \subseteq Apis
    BY <1>7 DEF Demora, Ligados, SisTypeOK
  <2>2. Calado /\ demoras' \in Nat /\ demoras' # 0
    BY <1>7 DEF Demora, Calado, SisTypeOK
  <2>3. CASE ~Post(r) /\ TentaOutro(r, destino[r])
    BY <2>1, <2>2, <2>3, TentaOutroAnda
  <2>4. CASE DevolveErro(r, 504) /\ suspensos' = suspensos \cup {destino[r]}
    BY <2>1, <2>2, <2>4, DevolveErroAnda
  <2>. QED BY <1>7, <2>3, <2>4 DEF Demora, Falhou
<1>8. ASSUME NEW r \in Requisicoes, NEW a \in Apis, Toma(a, r)
      PROVE  SisTypeOK' /\ Ligados' /\ Acompanha'
  <2>1. oque[r] \in Pedidos
    BY <1>8 DEF Toma, Ligados, Nas
  <2>2. Avanca(a, oque[r]) /\ enviados' = enviados /\ pc[a] = "poll"
    BY <1>8, <2>1, ChegaAvanca DEF Toma
  <2>3. AnotaOrigem(r)
    <3>1. enviados \in Nat
      BY DEF Base, TipoApi, TypeOK, PgTypeOK
    <3>2. (enviados + 1)..enviados' = {}
      BY <2>2, <3>1
    <3>. QED BY <1>8, <3>2 DEF AnotaOrigem, Toma
  <2>4. atual[a] = SemRequisicao
    BY <2>2 DEF Ligados
  <2>. QED BY <1>8, <2>2, <2>3, <2>4, ProcessoAnda DEF Toma
<1>9. ASSUME NEW a \in Apis, Processa(a)
      PROVE  SisTypeOK' /\ Ligados' /\ Acompanha'
  <2>1. PICK r : r = atual[a]
    OBVIOUS
  <2>2. Avanca(a, pedido[a]) /\ pc[a] \in Ocupados
    BY <1>9, AtendeAvanca DEF Processa
  <2>3. r \in Requisicoes /\ pedido[a] = oque[r]
    BY <2>1, <2>2 DEF Ligados
  <2>. QED BY <1>9, <2>1, <2>2, <2>3, ProcessoAnda DEF Processa
<1>10. ASSUME NEW a \in Apis, SinalDoSistema(a)
       PROVE  SisTypeOK' /\ Ligados' /\ Acompanha'
  BY <1>10, SinalAnda
<1>11. ASSUME NEW a \in Apis, Inicializa(a)
       PROVE  SisTypeOK' /\ Ligados' /\ Acompanha'
  <2>1. /\ pc[a] = "conectando" /\ pc'[a] = "poll"
        /\ \A b \in Apis : b # a => pc'[b] = pc[b]
        /\ pedido' = pedido
    BY <1>11, ConectaAvanca DEF Inicializa
  <2>2. UNCHANGED <<fase, oque, destino, tentados, status, demoras, fila, atual,
                    origem, pedido>>
    BY <1>11, <2>1 DEF Inicializa, nginxVars
  <2>3. suspensos' \subseteq Apis
    BY <1>11 DEF Inicializa, nginxVars, SisTypeOK
  <2>4. \A b \in Apis :
           pc'[b] = pc[b] \/ (pc[b] = "conectando" /\ pc'[b] = "poll")
    BY <2>1
  <2>. QED BY <2>2, <2>3, <2>4, QuietosAnda
<1>12. ASSUME NEW a \in Apis, Reabilita(a)
       PROVE  SisTypeOK' /\ Ligados' /\ Acompanha'
  <2>1. pc' = pc /\ pedido' = pedido
    BY <1>12 DEF Reabilita, vars, apiVars
  <2>2. UNCHANGED <<fase, oque, destino, tentados, status, demoras, fila, atual,
                    origem, pedido>>
    BY <1>12, <2>1 DEF Reabilita
  <2>3. suspensos' \subseteq Apis
    BY <1>12 DEF Reabilita, SisTypeOK
  <2>. QED BY <2>1, <2>2, <2>3, QuietosAnda
<1>13. CASE Banco \/ FimDoSistema \/ UNCHANGED sisVars
  <2>1. pc' = pc /\ pedido' = pedido
    BY <1>13, BancoAvanca DEF FimDoSistema, sisVars, vars, apiVars
  <2>2. UNCHANGED <<fase, oque, destino, tentados, status, demoras, fila, atual,
                    origem, pedido>>
    BY <1>13, <2>1 DEF Banco, FimDoSistema, sisVars, nginxVars
  <2>3. suspensos' \subseteq Apis
    BY <1>13 DEF Banco, FimDoSistema, sisVars, nginxVars, SisTypeOK
  <2>. QED BY <2>1, <2>2, <2>3, QuietosAnda
<1>. QED
  BY <1>2, <1>3, <1>4, <1>5, <1>6, <1>7, <1>8, <1>9, <1>10, <1>11, <1>12, <1>13
  DEF SisNext, Nginx

LEMMA SisInvSempre == SisSpec => []SisInv
<1>. QED BY SisInvInit, SisInvPasso, PTL DEF SisSpec

-----------------------------------------------------------------------------
(* The theorems.                                                           *)

(* The types of nginx's and the sockets' state.                            *)
THEOREM SisTipos == SisSpec => []SisTypeOK
<1>1. SisInv => SisTypeOK
  BY DEF SisInv, SisBase
<1>. QED BY <1>1, SisInvSempre, PTL

(* The deployment implements the specification of the processes and the    *)
(* database: whatever nginx does, each of them takes requests and runs the *)
(* handlers as ClienteController says, so every theorem about Spec is one  *)
(* about the deployment too.                                               *)
THEOREM SisImplementaApis == SisSpec => Spec
<1>1. SisInit => Init
  BY DEF SisInit
<1>2. SisInv /\ [SisNext]_sisVars => [Next]_vars
  BY PassoDasApis DEF SisInv
<1>. QED BY <1>1, <1>2, SisInvSempre, PTL DEF SisSpec, Spec

(* One request of a client is at most one message to the database.         *)
LEMMA SoUma ==
  ASSUME NEW S, \A m, n \in S : m = n
  PROVE  Cardinality(S) <= 1
<1>1. CASE S = {}
  BY <1>1, FS_EmptySet
<1>2. CASE S # {}
  <2>1. PICK n : S = {n}
    BY <1>2
  <2>2. IsFiniteSet(S) /\ Cardinality(S) = 1
    BY <2>1, FS_Singleton
  <2>. QED BY <2>2
<1>. QED BY <1>1, <1>2

THEOREM SisAoMaisUmaVez == SisSpec => []AoMaisUmaVez
<1>1. SisInv => AoMaisUmaVez
  <2>. SUFFICES ASSUME SisInv, NEW r \in Requisicoes
                PROVE  Cardinality(Mensagens(r)) <= 1
    BY DEF AoMaisUmaVez
  <2>1. \A m, n \in Mensagens(r) : m = n
    BY DEF SisInv, Acompanha, Acomp, Unica
  <2>. QED BY <2>1, SoUma
<1>. QED BY <1>1, SisInvSempre, PTL

(* What a client of a transaction is told is what happened to its message. *)
THEOREM SisRespostaVerdadeira == SisSpec => []RespostaVerdadeira
<1>1. SisInv => RespostaVerdadeira
  BY DEF SisInv, SisBase, SisTypeOK, Acompanha, Acomp, Transacao1, Unica,
         Informada, RespostaVerdadeira
<1>. QED BY <1>1, SisInvSempre, PTL

(* A transaction never takes two processes with it.                        *)
THEOREM SisUmPostDerrubaUm == SisSpec => []UmPostDerrubaUm
<1>1. SisInv => UmPostDerrubaUm
  <2>. SUFFICES ASSUME SisInv, NEW r \in Requisicoes, oque[r] # SemPedido, Post(r)
                PROVE  Cardinality({a \in Apis : pc[a] = "morto" /\ atual[a] = r})
                         <= 1
    BY DEF UmPostDerrubaUm
  <2>1. \A a, b \in {c \in Apis : pc[c] = "morto" /\ atual[c] = r} : a = b
    BY DEF SisInv, SisBase, Ligados, Acompanha, Acomp, Transacao1, Unica, Nas
  <2>. QED BY <2>1, SoUma
<1>. QED BY <1>1, SisInvSempre, PTL
=============================================================================
