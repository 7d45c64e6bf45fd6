----------------------------- MODULE HttpParser -----------------------------
(***************************************************************************)
(* src/src/server/http_parser.c: the one llhttp parser and the one         *)
(* HttpRequest of a process, as an operator on their state, and the parts  *)
(* of llhttp (external) it depends on.                                     *)
(*                                                                         *)
(* The bytes of a connection are cut into pieces:                          *)
(*   metodo the method                                                     *)
(*   url    the first half of the url                                      *)
(*   linha  the rest of the url, the version, and header text up to the    *)
(*          middle of a value                                              *)
(*   cab    the rest of the headers; it says how many pieces of body       *)
(*          follow (corpo) and whether the connection persists (mantem)    *)
(*   corpo  a piece of the body                                            *)
(*   lixo   control characters, which only a body may contain              *)
(* A piece carries the request it belongs to.  Sizes count pieces.         *)
(***************************************************************************)
EXTENDS Naturals, SequencesExt

CONSTANTS
  Pedidos,      \* names of requests
  SemPedido,    \* the method of a parser that has read none
  MaxCorpo,     \* the largest body a request declares
  HTTP_REQUEST_URL_BUFFER_SIZE,   \* pieces of url that do not fit
  HTTP_REQUEST_BODY_BUFFER_SIZE   \* pieces of body that fit

ASSUME HttpAssumption ==
  /\ SemPedido \notin Pedidos
  /\ MaxCorpo \in Nat
  /\ HTTP_REQUEST_URL_BUFFER_SIZE \in Nat
  /\ HTTP_REQUEST_BODY_BUFFER_SIZE \in Nat

Pedacos ==
  [tipo : {"metodo", "url", "linha", "cab", "corpo", "lixo"}, pedido : Pedidos,
   corpo : 0..MaxCorpo, mantem : BOOLEAN]

(* Where llhttp is in a message.  fechado: after a message that ends its   *)
(* connection.  erro: an error, which stays until llhttp_init.             *)
Fases == {"inicio", "metodo", "url", "cab", "corpo", "fechado", "erro"}

(* The url of a request, in its two halves.                                *)
Metade(p, parte) == [pedido |-> p, parte |-> parte]
Metades == [pedido : Pedidos, parte : {"url", "linha"}]

Parsers ==
  [fase : Fases, content_length : 0..MaxCorpo, mantem : BOOLEAN,
   method : Pedidos \cup {SemPedido},
   url : Seq(Metades), body : Seq(Pedidos), complete : BOOLEAN]

http_parser_init ==
  [fase |-> "inicio", content_length |-> 0, mantem |-> FALSE,
   method |-> SemPedido, url |-> <<>>, body |-> <<>>, complete |-> FALSE]

-----------------------------------------------------------------------------
(* The callbacks.  They append to what the request already holds; their    *)
(* error is an error of the parser.                                        *)
Erro(h) == [h EXCEPT !.fase = "erro"]

handle_on_url(h, p) ==
  IF Len(h.url) + 1 >= HTTP_REQUEST_URL_BUFFER_SIZE
  THEN Erro(h)
  ELSE [h EXCEPT !.url = Append(@, Metade(p.pedido, p.tipo))]

handle_on_body(h, p) ==
  IF Len(h.body) + 1 > HTTP_REQUEST_BODY_BUFFER_SIZE
  THEN Erro(h)
  ELSE [h EXCEPT !.body = Append(@, p.pedido)]

handle_on_message_complete(h) ==
  [h EXCEPT !.complete = TRUE,
            !.fase = IF h.mantem THEN "inicio" ELSE "fechado"]

-----------------------------------------------------------------------------
(* llhttp, one piece at a time.  A request line in the middle of a header  *)
(* value is part of the value.                                             *)
Inicio(h, p) ==
  IF p.tipo = "metodo"
  THEN [h EXCEPT !.fase = "metodo", !.method = p.pedido]
  ELSE Erro(h)

Metodo(h, p) ==
  IF p.tipo = "url"
  THEN handle_on_url([h EXCEPT !.fase = "url"], p)
  ELSE Erro(h)

Url(h, p) ==
  IF p.tipo = "linha"
  THEN handle_on_url([h EXCEPT !.fase = "cab"], p)
  ELSE Erro(h)

Cab(h, p) ==
  CASE p.tipo = "cab" /\ p.corpo = 0 ->
         handle_on_message_complete([h EXCEPT !.mantem = p.mantem])
    [] p.tipo = "cab" /\ p.corpo > 0 ->
         [h EXCEPT !.fase = "corpo", !.content_length = p.corpo,
                   !.mantem = p.mantem]
    [] p.tipo \in {"metodo", "url", "linha"} -> h
    [] OTHER -> Erro(h)

MutCorpoUmAMais(h, p) ==
  LET lido == handle_on_body([h EXCEPT !.content_length = @ - 1], p)
  IN IF lido.fase = "corpo" /\ h.content_length = 0
     THEN handle_on_message_complete(lido)
     ELSE lido
Corpo(h, p) ==
  LET lido == handle_on_body([h EXCEPT !.content_length = @ - 1], p)
  IN IF lido.fase = "corpo" /\ lido.content_length = 0
     THEN handle_on_message_complete(lido)
     ELSE lido

Passo(h, p) ==
  CASE h.fase = "inicio" -> Inicio(h, p)
    [] h.fase = "metodo" -> Metodo(h, p)
    [] h.fase = "url" -> Url(h, p)
    [] h.fase = "cab" -> Cab(h, p)
    [] h.fase = "corpo" -> Corpo(h, p)
    [] OTHER -> h

llhttp_execute(h, pedacos) == FoldLeft(Passo, h, pedacos)

-----------------------------------------------------------------------------
(* What socket_read asks of the parser.  llhttp_finish, called after an    *)
(* error, changes nothing.                                                 *)
http_parser_parse(h, pedacos) == llhttp_execute(h, pedacos)
Sucesso(h) == h.fase # "erro"
http_parser_request_is_complete(h) == h.complete

MutResetSemUrl(h) ==
  [h EXCEPT !.body = <<>>, !.complete = FALSE,
            !.fase = IF @ = "fechado" THEN "inicio" ELSE @]
http_parser_reset_request(h) ==
  [h EXCEPT !.url = <<>>, !.body = <<>>, !.complete = FALSE,
            !.fase = IF @ = "fechado" THEN "inicio" ELSE @]
=============================================================================
