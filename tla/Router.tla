------------------------------- MODULE Router -------------------------------
(***************************************************************************)
(* src/src/server/router.c, the two routes cliente_controller_init adds,   *)
(* and the id the handlers take from the url.                              *)
(*                                                                         *)
(* A url is a sequence of tokens: the slash, the words of the patterns, a  *)
(* digit, a word ("abc": letters and hyphens), and "?", which stands for   *)
(* any character that no pattern mentions.                                 *)
(***************************************************************************)
EXTENDS Naturals, SequencesExt

CONSTANT MAX_ROUTES

ASSUME RotasAssumption == MAX_ROUTES \in Nat

Digitos == {"1", "2"}
Palavras == {"clientes", "extrato", "transacoes", "abc"} \cup Digitos
Tokens == {"/", "?"} \cup Palavras
Metodos == {"GET", "POST"}

(* HTTP_BAD_REQUEST, the answer when no route matches.                     *)
SemRota == [rota |-> "nenhuma", id |-> <<>>]

-----------------------------------------------------------------------------
(* A pattern is a prefix, a word (perhaps empty) and a suffix; ^ and $     *)
(* anchor it to the whole url.                                             *)
route_find_by_id ==
  [rota |-> "find_by_id", method |-> "GET",
   prefixo |-> <<"/", "clientes", "/">>, sufixo |-> <<"/", "extrato">>]
route_transacao_save ==
  [rota |-> "save_transacao", method |-> "POST",
   prefixo |-> <<"/", "clientes", "/">>, sufixo |-> <<"/", "transacoes">>]

(* The table is filled from its start and never emptied.                   *)
router_add_route(routes, route) ==
  IF Len(routes) < MAX_ROUTES THEN Append(routes, route) ELSE routes

cliente_controller_init ==
  router_add_route(router_add_route(<<>>, route_find_by_id),
                   route_transacao_save)

Meio(route, url) ==
  SubSeq(url, Len(route.prefixo) + 1, Len(url) - Len(route.sufixo))

MutMatchSemFim(route, url) ==
  \E u \in Prefixes(url) :
    /\ IsPrefix(route.prefixo, u)
    /\ IsSuffix(route.sufixo, u)
    /\ Len(u) >= Len(route.prefixo) + Len(route.sufixo)
router_match_url(route, url) ==
  /\ IsPrefix(route.prefixo, url)
  /\ IsSuffix(route.sufixo, url)
  /\ Len(url) >= Len(route.prefixo) + Len(route.sufixo)
  /\ \A k \in DOMAIN Meio(route, url) : Meio(route, url)[k] \in Palavras

(* The id is what stands between the first two slashes with nothing but    *)
(* digits between them; without such slashes it is empty.                  *)
EntreBarras(url, i, j) ==
  /\ i < j
  /\ url[i] = "/" /\ url[j] = "/"
  /\ \A k \in (i + 1)..(j - 1) : url[k] \in Digitos

extract_url_param(url) ==
  LET I == {i \in DOMAIN url : \E j \in DOMAIN url : EntreBarras(url, i, j)}
      fim(i) == CHOOSE j \in DOMAIN url : EntreBarras(url, i, j)
  IN IF I = {} THEN <<>> ELSE SubSeq(url, Min(I) + 1, fim(Min(I)) - 1)

(* The first route that matches, and the id its handler goes on with.      *)
router_route(method, url) ==
  LET routes == cliente_controller_init
      I == {k \in DOMAIN routes : /\ routes[k].method = method
                                  /\ router_match_url(routes[k], url)}
  IN IF I = {} THEN SemRota
     ELSE [rota |-> routes[Min(I)].rota, id |-> extract_url_param(url)]
=============================================================================
