------------------------------ MODULE MCServer ------------------------------
(* Instances of Server for TLC.                                            *)
EXTENDS Server, TLC

CONSTANTS s1, s2

PedidosMC == Sockets \X {1, 2, 3}

(* Two transactions and an extrato whose id is not a number.               *)
AlvoMC ==
  [p \in PedidosMC |->
     CASE p[2] = 1 -> [method |-> "POST", url |-> <<"/", "clientes", "/", "1">>,
                       linha |-> <<"/", "transacoes">>, id |-> <<"1">>]
       [] p[2] = 2 -> [method |-> "POST", url |-> <<"/", "clientes">>,
                       linha |-> <<"/", "2", "/", "transacoes">>, id |-> <<"2">>]
       [] p[2] = 3 -> [method |-> "GET", url |-> <<"/", "clientes", "/">>,
                       linha |-> <<"abc", "/", "extrato">>, id |-> <<>>]]

Pedaco(t, p, c, m) == [tipo |-> t, pedido |-> p, corpo |-> c, mantem |-> m]

(* The pieces of a request with n pieces of body.                          *)
Pedido(p, n, m) ==
  << Pedaco("metodo", p, 0, FALSE), Pedaco("url", p, 0, FALSE),
     Pedaco("linha", p, 0, FALSE), Pedaco("cab", p, n, m) >> \o [k \in 1..n |-> Pedaco("corpo", p, 0, FALSE)]

Simples1(s) == {Pedido(<<s, 1>>, 0, FALSE), Pedido(<<s, 1>>, 1, TRUE)}
Grande(s) == {Pedido(<<s, 1>>, 2, FALSE)}
Encadeados(s, n, k, m) ==
  {Pedido(<<s, 1>>, n, TRUE) \o Pedido(<<s, k>>, m, FALSE)}
Malformado(s) == {<<Pedaco("lixo", <<s, 1>>, 0, FALSE)>>}

RoteirosCurtos == [s \in Sockets |-> Malformado(s)]
RoteirosErro == [s \in Sockets |-> Simples1(s) \cup Malformado(s)]
RoteirosEncadeados == [s \in Sockets |-> Encadeados(s, 0, 2, 0)]

(* Each client may make one request; s1 may make one whose body is too     *)
(* large, or send a second transaction without waiting; s2 an extrato.     *)
RoteirosTodos ==
  [s \in Sockets |->
     {Pedido(<<s, 1>>, 1, TRUE)} \cup
       (IF s = s1 THEN Grande(s) \cup Encadeados(s, 0, 2, 1)
        ELSE Encadeados(s, 0, 3, 0))]

Simetria == Permutations(Sockets)
=============================================================================
