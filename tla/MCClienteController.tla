------------------------ MODULE MCClienteController ------------------------
(* Instances of ClienteController for TLC.                                 *)
EXTENDS ClienteController, TLC

CONSTANTS a1, a2

LimiteMC == [c \in Clientes |-> 2]

(* Descriptions for a limit of two characters and four bytes.              *)
Bom == <<1>>
TextoCheio == <<2, 0, 2, 0>>
TextoCortado == <<3, 0, 0, 2, 0>>
TextoEncurtado == <<4, 0, 0, 0, 1>>
TextoLongo == <<1, 1, 1>>
TextosMC == {Bom}
TextosTodos ==
  {Bom, TextoCheio, TextoCortado, TextoEncurtado, TextoLongo, <<>>}

Transacoes(ids, tipos, valores, descricoes) ==
  [op : {"transacao"}, id : ids, tipo : tipos, valor : valores,
   descricao : descricoes]
Extratos1(ids) ==
  [op : {"extrato"}, id : ids, tipo : {"ausente"}, valor : {0},
   descricao : {SemTexto}]

(* Requests a correct client makes.                                        *)
PedidosBons == Transacoes({1}, {"c"}, {1}, {Bom})
                 \cup Transacoes({1}, {"d"}, {1, 2}, {Bom})
                 \cup Extratos1({1})

(* Requests of every class the validation and the tables tell apart, and   *)
(* amounts that take an int64_t sum past its ends.                         *)
PedidosDados ==
  Transacoes({1, IdInvalido, IdDesconhecido}, {"d"}, {1}, {Bom})
    \cup Transacoes({1}, {"c", "d"}, {1, 2, 7}, {Bom})
    \cup Transacoes({1}, {"c", "outro", "ausente"}, {0, 1, NaoInteiro}, {Bom})
    \cup Transacoes({1}, {"c"}, {1}, Textos \cup {SemTexto})
    \cup Transacoes({1}, {"ausente"}, {1}, {Bom, TextoLongo, SemTexto})
    \cup Extratos1({1, IdInvalido, IdDesconhecido})

Simetria == Permutations(Apis)
=============================================================================
