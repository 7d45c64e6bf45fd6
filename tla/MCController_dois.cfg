SPECIFICATION Spec
CONSTANTS
  a1 = a1
  a2 = a2
  Conexoes = {a1, a2}
  Clientes = {1}
  Limite <- LimiteMC
  Valores = {1, 2, 3}
  Textos <- TextosMC
  TRANSACAO_DESCRICAO_LEN = 2
  Livre = Livre
  SemComando = SemComando
  SemPedido = SemPedido
  SemTexto = SemTexto
  SemResposta = SemResposta
  NaoInteiro = NaoInteiro
  IdInvalido = IdInvalido
  IdDesconhecido = IdDesconhecido
  Pedidos <- PedidosBons
  MaxInt4 = 2
  MaxInt8 = 127
  LimiteExtrato = 3
  MaxEnvios = 4
  MaxPedidos = 4
  Sinais = {"kill", "term"}
  MaxQuedas = 0
  Int32Max = 3
SYMMETRY Simetria
INVARIANTS
  TypeOK
  PerdaExplicada
  ExtratoConsistente
  SoAceitasGravadas
