SPECIFICATION Spec
CONSTANTS
  a1 = a1
  a2 = a2
  Conexoes = {a1}
  Clientes = {1}
  Limite <- LimiteMC
  Valores = {1, 2, 3}
  Textos <- TextosMC
  TRANSACAO_DESCRICAO_LEN = 2
  Livre = Livre
  SemComando = SemComando
  SemPedido = SemPedido
  SemTexto = SemTexto
  SemResposta = SemResposta
  NaoInteiro = NaoInteiro
  IdInvalido = IdInvalido
  IdDesconhecido = IdDesconhecido
  Pedidos <- PedidosBons
  MaxInt4 = 2
  MaxInt8 = 127
  LimiteExtrato = 10
  MaxEnvios = 6
  MaxPedidos = 6
  Sinais = {"term"}
  MaxQuedas = 0
  Int32Max = 3
INVARIANT LimiteRespeitado
PROPERTY ImplementaConta
