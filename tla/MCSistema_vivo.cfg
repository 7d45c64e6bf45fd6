SPECIFICATION SisFairSpec
CONSTANTS
  a1 = a1
  a2 = a2
  r1 = r1
  r2 = r2
  Conexoes = {a1, a2}
  Requisicoes = {r1, r2}
  Clientes = {1}
  Limite <- LimiteMC
  Valores = {1, 2}
  Textos <- TextosMC
  TRANSACAO_DESCRICAO_LEN = 2
  Livre = Livre
  SemComando = SemComando
  SemPedido = SemPedido
  SemTexto = SemTexto
  SemRequisicao = SemRequisicao
  SemResposta = SemResposta
  NaoInteiro = NaoInteiro
  IdInvalido = IdInvalido
  IdDesconhecido = IdDesconhecido
  Pedidos <- PedidosVivo
  MaxInt4 = 1
  MaxInt8 = 127
  LimiteExtrato = 10
  MaxEnvios = 4
  MaxPedidos = 4
  Sinais = {}
  MaxQuedas = 1
  MaxDemoras = 0
  Int32Max = 3
PROPERTIES
  TodoPedidoRespondido
  TodaMensagemDecidida
  TodoClienteRespondido
