SPECIFICATION Spec
CONSTANTS
  a1 = a1
  a2 = a2
  Conexoes = {a1}
  Clientes = {1}
  Limite <- LimiteMC
  Valores = {1, 2, 7}
  Textos <- TextosTodos
  TRANSACAO_DESCRICAO_LEN = 2
  Livre = Livre
  SemComando = SemComando
  SemPedido = SemPedido
  SemTexto = SemTexto
  SemResposta = SemResposta
  NaoInteiro = NaoInteiro
  IdInvalido = IdInvalido
  IdDesconhecido = IdDesconhecido
  Pedidos <- PedidosDados
  MaxInt4 = 2
  MaxInt8 = 7
  LimiteExtrato = 2
  MaxEnvios = 4
  MaxPedidos = 4
  Sinais = {}
  MaxQuedas = 1
  Int32Max = 3
INVARIANTS
  SaldoExato
  TextoGuardado
  ExtratoCompleto
  LeituraPropria
  MorteExplicada
