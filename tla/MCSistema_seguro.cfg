SPECIFICATION SisSpec
CONSTANTS
  a1 = a1
  a2 = a2
  r1 = r1
  r2 = r2
  Conexoes = {a1, a2}
  Requisicoes = {r1, r2}
  Clientes = {1}
  Limite <- LimiteMC
  Valores = {1, 2}
  Textos <- TextosMC
  TRANSACAO_DESCRICAO_LEN = 2
  Livre = Livre
  SemComando = SemComando
  SemPedido = SemPedido
  SemTexto = SemTexto
  SemRequisicao = SemRequisicao
  SemResposta = SemResposta
  NaoInteiro = NaoInteiro
  IdInvalido = IdInvalido
  IdDesconhecido = IdDesconhecido
  Pedidos <- PedidosSistema
  MaxInt4 = 2
  MaxInt8 = 127
  LimiteExtrato = 10
  MaxEnvios = 4
  MaxPedidos = 4
  Sinais = {"kill", "term"}
  MaxQuedas = 1
  MaxDemoras = 1
  Int32Max = 3
SYMMETRY Simetria
INVARIANTS
  SisTypeOK
  AoMaisUmaVez
  RespostaVerdadeira
  UmPostDerrubaUm
