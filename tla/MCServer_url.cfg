SPECIFICATION Spec
CONSTANTS
  s1 = s1
  s2 = s2
  Sockets = {s1}
  Pedidos <- PedidosMC
  Alvo <- AlvoMC
  Roteiros <- RoteirosEncadeados
  Escuta = Escuta
  Livre = Livre
  SemPedido = SemPedido
  MaxCorpo = 2
  HTTP_REQUEST_URL_BUFFER_SIZE = 4
  HTTP_REQUEST_BODY_BUFFER_SIZE = 1
  SOCKET_MAX_POLL = 2
  SOCKET_MAX_QUEUED = 2
  SOCKET_MAX_READ_BUFFER = 6
  MAX_ROUTES = 10
INVARIANTS
  UrlDeUmPedido
