SPECIFICATION MCSpec
CONSTANTS
  k1 = k1
  k2 = k2
  Conexoes = {k1, k2}
  Clientes = {1, 2}
  Limite <- LimitesMC
  Valores = {1, 2}
  Textos <- TextosMC
  TRANSACAO_DESCRICAO_LEN = 1
  Livre = Livre
  SemComando = SemComando
  MaxInt4 = 1
  MaxInt8 = 2
  LimiteExtrato = 2
  MaxEnvios = 3
  MaxQuedas = 1
SYMMETRY Simetria
INVARIANTS
  PgTypeOK
  ChkSaldo
  Reconcilia
  TravaDisciplina
  Conservacao
  OrdemPropria
PROPERTY ImplementaLivro
