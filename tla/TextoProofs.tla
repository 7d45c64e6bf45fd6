----------------------------- MODULE TextoProofs -----------------------------
(***************************************************************************)
(* Theorems about the descriptions of transactions, for every set of texts *)
(* and every length of the column: what strzcpy keeps, and that what the   *)
(* database and the extratos hold is what the clients sent.                *)
(***************************************************************************)
EXTENDS ClienteControllerProofs, FiniteSetTheorems

(* strzcpy keeps a prefix that fits, and everything if everything fits.    *)
LEMMA StrzcpyPrefixo ==
  ASSUME NEW s \in Seq(Bytes), NEW size \in Nat
  PROVE  /\ Prefixo(strzcpy(s, size), s)
         /\ Len(strzcpy(s, size)) <= size
         /\ Len(s) <= size => strzcpy(s, size) = s
         /\ strzcpy(s, size) # s => Len(strzcpy(s, size)) = size
<1>1. CASE Len(s) <= size
  <2>1. strzcpy(s, size) = s
    BY <1>1 DEF strzcpy
  <2>. QED BY <1>1, <2>1 DEF Prefixo
<1>2. CASE Len(s) > size
  <2>1. strzcpy(s, size) = SubSeq(s, 1, size) /\ Len(strzcpy(s, size)) = size
    BY <1>2 DEF strzcpy
  <2>. QED BY <1>2, <2>1 DEF Prefixo
<1>. QED BY <1>1, <1>2

LEMMA StrzcpyDuasVezes ==
  ASSUME NEW s \in Seq(Bytes), NEW size \in Nat
  PROVE  strzcpy(strzcpy(s, size), size) = strzcpy(s, size)
  BY StrzcpyPrefixo, StrzcpyTipo

LEMMA CaracteresTipo ==
  ASSUME NEW s \in Seq(Bytes)
  PROVE  /\ IsFiniteSet({k \in DOMAIN s : s[k] # 0})
         /\ string_util_utf8_strlen(s) \in Nat
<1>. DEFINE S == {k \in DOMAIN s : s[k] # 0}
<1>1. IsFiniteSet(1..Len(s))
  BY FS_Interval
<1>2. S \subseteq 1..Len(s)
  OBVIOUS
<1>3. IsFiniteSet(S)
  BY <1>1, <1>2, FS_Subset
<1>. QED BY <1>3, FS_CardinalityType DEF string_util_utf8_strlen

(* A copy has no more characters than the original.                        *)
LEMMA StrzcpyCaracteres ==
  ASSUME NEW s \in Seq(Bytes), NEW size \in Nat
  PROVE  string_util_utf8_strlen(strzcpy(s, size)) <= string_util_utf8_strlen(s)
<1>. DEFINE p == strzcpy(s, size)
<1>. DEFINE S == {k \in DOMAIN s : s[k] # 0}
<1>. DEFINE P == {k \in DOMAIN p : p[k] # 0}
<1>1. p \in Seq(Bytes) /\ Prefixo(p, s)
  BY StrzcpyTipo, StrzcpyPrefixo
<1>2. \A k \in DOMAIN p : k \in DOMAIN s /\ p[k] = s[k]
  BY <1>1 DEF Prefixo
<1>3. P \subseteq S
  BY <1>2
<1>4. IsFiniteSet(S)
  BY CaracteresTipo
<1>5. Cardinality(P) <= Cardinality(S)
  BY <1>3, <1>4, FS_Subset
<1>. QED BY <1>5 DEF string_util_utf8_strlen

-----------------------------------------------------------------------------
(* The texts in the database were accepted by the server's parser.         *)
TextosNoBanco ==
  /\ \A t \in transacao : TextoAceito(t.descricao)
  /\ \A k \in Conexoes :
       estado[k] \in {"iniciada", "alterada"} => TextoAceito(cmd[k].descricao)

(* A message lost for its text has a text to lose it for.                  *)
TextosRecusados ==
  \A r \in aceitas :
    /\ CabeEmVarchar(r.descricao)
    /\ [num |-> r.num, motivo |-> "descricao"] \in perdidas =>
         ~TextoAceito(strzcpy(r.descricao, UTF8_TRANSACAO_DESCRICAO_LEN))
    /\ [num |-> r.num, motivo |-> "varchar"] \notin perdidas

(* What an extrato shows is what was accepted, copied.                     *)
TextosLidos ==
  \A a \in Apis : \A t \in extrato[a].lista :
    /\ t.num \in 1..enviados
    /\ \A r \in aceitas :
         t.num = r.num =>
           /\ t.descricao = strzcpy(r.descricao, UTF8_TRANSACAO_DESCRICAO_LEN)
           /\ TextoAceito(t.descricao)

LEMMA TextosNoBancoPasso ==
  ASSUME Coerente, Numeros, TextosNoBanco, [PgNext]_pgVars
  PROVE  TextosNoBanco'
<1>. USE DEF TextosNoBanco
<1>0. /\ estado \in [Conexoes -> Estados]
      /\ cmd \in [Conexoes -> Comandos \cup {SemComando}]
  BY DEF Coerente, PgTypeOK
<1>1. ASSUME NEW k \in Conexoes, NEW t \in Comandos, Recebe(k, t) \/ Descarta(k, t)
      PROVE  TextosNoBanco'
  BY <1>0, <1>1 DEF Recebe, Descarta, Tabelas
<1>2. ASSUME NEW k \in Conexoes, NEW motivo, Falha(k, motivo)
      PROVE  TextosNoBanco'
  BY <1>0, <1>2 DEF Falha, Tabelas
<1>3. ASSUME NEW k \in Conexoes,
             \/ RecusaTexto(k) \/ RecusaBigint(k) \/ RecusaSaldo(k)
             \/ RecusaValor(k)
      PROVE  TextosNoBanco'
  BY <1>2, <1>3 DEF RecusaTexto, RecusaBigint, RecusaSaldo, RecusaValor
<1>4. ASSUME NEW k \in Conexoes, Inicia(k) \/ Atualiza(k) \/ Reconecta(k)
      PROVE  TextosNoBanco'
  BY <1>0, <1>4 DEF Inicia, Atualiza, Reconecta, Tabelas
<1>5. ASSUME NEW k \in Conexoes, Grava(k)
      PROVE  TextosNoBanco'
  BY <1>0, <1>5 DEF Grava, NovaLinha
<1>6. CASE Descarrega \/ UNCHANGED pgVars
  BY <1>6 DEF Descarrega, pgVars
<1>7. CASE Queda
  BY <1>7 DEF Queda, Numeros, NumerosUnicos
<1>. QED
  BY <1>1, <1>3, <1>4, <1>5, <1>6, <1>7 DEF PgNext, Executa, Pede

(* Why the database gives up on a message.                                 *)
LEMMA PerdasNovas ==
  ASSUME Coerente, [PgNext]_pgVars, NEW q \in perdidas', q \notin perdidas
  PROVE  \/ q.motivo \notin {"descricao", "varchar"}
         \/ \E k \in Conexoes :
              /\ EmVoo(k)
              /\ q.num = cmd[k].num
              /\ q.motivo = "descricao" => ~TextoAceito(cmd[k].descricao)
              /\ q.motivo = "varchar" => ~CabeEmVarchar(cmd[k].descricao)
<1>1. ASSUME NEW k \in Conexoes, NEW t \in Comandos, Recebe(k, t) \/ Descarta(k, t)
      PROVE  q.motivo = "queda"
  BY <1>1 DEF Recebe, Descarta
<1>2. ASSUME NEW k \in Conexoes, RecusaTexto(k)
      PROVE  EmVoo(k) /\ q = [num |-> cmd[k].num, motivo |-> "descricao"]
             /\ ~TextoAceito(cmd[k].descricao)
  BY <1>2 DEF RecusaTexto, Falha, Coerente, SessoesCoerentes
<1>3. ASSUME NEW k \in Conexoes, RecusaBigint(k) \/ RecusaSaldo(k)
      PROVE  q.motivo \in {"bigint", "chk_saldo"}
  BY <1>3 DEF RecusaBigint, RecusaSaldo, Falha
<1>4. ASSUME NEW k \in Conexoes, RecusaValor(k)
      PROVE  \/ q.motivo = "integer"
             \/ /\ EmVoo(k) /\ q = [num |-> cmd[k].num, motivo |-> "varchar"]
                /\ ~CabeEmVarchar(cmd[k].descricao)
  BY <1>4 DEF RecusaValor, Falha, Coerente, SessoesCoerentes
<1>5. ASSUME NEW k \in Conexoes,
             Inicia(k) \/ Atualiza(k) \/ Reconecta(k) \/ Grava(k)
      PROVE  FALSE
  BY <1>5 DEF Inicia, Atualiza, Reconecta, Grava, Tabelas
<1>6. CASE Descarrega \/ UNCHANGED pgVars
  BY <1>6 DEF Descarrega, pgVars
<1>7. CASE Queda
  <2>1. q.motivo = "queda"
    BY <1>7 DEF Queda
  <2>. QED BY <2>1
<1>. QED
  BY <1>1, <1>2, <1>3, <1>4, <1>5, <1>6, <1>7 DEF PgNext, Executa, Pede

(* A step accepts at most one transaction, under a new number, with a      *)
(* description of at most TRANSACAO_DESCRICAO_LEN characters.              *)
LEMMA AceitasNovas ==
  ASSUME Base, [Next]_vars, NEW r \in aceitas', r \notin aceitas
  PROVE  /\ r.num = enviados + 1
         /\ CabeEmVarchar(r.descricao)
         /\ \A q \in perdidas' : q \in perdidas \/ q.motivo = "queda"
         /\ UNCHANGED extrato
<1>1. PICK a \in Apis : SaveAsync(a)
  BY DEF Next, Chega, SaveTransacao, FindById, RecebePedido, Atende, Conecta,
         RedefineConexao, FindOne, FindOneNull, LimiteExcedido, SaveAsyncFalse,
         FindLast10, FindLast10Null, RespondeExtrato, Sinal, Mata, EnviaEMorre,
         Desliga, Matado, Servidor, Ambiente, Fim, vars, apiVars
<1>2. r.num = enviados + 1 /\ r.descricao = pedido[a].descricao
  BY <1>1 DEF SaveAsync
<1>3. CabeEmVarchar(pedido[a].descricao)
  BY <1>1
  DEF SaveAsync, Base, TipoApi, PedidosValidados, TransacaoValida,
      is_descricao_transacao_valida, CabeEmVarchar
<1>4. /\ \A q \in perdidas' : q \in perdidas \/ q.motivo = "queda"
      /\ UNCHANGED extrato
  BY <1>1 DEF SaveAsync, db_execute_async_true, Recebe, Descarta
<1>. QED BY <1>2, <1>3, <1>4

LEMMA TextosRecusadosPasso ==
  ASSUME Base, Numeros, AceitasFieis, TextosRecusados, [Next]_vars
  PROVE  TextosRecusados'
<1>. DEFINE U == UTF8_TRANSACAO_DESCRICAO_LEN
<1>. SUFFICES ASSUME NEW r \in aceitas'
              PROVE  /\ CabeEmVarchar(r.descricao)
                     /\ [num |-> r.num, motivo |-> "descricao"] \in perdidas' =>
                          ~TextoAceito(strzcpy(r.descricao, U))
                     /\ [num |-> r.num, motivo |-> "varchar"] \notin perdidas'
  BY DEF TextosRecusados
<1>1. CASE r \notin aceitas
  <2>1. /\ r.num = enviados + 1 /\ CabeEmVarchar(r.descricao)
        /\ \A q \in perdidas' : q \in perdidas \/ q.motivo = "queda"
    BY <1>1, AceitasNovas
  <2>2. \A q \in perdidas : q.num # r.num
    BY <2>1 DEF Numeros, NumerosEnviados, Base, Coerente, PgTypeOK
  <2>. QED BY <2>1, <2>2
<1>2. CASE r \in aceitas
  <2>1. CabeEmVarchar(r.descricao)
    BY <1>2 DEF TextosRecusados
  <2>2. ASSUME NEW q \in perdidas', q.num = r.num,
               q = [num |-> r.num, motivo |-> "descricao"]
                 \/ q = [num |-> r.num, motivo |-> "varchar"]
        PROVE  /\ q.motivo = "descricao" /\ ~TextoAceito(strzcpy(r.descricao, U))
    <3>1. CASE q \in perdidas
      <4>1. CASE q = [num |-> r.num, motivo |-> "descricao"]
        <5>1. q.motivo = "descricao"
          BY <4>1
        <5>. QED BY <1>2, <3>1, <4>1, <5>1 DEF TextosRecusados
      <4>2. CASE q = [num |-> r.num, motivo |-> "varchar"]
        BY <1>2, <3>1, <4>2 DEF TextosRecusados
      <4>. QED BY <2>2, <4>1, <4>2
    <3>2. CASE q \notin perdidas
      <4>1. PICK k \in Conexoes :
              /\ EmVoo(k)
              /\ q.num = cmd[k].num
              /\ q.motivo = "descricao" => ~TextoAceito(cmd[k].descricao)
              /\ q.motivo = "varchar" => ~CabeEmVarchar(cmd[k].descricao)
        BY <2>2, <3>2, BasePasso, PerdasNovas DEF Base
      <4>2. cmd[k].descricao = strzcpy(r.descricao, U)
        BY <1>2, <2>2, <4>1 DEF AceitasFieis, Presentes
      <4>3. r.descricao \in Seq(Bytes) /\ U \in Nat
        BY <1>2, TextosAssumption
        DEF Base, TipoApi, TypeOK, Aceitas, UTF8_TRANSACAO_DESCRICAO_LEN
      <4>4. CabeEmVarchar(strzcpy(r.descricao, U))
        <5>. DEFINE n(s) == string_util_utf8_strlen(s)
        <5>1. n(strzcpy(r.descricao, U)) <= n(r.descricao)
          BY <4>3, StrzcpyCaracteres
        <5>2. n(r.descricao) \in Nat /\ n(strzcpy(r.descricao, U)) \in Nat
          BY <4>3, StrzcpyTipo, CaracteresTipo
        <5>. QED BY <2>1, <5>1, <5>2, TextosAssumption DEF CabeEmVarchar
      <4>. QED BY <2>2, <4>1, <4>2, <4>4
    <3>. QED BY <3>1, <3>2
  <2>. QED BY <2>1, <2>2
<1>. QED BY <1>1, <1>2

LEMMA TextosLidosPasso ==
  ASSUME Base, Numeros, AceitasFieis, TextosNoBanco, TextosLidos, [Next]_vars
  PROVE  TextosLidos'
<1>. DEFINE U == UTF8_TRANSACAO_DESCRICAO_LEN
<1>1. ASSUME NEW t \in transacao
      PROVE  /\ t.num \in 1..enviados
             /\ \A r \in aceitas :
                  t.num = r.num =>
                    /\ strzcpy(t.descricao, U) = strzcpy(r.descricao, U)
                    /\ TextoAceito(strzcpy(t.descricao, U))
  <2>1. t.num \in 1..enviados /\ TextoAceito(t.descricao)
    BY <1>1 DEF Numeros, NumerosEnviados, TextosNoBanco
  <2>2. ASSUME NEW r \in aceitas, t.num = r.num
        PROVE  strzcpy(t.descricao, U) = t.descricao
               /\ t.descricao = strzcpy(r.descricao, U)
    <3>1. t.descricao = strzcpy(r.descricao, U)
      BY <1>1, <2>2 DEF AceitasFieis, Presentes
    <3>2. r.descricao \in Seq(Bytes) /\ U \in Nat
      BY TextosAssumption
      DEF Base, TipoApi, TypeOK, Aceitas, UTF8_TRANSACAO_DESCRICAO_LEN
    <3>. QED BY <3>1, <3>2, StrzcpyDuasVezes
  <2>. QED BY <2>1, <2>2
<1>2. /\ enviados \in Nat /\ enviados' \in Nat /\ enviados <= enviados'
      /\ extrato \in [Apis -> Extratos \cup {SemExtrato}]
  <2>1. enviados' = enviados \/ enviados' = enviados + 1
    BY BasePasso
    DEF PgNext, Executa, Pede, Recebe, Descarta, RecusaTexto, RecusaBigint,
        RecusaSaldo, RecusaValor, Falha, Inicia, Atualiza, Grava, Reconecta,
        Descarrega, Queda, pgVars
  <2>. QED BY <2>1 DEF Base, TipoApi, TypeOK, PgTypeOK
<1>3. ASSUME NEW a \in Apis, NEW t \in extrato[a].lista
      PROVE  /\ t.num \in 1..enviados'
             /\ \A r \in aceitas' :
                  t.num = r.num =>
                    t.descricao = strzcpy(r.descricao, U) /\ TextoAceito(t.descricao)
  <2>1. t.num \in 1..enviados
    BY <1>3 DEF TextosLidos
  <2>2. ASSUME NEW r \in aceitas', r \notin aceitas
        PROVE  r.num = enviados + 1
    BY <2>2, AceitasNovas
  <2>. QED BY <1>2, <1>3, <2>1, <2>2 DEF TextosLidos
<1>4. CASE UNCHANGED extrato
  BY <1>3, <1>4 DEF TextosLidos
<1>5. ASSUME NEW a \in Apis, FindLast10(a) \/ FindLast10Null(a)
      PROVE  TextosLidos'
  <2>1. UNCHANGED <<enviados, aceitas>>
    BY <1>5
    DEF FindLast10, FindLast10Null, RespondeExtrato, db_query_ok, db_query_null,
        dbVars, pgVars
  <2>2. PICK lista \in {UltimasTransacoes(pedido[a].id), {}} :
          RespondeExtrato(a, lista)
    BY <1>5 DEF FindLast10, FindLast10Null
  <2>3. /\ extrato'[a].lista = lista
        /\ \A b \in Apis : b # a => extrato'[b] = extrato[b]
    BY <1>2, <2>2 DEF RespondeExtrato
  <2>4. ASSUME NEW t \in lista
        PROVE  /\ t.num \in 1..enviados
               /\ \A r \in aceitas :
                    t.num = r.num =>
                      t.descricao = strzcpy(r.descricao, U) /\ TextoAceito(t.descricao)
    <3>1. PICK u \in transacao : t = [u EXCEPT !.descricao = strzcpy(@, U)]
      BY <2>4 DEF UltimasTransacoes, DoCliente
    <3>2. t.num = u.num /\ t.descricao = strzcpy(u.descricao, U)
      <4>1. u \in Linhas
        BY DEF Base, Coerente, PgTypeOK
      <4>. QED BY <3>1, <4>1 DEF Linhas
    <3>. QED BY <1>1, <3>2
  <2>. QED BY <1>3, <2>1, <2>3, <2>4 DEF TextosLidos
<1>6. UNCHANGED extrato \/ \E a \in Apis : FindLast10(a) \/ FindLast10Null(a)
  BY DEF Next, Chega, SaveTransacao, FindById, RecebePedido, Atende, Conecta,
         RedefineConexao, FindOne, FindOneNull, LimiteExcedido, SaveAsync,
         SaveAsyncFalse, Sinal, Mata, EnviaEMorre, Desliga, Matado, Servidor,
         Ambiente, Fim, vars, apiVars
<1>. QED BY <1>4, <1>5, <1>6

TextosFieis == TextosNoBanco /\ TextosRecusados /\ TextosLidos

LEMMA ApiTextos == Spec => [](Base /\ Numeros /\ Acordo /\ TextosFieis)
<1>1. Init => TextosFieis
  BY DEF Init, PgInit, TextosFieis, TextosNoBanco, TextosRecusados, TextosLidos,
         SemExtrato
<1>2. Base /\ Numeros /\ Acordo /\ TextosFieis /\ [Next]_vars => TextosFieis'
  BY BasePasso, TextosNoBancoPasso, TextosRecusadosPasso, TextosLidosPasso
  DEF Base, Acordo, TextosFieis
<1>. QED BY <1>1, <1>2, ApiAcordo, PTL DEF Spec

(* A copy that the server's parser accepts is faithful to its original.    *)
LEMMA CopiaFiel ==
  ASSUME NEW s \in Seq(Bytes),
         TextoAceito(strzcpy(s, UTF8_TRANSACAO_DESCRICAO_LEN))
  PROVE  DescricaoFiel(strzcpy(s, UTF8_TRANSACAO_DESCRICAO_LEN), s)
<1>1. UTF8_TRANSACAO_DESCRICAO_LEN \in Nat
  BY TextosAssumption DEF UTF8_TRANSACAO_DESCRICAO_LEN
<1>. QED BY <1>1, StrzcpyPrefixo DEF DescricaoFiel, TextoAceito

(* For every column length and every text: what the table and the extratos *)
(* hold is what the client sent, whole characters, cut only where the      *)
(* buffer of the struct ends; a text is lost only for its length in bytes, *)
(* never because the column is too short.  Textos without quotes: Texto    *)
(* has no byte for one.                                                    *)
THEOREM ApiTextoGuardado == Spec => []TextoGuardado
<1>1. Base /\ Acordo /\ TextosFieis => TextoGuardado
  <2>. DEFINE U == UTF8_TRANSACAO_DESCRICAO_LEN
  <2>. SUFFICES ASSUME Base, Acordo, TextosFieis, NEW r \in aceitas
                PROVE  /\ \A t \in transacao \cup UNION {extrato[a].lista : a \in Apis} :
                            t.num = r.num => DescricaoFiel(t.descricao, r.descricao)
                       /\ [num |-> r.num, motivo |-> "descricao"] \in perdidas =>
                            Len(r.descricao) > UTF8_TRANSACAO_DESCRICAO_LEN
                       /\ [num |-> r.num, motivo |-> "varchar"] \notin perdidas
    BY DEF TextoGuardado
  <2>1. /\ r.descricao \in Seq(Bytes) /\ Utf8Valido(r.descricao)
        /\ U \in Nat
    BY TextosAssumption
    DEF Base, TipoApi, TypeOK, Aceitas, UTF8_TRANSACAO_DESCRICAO_LEN
  <2>2. ASSUME NEW t \in transacao, t.num = r.num
        PROVE  DescricaoFiel(t.descricao, r.descricao)
    <3>1. t.descricao = strzcpy(r.descricao, U) /\ TextoAceito(t.descricao)
      BY <2>2 DEF Acordo, AceitasFieis, Presentes, TextosFieis, TextosNoBanco
    <3>. QED BY <2>1, <3>1, CopiaFiel
  <2>3. ASSUME NEW a \in Apis, NEW t \in extrato[a].lista, t.num = r.num
        PROVE  DescricaoFiel(t.descricao, r.descricao)
    <3>1. t.descricao = strzcpy(r.descricao, U) /\ TextoAceito(t.descricao)
      BY <2>3 DEF TextosFieis, TextosLidos
    <3>. QED BY <2>1, <3>1, CopiaFiel
  <2>4. ASSUME [num |-> r.num, motivo |-> "descricao"] \in perdidas,
               Len(r.descricao) <= U
        PROVE  FALSE
    <3>1. ~TextoAceito(strzcpy(r.descricao, U))
      BY <2>4 DEF TextosFieis, TextosRecusados
    <3>2. strzcpy(r.descricao, U) = r.descricao
      BY <2>1, <2>4, StrzcpyPrefixo
    <3>. QED BY <2>1, <3>1, <3>2 DEF TextoAceito
  <2>5. [num |-> r.num, motivo |-> "varchar"] \notin perdidas
    BY DEF TextosFieis, TextosRecusados
  <2>6. Len(r.descricao) \in Nat
    BY <2>1
  <2>. QED BY <2>1, <2>2, <2>3, <2>4, <2>5, <2>6
<1>. QED BY <1>1, ApiTextos, PTL
=============================================================================
