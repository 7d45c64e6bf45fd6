----------------------------- MODULE SomaProofs -----------------------------
(***************************************************************************)
(* What a sum over a finite set is worth, for every set of rows: the query *)
(* that closes init.sql adds the credits and subtracts the debits of one   *)
(* client's rows, and the balance of the table is compared with it.        *)
(*                                                                         *)
(* A sum is a fold, so what is said of it needs induction on the number of *)
(* rows.  The induction is done with sets: a set of naturals that is not   *)
(* empty has a least element (MenorElemento), hence one that contains 0    *)
(* and the successor of each of its elements is Nat (Inducao).             *)
(***************************************************************************)
EXTENDS Entidades, WellFoundedInduction, FiniteSetTheorems, TLAPS

LEMMA MenorElemento ==
  ASSUME NEW T, T \subseteq Nat, T # {}
  PROVE  \E n \in T : \A m \in T : n <= m
<1>. DEFINE R == {ss \in Nat \X Nat : ss[1] < ss[2]}
<1>0. IsWellFoundedOn(R, Nat)
  BY NatLessThanWellFounded DEF OpToRel
<1>1. \A x, y \in Nat : y < x => <<y, x>> \in R
  OBVIOUS
<1>. HIDE DEF R
<1>2. PICK n \in T : \A m \in T : ~ (<<m, n>> \in R)
  BY <1>0, WFMin
<1>3. \A m \in T : ~(m < n)
  BY <1>1, <1>2
<1>. QED BY <1>3

LEMMA Inducao ==
  ASSUME NEW S, S \subseteq Nat, 0 \in S, \A n \in S : n + 1 \in S
  PROVE  S = Nat
<1>1. SUFFICES ASSUME Nat \ S # {} PROVE FALSE
  OBVIOUS
<1>2. PICK n \in Nat \ S : \A m \in Nat \ S : n <= m
  BY <1>1, MenorElemento
<1>3. n # 0 /\ n - 1 \in Nat /\ n - 1 \in S
  BY <1>2
<1>4. (n - 1) + 1 \in S
  BY <1>3
<1>. QED BY <1>2, <1>4

-----------------------------------------------------------------------------
(* The sum of f over S, and the table of partial sums it is read from: the *)
(* one over the subsets of S that adds, to the sum of the others, the      *)
(* value of an element that is chosen.                                     *)
SomaDe(f, S) == MapThenSumSet(LAMBDA x : f[x], S)

Escolhido(s) == CHOOSE x \in s : TRUE

Parciais(f, S, g) ==
  g = [s \in SUBSET S |->
         IF s = {} THEN 0 ELSE f[Escolhido(s)] + g[s \ {Escolhido(s)}]]

Inteira(f, S) == \A x \in S : f[x] \in Int

LEMMA EscolhidoPertence ==
  ASSUME NEW s, s # {}
  PROVE  Escolhido(s) \in s
  BY DEF Escolhido

(* What is left of a finite set without one of its elements.               *)
LEMMA MenosUm ==
  ASSUME NEW s, IsFiniteSet(s), NEW x \in s
  PROVE  /\ IsFiniteSet(s \ {x})
         /\ Cardinality(s) \in Nat
         /\ Cardinality(s \ {x}) = Cardinality(s) - 1
         /\ Cardinality(s) # 0
<1>1. Cardinality(s) \in Nat /\ s # {}
  BY FS_CardinalityType
<1>. QED BY <1>1, FS_RemoveElement, FS_EmptySet

(* The table exists.  It is filled by size: one that is right for the sets *)
(* of at most n elements gives one that is right for n + 1.                *)
LEMMA ParciaisExiste ==
  ASSUME NEW S, IsFiniteSet(S), NEW f, Inteira(f, S)
  PROVE  \E g \in [SUBSET S -> Int] : Parciais(f, S, g)
<1>. DEFINE Certa(g, n) ==
       \A s \in SUBSET S :
         Cardinality(s) <= n =>
           g[s] = IF s = {} THEN 0
                  ELSE f[Escolhido(s)] + g[s \ {Escolhido(s)}]
<1>. DEFINE N == {n \in Nat : \E g \in [SUBSET S -> Int] : Certa(g, n)}
<1>0. \A s \in SUBSET S : IsFiniteSet(s) /\ Cardinality(s) \in Nat
  BY FS_Subset, FS_CardinalityType
<1>1. 0 \in N
  <2>. DEFINE g == [s \in SUBSET S |-> 0]
  <2>1. g \in [SUBSET S -> Int]
    OBVIOUS
  <2>2. \A s \in SUBSET S : Cardinality(s) <= 0 => s = {}
    BY <1>0, FS_EmptySet
  <2>3. Certa(g, 0)
    BY <2>2
  <2>. QED BY <2>1, <2>3
<1>2. ASSUME NEW n \in N
      PROVE  n + 1 \in N
  <2>1. PICK g \in [SUBSET S -> Int] : Certa(g, n)
    OBVIOUS
  <2>. DEFINE h ==
         [s \in SUBSET S |->
            IF s = {} THEN 0 ELSE f[Escolhido(s)] + g[s \ {Escolhido(s)}]]
  <2>2. h \in [SUBSET S -> Int]
    BY EscolhidoPertence DEF Inteira
  <2>3. ASSUME NEW s \in SUBSET S, Cardinality(s) <= n + 1, s # {}
        PROVE  h[s] = f[Escolhido(s)] + h[s \ {Escolhido(s)}]
    <3>. DEFINE r == s \ {Escolhido(s)}
    <3>1. r \in SUBSET S /\ Cardinality(r) <= n
      BY <1>0, <2>3, EscolhidoPertence, MenosUm
    <3>2. g[r] = IF r = {} THEN 0 ELSE f[Escolhido(r)] + g[r \ {Escolhido(r)}]
      BY <2>1, <3>1
    <3>3. h[r] = g[r]
      BY <3>1, <3>2
    <3>. QED BY <2>3, <3>3
  <2>4. Certa(h, n + 1)
    <3>. HIDE DEF h
    <3>1. h[{}] = 0
      BY DEF h
    <3>. QED BY <2>3, <3>1
  <2>5. \E k \in [SUBSET S -> Int] : Certa(k, n + 1)
    <3>. HIDE DEF h, Certa
    <3>. QED BY <2>2, <2>4
  <2>6. n + 1 \in Nat
    OBVIOUS
  <2>. QED BY ONLY <2>5, <2>6, Zenon
<1>. HIDE DEF N
<1>3. N = Nat
  BY <1>1, <1>2, Inducao DEF N
<1>4. PICK g \in [SUBSET S -> Int] : Certa(g, Cardinality(S))
  BY <1>0, <1>3 DEF N
<1>5. \A s \in SUBSET S : Cardinality(s) <= Cardinality(S)
  BY FS_Subset
<1>6. Parciais(f, S, g)
  BY <1>4, <1>5 DEF Parciais
<1>. QED BY <1>6

(* Two tables agree on a set on which the functions do.                    *)
LEMMA ParciaisUnicas ==
  ASSUME NEW S, NEW f, NEW g, Parciais(f, S, g),
         NEW T, NEW h, NEW k, Parciais(h, T, k),
         NEW U, IsFiniteSet(U), U \subseteq S, U \subseteq T,
         \A x \in U : f[x] = h[x]
  PROVE  g[U] = k[U]
<1>. DEFINE N == {n \in Nat : \A u \in SUBSET U :
                    Cardinality(u) = n => g[u] = k[u]}
<1>0. \A s \in SUBSET U : IsFiniteSet(s) /\ Cardinality(s) \in Nat
  BY FS_Subset, FS_CardinalityType
<1>1. 0 \in N
  <2>1. \A u \in SUBSET U : Cardinality(u) = 0 => u = {}
    BY <1>0, FS_EmptySet
  <2>2. g[{}] = 0 /\ k[{}] = 0
    BY DEF Parciais
  <2>. QED BY <2>1, <2>2
<1>2. ASSUME NEW n \in N
      PROVE  n + 1 \in N
  <2>. SUFFICES ASSUME NEW u \in SUBSET U, Cardinality(u) = n + 1
                PROVE  g[u] = k[u]
    OBVIOUS
  <2>. DEFINE r == u \ {Escolhido(u)}
  <2>0. n \in Nat /\ n + 1 # 0
    OBVIOUS
  <2>1. u # {}
    BY <2>0, FS_EmptySet
  <2>2. Escolhido(u) \in u /\ r \in SUBSET U /\ Cardinality(r) = n
    BY <1>0, <2>1, EscolhidoPertence, MenosUm
  <2>3. g[u] = f[Escolhido(u)] + g[r]
    BY <2>1 DEF Parciais
  <2>4. k[u] = h[Escolhido(u)] + k[r]
    BY <2>1 DEF Parciais
  <2>5. g[r] = k[r]
    BY <2>2
  <2>. QED BY <2>2, <2>3, <2>4, <2>5
<1>. HIDE DEF N
<1>3. N = Nat
  BY <1>1, <1>2, Inducao DEF N
<1>. QED BY <1>0, <1>3 DEF N

(* The sum is read from a table, and from any table.                       *)
LEMMA SomaDeParciais ==
  ASSUME NEW S, IsFiniteSet(S), NEW f, Inteira(f, S)
  PROVE  \E g \in [SUBSET S -> Int] : Parciais(f, S, g) /\ SomaDe(f, S) = g[S]
<1>. DEFINE e == CHOOSE g : Parciais(f, S, g)
<1>1. PICK k \in [SUBSET S -> Int] : Parciais(f, S, k)
  BY ParciaisExiste
<1>2. Parciais(f, S, e)
  BY <1>1
<1>3. SomaDe(f, S) = e[S]
  BY DEF SomaDe, MapThenSumSet, MapThenFoldSet, Parciais, Escolhido
<1>. HIDE DEF e
<1>4. \A s \in SUBSET S : e[s] = k[s]
  BY <1>1, <1>2, FS_Subset, ParciaisUnicas
<1>. QED BY <1>1, <1>3, <1>4

LEMMA SomaDeTipo ==
  ASSUME NEW S, IsFiniteSet(S), NEW f, Inteira(f, S)
  PROVE  SomaDe(f, S) \in Int
<1>1. PICK g \in [SUBSET S -> Int] : Parciais(f, S, g) /\ SomaDe(f, S) = g[S]
  BY SomaDeParciais
<1>2. S \in SUBSET S
  OBVIOUS
<1>. QED BY <1>1, <1>2

LEMMA SomaDeVazia ==
  ASSUME NEW f
  PROVE  SomaDe(f, {}) = 0
  BY FS_EmptySet, SomaDeParciais DEF Inteira, Parciais

(* The sum depends on the values of the elements only.                     *)
LEMMA SomaDeIgual ==
  ASSUME NEW S, IsFiniteSet(S), NEW f, Inteira(f, S),
         NEW h, \A x \in S : f[x] = h[x]
  PROVE  SomaDe(f, S) = SomaDe(h, S)
<1>1. Inteira(h, S)
  BY DEF Inteira
<1>2. PICK g \in [SUBSET S -> Int] : Parciais(f, S, g) /\ SomaDe(f, S) = g[S]
  BY SomaDeParciais
<1>3. PICK k \in [SUBSET S -> Int] : Parciais(h, S, k) /\ SomaDe(h, S) = k[S]
  BY <1>1, SomaDeParciais
<1>. QED BY <1>2, <1>3, ParciaisUnicas

(* The chosen element can be taken out, and so can any other.              *)
LEMMA SomaDeEscolhido ==
  ASSUME NEW S, IsFiniteSet(S), NEW f, Inteira(f, S), S # {}
  PROVE  SomaDe(f, S) = f[Escolhido(S)] + SomaDe(f, S \ {Escolhido(S)})
<1>. DEFINE R == S \ {Escolhido(S)}
<1>1. IsFiniteSet(R) /\ Inteira(f, R)
  BY FS_Subset DEF Inteira
<1>2. PICK g \in [SUBSET S -> Int] : Parciais(f, S, g) /\ SomaDe(f, S) = g[S]
  BY SomaDeParciais
<1>3. PICK k \in [SUBSET R -> Int] : Parciais(f, R, k) /\ SomaDe(f, R) = k[R]
  BY <1>1, SomaDeParciais
<1>4. g[R] = k[R]
  BY <1>1, <1>2, <1>3, ParciaisUnicas
<1>5. g[S] = f[Escolhido(S)] + g[R]
  <2>1. S \in SUBSET S
    OBVIOUS
  <2>. QED BY <1>2, <2>1 DEF Parciais
<1>. QED BY <1>2, <1>3, <1>4, <1>5

LEMMA SomaDeTira ==
  ASSUME NEW S, IsFiniteSet(S), NEW f, Inteira(f, S), NEW x \in S
  PROVE  SomaDe(f, S) = f[x] + SomaDe(f, S \ {x})
<1>. DEFINE N == {n \in Nat : \A s \in SUBSET S : \A y \in s :
                    Cardinality(s) = n =>
                      SomaDe(f, s) = f[y] + SomaDe(f, s \ {y})}
<1>0. \A s \in SUBSET S :
        IsFiniteSet(s) /\ Cardinality(s) \in Nat /\ Inteira(f, s)
  BY FS_Subset, FS_CardinalityType DEF Inteira
<1>1. 0 \in N
  <2>1. \A s \in SUBSET S : Cardinality(s) = 0 => s = {}
    BY <1>0, FS_EmptySet
  <2>. QED BY <2>1
<1>2. ASSUME NEW n \in N
      PROVE  n + 1 \in N
  <2>. SUFFICES ASSUME NEW s \in SUBSET S, NEW y \in s, Cardinality(s) = n + 1
                PROVE  SomaDe(f, s) = f[y] + SomaDe(f, s \ {y})
    OBVIOUS
  <2>. DEFINE e == Escolhido(s)
  <2>1. e \in s /\ SomaDe(f, s) = f[e] + SomaDe(f, s \ {e})
    BY <1>0, EscolhidoPertence, SomaDeEscolhido
  <2>. HIDE DEF e
  <2>2. CASE y = e
    BY <2>1, <2>2
  <2>3. CASE y # e
    <3>1. /\ y \in s \ {e} /\ s \ {e} \in SUBSET S
          /\ e \in s \ {y} /\ s \ {y} \in SUBSET S
      BY <2>1, <2>3
    <3>2. Cardinality(s \ {e}) = n /\ Cardinality(s \ {y}) = n
      BY <1>0, <2>1, MenosUm
    <3>3. SomaDe(f, s \ {e}) = f[y] + SomaDe(f, (s \ {e}) \ {y})
      BY <3>1, <3>2
    <3>4. SomaDe(f, s \ {y}) = f[e] + SomaDe(f, (s \ {y}) \ {e})
      BY <3>1, <3>2
    <3>. DEFINE resto == SomaDe(f, (s \ {y}) \ {e})
    <3>5. (s \ {e}) \ {y} = (s \ {y}) \ {e}
      OBVIOUS
    <3>6. f[e] \in Int /\ f[y] \in Int /\ resto \in Int
      BY <1>0, <2>1, <3>1, SomaDeTipo DEF Inteira
    <3>7. SomaDe(f, s) = f[e] + (f[y] + resto)
      BY <2>1, <3>3, <3>5
    <3>. HIDE DEF N, resto
    <3>. QED BY <3>4, <3>6, <3>7 DEF resto
  <2>. QED BY <2>2, <2>3
<1>. HIDE DEF N
<1>3. N = Nat
  BY <1>1, <1>2, Inducao DEF N
<1>. QED BY <1>0, <1>3 DEF N

(* A sum is the sum of its two halves.                                     *)
LEMMA SomaDeDivide ==
  ASSUME NEW S, IsFiniteSet(S), NEW f, Inteira(f, S), NEW T, T \subseteq S
  PROVE  SomaDe(f, S) = SomaDe(f, T) + SomaDe(f, S \ T)
<1>. DEFINE N == {n \in Nat : \A s \in SUBSET T :
                    Cardinality(s) = n =>
                      SomaDe(f, S) = SomaDe(f, s) + SomaDe(f, S \ s)}
<1>0. \A s \in SUBSET S : /\ IsFiniteSet(s) /\ Cardinality(s) \in Nat
                          /\ Inteira(f, s) /\ SomaDe(f, s) \in Int
  BY FS_Subset, FS_CardinalityType, SomaDeTipo DEF Inteira
<1>1. 0 \in N
  <2>1. \A s \in SUBSET T : Cardinality(s) = 0 => s = {}
    BY <1>0, FS_EmptySet
  <2>2. S \ {} = S
    OBVIOUS
  <2>. QED BY <1>0, <2>1, <2>2, SomaDeVazia
<1>2. ASSUME NEW n \in N
      PROVE  n + 1 \in N
  <2>. SUFFICES ASSUME NEW s \in SUBSET T, Cardinality(s) = n + 1
                PROVE  SomaDe(f, S) = SomaDe(f, s) + SomaDe(f, S \ s)
    OBVIOUS
  <2>0. n \in Nat /\ n + 1 # 0
    OBVIOUS
  <2>1. PICK x \in s : TRUE
    BY <2>0, FS_EmptySet
  <2>. DEFINE r == s \ {x}
  <2>2. Cardinality(r) = n /\ r \in SUBSET T
    BY <1>0, MenosUm
  <2>3. SomaDe(f, S) = SomaDe(f, r) + SomaDe(f, S \ r)
    BY <2>2
  <2>4. SomaDe(f, s) = f[x] + SomaDe(f, r)
    BY <1>0, SomaDeTira
  <2>5. (S \ r) \ {x} = S \ s /\ x \in S \ r
    OBVIOUS
  <2>6. SomaDe(f, S \ r) = f[x] + SomaDe(f, S \ s)
    BY <1>0, <2>5, SomaDeTira
  <2>7. f[x] \in Int /\ SomaDe(f, r) \in Int /\ SomaDe(f, S \ s) \in Int
    BY <1>0 DEF Inteira
  <2>. HIDE DEF r
  <2>. QED BY <2>3, <2>4, <2>6, <2>7
<1>. HIDE DEF N
<1>3. N = Nat
  BY <1>1, <1>2, Inducao DEF N
<1>. QED BY <1>0, <1>3 DEF N

(* A sum of credits is not negative.                                       *)
LEMMA SomaDeNatural ==
  ASSUME NEW S, IsFiniteSet(S), NEW f, \A x \in S : f[x] \in Nat
  PROVE  SomaDe(f, S) >= 0
<1>. DEFINE N == {n \in Nat : \A s \in SUBSET S :
                    Cardinality(s) = n => SomaDe(f, s) \in Nat}
<1>0. \A s \in SUBSET S : /\ IsFiniteSet(s) /\ Cardinality(s) \in Nat
                          /\ Inteira(f, s)
  BY FS_Subset, FS_CardinalityType DEF Inteira
<1>1. 0 \in N
  <2>1. \A s \in SUBSET S : Cardinality(s) = 0 => s = {}
    BY <1>0, FS_EmptySet
  <2>. QED BY <2>1, SomaDeVazia
<1>2. ASSUME NEW n \in N
      PROVE  n + 1 \in N
  <2>. SUFFICES ASSUME NEW s \in SUBSET S, Cardinality(s) = n + 1
                PROVE  SomaDe(f, s) \in Nat
    OBVIOUS
  <2>0. n \in Nat /\ n + 1 # 0
    OBVIOUS
  <2>1. PICK x \in s : TRUE
    BY <2>0, FS_EmptySet
  <2>2. Cardinality(s \ {x}) = n
    BY <1>0, MenosUm
  <2>3. SomaDe(f, s \ {x}) \in Nat
    BY <2>2
  <2>4. SomaDe(f, s) = f[x] + SomaDe(f, s \ {x})
    BY <1>0, SomaDeTira
  <2>. QED BY <2>3, <2>4
<1>. HIDE DEF N
<1>3. N = Nat
  BY <1>1, <1>2, Inducao DEF N
<1>4. SomaDe(f, S) \in Nat
  BY <1>0, <1>3 DEF N
<1>. QED BY <1>4

-----------------------------------------------------------------------------
(* The same of Soma, the sum of the effects of a set of rows.              *)
ComEfeito(T) == IsFiniteSet(T) /\ \A t \in T : Efeito(t) \in Int

LEMMA SomaComo ==
  ASSUME NEW T, ComEfeito(T), NEW f, \A t \in T : f[t] = Efeito(t)
  PROVE  Soma(T) = SomaDe(f, T)
<1>. DEFINE Tabela(g) ==
       g = [s \in SUBSET T |->
              IF s = {} THEN 0
              ELSE Efeito(Escolhido(s)) + g[s \ {Escolhido(s)}]]
<1>. DEFINE e == CHOOSE g : Tabela(g)
<1>1. Inteira(f, T)
  BY DEF ComEfeito, Inteira
<1>2. \A s \in SUBSET T : s # {} => f[Escolhido(s)] = Efeito(Escolhido(s))
  BY EscolhidoPertence
<1>3. \A g : Tabela(g) <=> Parciais(f, T, g)
  BY <1>2 DEF Parciais
<1>4. PICK k \in [SUBSET T -> Int] : Parciais(f, T, k) /\ SomaDe(f, T) = k[T]
  BY <1>1, SomaDeParciais DEF ComEfeito
<1>5. Tabela(e)
  <2>1. Tabela(k)
    BY <1>3, <1>4
  <2>. HIDE DEF Tabela
  <2>. QED BY <2>1
<1>6. Soma(T) = e[T]
  BY DEF Soma, MapThenSumSet, MapThenFoldSet, Escolhido
<1>. HIDE DEF e, Tabela
<1>7. Parciais(f, T, e)
  BY <1>3, <1>5
<1>8. e[T] = k[T]
  BY <1>4, <1>7, ParciaisUnicas DEF ComEfeito
<1>. QED BY <1>4, <1>6, <1>8

LEMMA SomaTipo ==
  ASSUME NEW T, ComEfeito(T)
  PROVE  Soma(T) \in Int
<1>. DEFINE f == [t \in T |-> Efeito(t)]
<1>1. Soma(T) = SomaDe(f, T)
  BY SomaComo
<1>2. Inteira(f, T)
  BY DEF ComEfeito, Inteira
<1>. QED BY <1>1, <1>2, SomaDeTipo DEF ComEfeito

LEMMA SomaVazia == ComEfeito({}) /\ Soma({}) = 0
<1>1. ComEfeito({})
  BY FS_EmptySet DEF ComEfeito
<1>. DEFINE f == [t \in {} |-> 0]
<1>2. Soma({}) = SomaDe(f, {})
  BY <1>1, SomaComo
<1>. QED BY <1>1, <1>2, SomaDeVazia

(* A sum is the sum over a part of its rows and over the others.           *)
LEMMA SomaDivide ==
  ASSUME NEW T, ComEfeito(T), NEW S, S \subseteq T
  PROVE  /\ ComEfeito(S) /\ ComEfeito(T \ S)
         /\ Soma(T) = Soma(S) + Soma(T \ S)
<1>. DEFINE f == [t \in T |-> Efeito(t)]
<1>1. ComEfeito(S) /\ ComEfeito(T \ S)
  BY FS_Subset DEF ComEfeito
<1>2. Inteira(f, T)
  BY DEF ComEfeito, Inteira
<1>3. \A t \in T : f[t] = Efeito(t)
  OBVIOUS
<1>. HIDE DEF f
<1>4. Soma(T) = SomaDe(f, T)
  BY <1>3, SomaComo
<1>5. Soma(S) = SomaDe(f, S)
  BY <1>1, <1>3, SomaComo
<1>6. Soma(T \ S) = SomaDe(f, T \ S)
  BY <1>1, <1>3, SomaComo
<1>. QED BY <1>1, <1>2, <1>4, <1>5, <1>6, SomaDeDivide DEF ComEfeito

(* A new row adds its effect.                                              *)
LEMMA SomaMais ==
  ASSUME NEW T, ComEfeito(T), NEW x, x \notin T, Efeito(x) \in Int
  PROVE  ComEfeito(T \cup {x}) /\ Soma(T \cup {x}) = Soma(T) + Efeito(x)
<1>. DEFINE U == T \cup {x}
<1>. DEFINE f == [t \in U |-> Efeito(t)]
<1>1. ComEfeito(U)
  BY FS_AddElement DEF ComEfeito
<1>2. Inteira(f, U)
  BY DEF ComEfeito, Inteira
<1>3. \A t \in U : f[t] = Efeito(t)
  OBVIOUS
<1>4. U \ {x} = T /\ x \in U /\ \A t \in T : t \in U
  OBVIOUS
<1>. HIDE DEF f, U
<1>5. Soma(U) = SomaDe(f, U)
  BY <1>1, <1>3, SomaComo
<1>6. Soma(T) = SomaDe(f, T)
  BY <1>3, <1>4, SomaComo
<1>7. SomaDe(f, U) = f[x] + SomaDe(f, T)
  BY <1>1, <1>2, <1>4, SomaDeTira DEF ComEfeito
<1>8. Soma(T) \in Int /\ f[x] = Efeito(x)
  BY <1>3, <1>4, SomaTipo
<1>9. ComEfeito(U) /\ Soma(U) = Soma(T) + Efeito(x)
  BY <1>1, <1>5, <1>6, <1>7, <1>8
<1>. QED BY <1>9 DEF U

(* Rows that are all credits do not lower a sum.                           *)
LEMMA SomaCresce ==
  ASSUME NEW T, ComEfeito(T), NEW S, S \subseteq T,
         \A t \in T \ S : Efeito(t) >= 0
  PROVE  Soma(S) <= Soma(T)
<1>. DEFINE R == T \ S
<1>. DEFINE f == [t \in R |-> Efeito(t)]
<1>1. ComEfeito(S) /\ ComEfeito(R) /\ Soma(T) = Soma(S) + Soma(R)
  BY SomaDivide
<1>2. \A t \in R : f[t] = Efeito(t) /\ f[t] \in Nat
  BY <1>1 DEF ComEfeito
<1>. HIDE DEF f, R
<1>3. Soma(R) = SomaDe(f, R)
  BY <1>1, <1>2, SomaComo
<1>4. Soma(R) >= 0
  BY <1>1, <1>2, <1>3, SomaDeNatural DEF ComEfeito
<1>5. Soma(S) \in Int /\ Soma(R) \in Int
  BY <1>1, SomaTipo
<1>. QED BY <1>1, <1>4, <1>5
=============================================================================
