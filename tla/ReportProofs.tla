----------------------------- MODULE ReportProofs -----------------------------
(***************************************************************************)
(* The figures of the report add up, for every list of outcomes.  A sum is *)
(* the value of a function that is defined by recursion on sets; its       *)
(* existence, and that it does not depend on the order in which elements   *)
(* are taken, are proved here by an induction over the size of a set.      *)
(***************************************************************************)
EXTENDS Report, TLAPS, FiniteSetTheorems

-----------------------------------------------------------------------------
(* Induction, for the members of a set *)

\* A set that has 0 and every successor of its members has every number.
LEMMA Counting ==
    ASSUME NEW T, 0 \in T, \A n \in Nat : n \in T => n + 1 \in T
    PROVE  Nat \subseteq T
<1> SUFFICES ASSUME Nat \ T # {} PROVE FALSE
  OBVIOUS
<1> PICK M : M = Nat \ T
  OBVIOUS
<1>1. M \subseteq Nat /\ M # {}
  OBVIOUS
<1>2. PICK n \in M : \A m \in M : ~ (<<m, n>> \in OpToRel(<, Nat))
  BY ONLY <1>1, NatLessThanWellFounded, WFMin
<1>3. n \in Nat /\ n \notin T
  OBVIOUS
<1>4. n - 1 \in Nat /\ n - 1 < n
  BY <1>3
<1>5. <<n - 1, n>> \in OpToRel(<, Nat)
  BY <1>3, <1>4 DEF OpToRel
<1>6. n - 1 \in T
  BY <1>2, <1>4, <1>5
<1> QED BY <1>3, <1>4, <1>6

\* Removing an element of a finite set.
LEMMA OneLess ==
    ASSUME NEW S, IsFiniteSet(S), NEW s \in SUBSET S, NEW e \in s
    PROVE  /\ Cardinality(s) \in Nat \ {0}
           /\ Cardinality(s \ {e}) = Cardinality(s) - 1
           /\ s \ {e} \in SUBSET S
<1>1. IsFiniteSet(s)
  BY FS_Subset
<1>2. Cardinality(s) \in Nat /\ Cardinality(s \ {e}) = Cardinality(s) - 1
  BY <1>1, FS_CardinalityType, FS_RemoveElement
<1>3. Cardinality(s) # 0
  BY <1>1, FS_EmptySet
<1> QED BY <1>2, <1>3

\* A set of subsets of a finite set that has the empty one, and with each of its
\* members every set with one element more, has all of them.
LEMMA AddingElements ==
    ASSUME NEW S, IsFiniteSet(S), NEW F, {} \in F,
           \A s \in SUBSET S : \A e \in S \ s : s \in F => s \cup {e} \in F
    PROVE  SUBSET S \subseteq F
<1> PICK T : T = {n \in Nat : \A s \in SUBSET S : Cardinality(s) = n => s \in F}
  OBVIOUS
<1>1. \A s \in SUBSET S : IsFiniteSet(s) /\ Cardinality(s) \in Nat
  BY FS_Subset, FS_CardinalityType
<1>2. 0 \in T
  BY <1>1, FS_EmptySet
<1>3. ASSUME NEW n \in Nat, n \in T PROVE n + 1 \in T
  <2> SUFFICES ASSUME NEW s \in SUBSET S, Cardinality(s) = n + 1 PROVE s \in F
    OBVIOUS
  <2>1. s # {}
    BY FS_EmptySet
  <2>2. PICK e \in s : TRUE
    BY <2>1
  <2>3. Cardinality(s \ {e}) = n /\ s \ {e} \in SUBSET S
    BY OneLess
  <2>4. s \ {e} \in F
    BY <1>3, <2>3
  <2>5. (s \ {e}) \cup {e} = s /\ e \in S \ (s \ {e})
    OBVIOUS
  <2> QED BY <2>3, <2>4, <2>5
<1>4. Nat \subseteq T
  BY <1>2, <1>3, Counting
<1> QED BY <1>1, <1>4

-----------------------------------------------------------------------------
(* Sums over sets *)

\* The element that a sum takes next.
First(s) == CHOOSE x \in s : TRUE

\* The sum over s, from the sums over smaller sets.
Summed(v, g, s) == IF s = {} THEN 0 ELSE v[First(s)] + g[s \ {First(s)}]

\* g has the sums of the values v over the subsets of S.
SumsOf(v, S, g) ==
    /\ g \in [SUBSET S -> Nat]
    /\ \A s \in SUBSET S : g[s] = Summed(v, g, s)

LEMMA FirstIs == ASSUME NEW s, s # {} PROVE First(s) \in s
BY DEF First

\* The values of a finite set have sums.
LEMMA SumsExist ==
    ASSUME NEW S, IsFiniteSet(S), NEW v \in [S -> Nat]
    PROVE  \E g : SumsOf(v, S, g)
<1> PICK T : T = {n \in Nat : \E g \in [SUBSET S -> Nat] :
                   \A s \in SUBSET S : Cardinality(s) <= n => g[s] = Summed(v, g, s)}
  OBVIOUS
<1>1. 0 \in T
  <2> PICK g : g = [s \in SUBSET S |-> 0]
    OBVIOUS
  <2>1. g \in [SUBSET S -> Nat] /\ \A s \in SUBSET S : g[s] = 0
    OBVIOUS
  <2>2. ASSUME NEW s \in SUBSET S, Cardinality(s) <= 0 PROVE g[s] = Summed(v, g, s)
    <3>1. IsFiniteSet(s)
      BY FS_Subset
    <3>2. Cardinality(s) \in Nat
      BY <3>1, FS_CardinalityType
    <3>3. Cardinality(s) = 0
      BY ONLY <3>2, <2>2
    <3>4. s = {}
      BY <3>1, <3>3, FS_EmptySet
    <3> QED BY <3>4, <2>1 DEF Summed
  <2> QED BY <2>1, <2>2
<1>2. ASSUME NEW n \in Nat, n \in T PROVE n + 1 \in T
  <2>1. PICK g \in [SUBSET S -> Nat] :
          \A s \in SUBSET S : Cardinality(s) <= n => g[s] = Summed(v, g, s)
    BY <1>2
  <2> PICK h : h = [s \in SUBSET S |-> Summed(v, g, s)]
    OBVIOUS
  <2>2. \A s \in SUBSET S : h[s] = Summed(v, g, s)
    OBVIOUS
  <2>3. ASSUME NEW s \in SUBSET S PROVE Summed(v, g, s) \in Nat
    <3>1. CASE s = {}
      BY <3>1 DEF Summed
    <3>2. CASE s # {}
      <4>1. First(s) \in S /\ s \ {First(s)} \in SUBSET S
        BY <3>2, FirstIs
      <4>2. v[First(s)] \in Nat /\ g[s \ {First(s)}] \in Nat
        BY <4>1
      <4> QED BY <4>2, <3>2 DEF Summed
    <3> QED BY <3>1, <3>2
  <2>4. h \in [SUBSET S -> Nat]
    BY <2>3
  <2>5. ASSUME NEW s \in SUBSET S, Cardinality(s) <= n + 1 PROVE h[s] = Summed(v, h, s)
    <3>1. CASE s = {}
      BY <3>1, <2>2 DEF Summed
    <3>2. CASE s # {}
      <4> PICK t : t = s \ {First(s)}
        OBVIOUS
      <4>1. Cardinality(s) \in Nat /\ Cardinality(t) = Cardinality(s) - 1 /\ t \in SUBSET S
        BY <3>2, FirstIs, OneLess
      <4>2. Cardinality(t) <= n
        <5>1. Cardinality(s) <= n + 1
          BY <2>5
        <5> QED BY ONLY <4>1, <5>1, n \in Nat
      <4>3. g[t] = h[t]
        BY <4>1, <4>2, <2>1, <2>2
      <4> QED BY <4>3, <3>2, <2>2 DEF Summed
    <3> QED BY <3>1, <3>2
  <2>6. n + 1 \in Nat
    OBVIOUS
  <2>7. \E f \in [SUBSET S -> Nat] :
          \A s \in SUBSET S : Cardinality(s) <= n + 1 => f[s] = Summed(v, f, s)
    BY <2>4, <2>5
  <2> QED BY <2>6, <2>7
<1>3. Nat \subseteq T
  BY <1>1, <1>2, Counting
<1>4. Cardinality(S) \in Nat
  BY FS_CardinalityType
<1>5. PICK g \in [SUBSET S -> Nat] :
        \A s \in SUBSET S : Cardinality(s) <= Cardinality(S) => g[s] = Summed(v, g, s)
  BY <1>3, <1>4
<1>6. \A s \in SUBSET S : Cardinality(s) <= Cardinality(S)
  BY FS_Subset
<1>7. SumsOf(v, S, g)
  BY <1>5, <1>6 DEF SumsOf
<1> QED BY <1>7

\* The order does not matter: any element can be taken first.
LEMMA AnyFirst ==
    ASSUME NEW S, IsFiniteSet(S), NEW v \in [S -> Nat], NEW g, SumsOf(v, S, g)
    PROVE  \A s \in SUBSET S : \A e \in s : g[s] = v[e] + g[s \ {e}]
<1> PICK T : T = {n \in Nat : \A s \in SUBSET S : Cardinality(s) = n =>
                                \A e \in s : g[s] = v[e] + g[s \ {e}]}
  OBVIOUS
<1>1. g \in [SUBSET S -> Nat]
  BY DEF SumsOf
<1>2. 0 \in T
  <2> SUFFICES ASSUME NEW s \in SUBSET S, Cardinality(s) = 0, NEW e \in s PROVE FALSE
    OBVIOUS
  <2> QED BY OneLess
<1>3. ASSUME NEW n \in Nat, n \in T PROVE n + 1 \in T
  <2> SUFFICES ASSUME NEW s \in SUBSET S, Cardinality(s) = n + 1, NEW e \in s
               PROVE  g[s] = v[e] + g[s \ {e}]
    OBVIOUS
  <2> PICK x : x = First(s)
    OBVIOUS
  <2>1. x \in s
    BY FirstIs
  <2>2. g[s] = v[x] + g[s \ {x}]
    BY DEF SumsOf, Summed
  <2>3. CASE x = e
    BY <2>2, <2>3
  <2>4. CASE x # e
    <3> PICK t \in SUBSET S, u \in SUBSET S, w \in SUBSET S :
          t = s \ {x} /\ u = s \ {e} /\ w = s \ {x, e}
      OBVIOUS
    <3>1. Cardinality(t) = n /\ Cardinality(u) = n
      BY <2>1, OneLess
    <3>2. e \in t /\ x \in u /\ t \ {e} = w /\ u \ {x} = w
      BY <2>1, <2>4
    <3>3. g[t] = v[e] + g[w] /\ g[u] = v[x] + g[w]
      BY SMTT(30), <3>1, <3>2, <1>3
    <3>4. g[s] = v[x] + g[t]
      BY <2>2
    <3>5. v[x] \in Nat /\ v[e] \in Nat /\ g[w] \in Nat
      BY <2>1, <1>1
    <3>6. g[s] = v[e] + g[u]
      BY ONLY <3>3, <3>4, <3>5
    <3> QED BY <3>6
  <2> QED BY <2>3, <2>4
<1>4. Nat \subseteq T
  BY <1>2, <1>3, Counting
<1>5. \A s \in SUBSET S : Cardinality(s) \in Nat
  BY FS_Subset, FS_CardinalityType
<1> QED BY <1>4, <1>5

\* One element more.
LEMMA OneMore ==
    ASSUME NEW S, IsFiniteSet(S), NEW v \in [S -> Nat], NEW g, SumsOf(v, S, g),
           NEW s \in SUBSET S, NEW e \in S \ s
    PROVE  g[s \cup {e}] = g[s] + v[e] /\ g[s] \in Nat /\ v[e] \in Nat
<1>1. (s \cup {e}) \in SUBSET S /\ e \in s \cup {e} /\ (s \cup {e}) \ {e} = s
  OBVIOUS
<1>2. g[s \cup {e}] = v[e] + g[s]
  BY <1>1, AnyFirst
<1>3. g[s] \in Nat /\ v[e] \in Nat
  BY DEF SumsOf
<1> QED BY <1>2, <1>3

\* Nothing sums up to 0.
LEMMA NoSum ==
    ASSUME NEW S, NEW v, NEW g, SumsOf(v, S, g)
    PROVE  g[{}] = 0
BY DEF SumsOf, Summed

\* The sum over two sets that are apart is the sum of the sums.
LEMMA SumsAdd ==
    ASSUME NEW S, IsFiniteSet(S), NEW v \in [S -> Nat], NEW g, SumsOf(v, S, g),
           NEW s \in SUBSET S, NEW t \in SUBSET S, s \cap t = {}
    PROVE  g[s \cup t] = g[s] + g[t]
<1> PICK F : F = {r \in SUBSET t : g[s \cup r] = g[s] + g[r]}
  OBVIOUS
<1>1. g[s] \in Nat /\ IsFiniteSet(t)
  BY FS_Subset DEF SumsOf
<1>2. {} \in F
  <2>1. s \cup {} = s
    OBVIOUS
  <2>2. g[{}] = 0
    BY NoSum
  <2>3. g[s \cup {}] = g[s] + g[{}]
    BY <2>1, <2>2, <1>1
  <2> QED BY <2>3
<1>3. ASSUME NEW r \in SUBSET t, NEW e \in t \ r, r \in F PROVE r \cup {e} \in F
  <2> PICK q : q = s \cup r
    OBVIOUS
  <2>1. q \in SUBSET S /\ e \in S \ q /\ r \in SUBSET S /\ e \in S \ r
    OBVIOUS
  <2>2. g[q \cup {e}] = g[q] + v[e] /\ g[r \cup {e}] = g[r] + v[e]
        /\ g[r] \in Nat /\ v[e] \in Nat
    BY SMTT(30), <2>1, OneMore
  <2>3. g[q] = g[s] + g[r]
    BY <1>3
  <2>4. q \cup {e} = s \cup (r \cup {e})
    OBVIOUS
  <2>5. g[q \cup {e}] = g[s] + g[r \cup {e}]
    BY ONLY <2>2, <2>3, <1>1
  <2> QED BY <2>4, <2>5
<1>4. \A r \in SUBSET t : \A e \in t \ r : r \in F => r \cup {e} \in F
  BY <1>3
<1>5. SUBSET t \subseteq F
  BY ONLY <1>1, <1>2, <1>4, AddingElements
<1> QED BY <1>5

\* Sums depend on nothing but the values.
LEMMA SumsAgree ==
    ASSUME NEW S, IsFiniteSet(S), NEW v \in [S -> Nat], NEW g, SumsOf(v, S, g),
           NEW s \in SUBSET S, NEW w \in [s -> Nat], NEW h, SumsOf(w, s, h),
           \A e \in s : w[e] = v[e]
    PROVE  h[s] = g[s]
<1> PICK F : F = {r \in SUBSET s : h[r] = g[r]}
  OBVIOUS
<1>1. IsFiniteSet(s)
  BY FS_Subset
<1>2. {} \in F
  BY NoSum
<1>3. ASSUME NEW r \in SUBSET s, NEW e \in s \ r, r \in F PROVE r \cup {e} \in F
  <2>1. h[r \cup {e}] = h[r] + w[e]
    BY <1>1, OneMore
  <2>2. r \in SUBSET S /\ e \in S \ r
    OBVIOUS
  <2>3. g[r \cup {e}] = g[r] + v[e]
    BY <2>2, OneMore
  <2> QED BY <2>1, <2>3, <1>3
<1>4. \A r \in SUBSET s : \A e \in s \ r : r \in F => r \cup {e} \in F
  BY <1>3
<1>5. SUBSET s \subseteq F
  BY ONLY <1>1, <1>2, <1>4, AddingElements
<1> QED BY <1>5

-----------------------------------------------------------------------------
(* The sums of the report *)

\* The recursion has one solution.
LEMMA SumsUnique ==
    ASSUME NEW S, IsFiniteSet(S), NEW v \in [S -> Nat], NEW g, SumsOf(v, S, g),
           NEW h, \A s \in SUBSET S : h[s] = Summed(v, h, s)
    PROVE  h[S] = g[S]
<1> PICK T : T = {n \in Nat : \A s \in SUBSET S : Cardinality(s) = n => h[s] = g[s]}
  OBVIOUS
<1>1. \A s \in SUBSET S : g[s] = Summed(v, g, s)
  BY DEF SumsOf
<1>2. 0 \in T
  <2> SUFFICES ASSUME NEW s \in SUBSET S, Cardinality(s) = 0 PROVE h[s] = g[s]
    OBVIOUS
  <2>1. s = {}
    BY FS_Subset, FS_EmptySet
  <2> QED BY <2>1, <1>1 DEF Summed
<1>3. ASSUME NEW n \in Nat, n \in T PROVE n + 1 \in T
  <2> SUFFICES ASSUME NEW s \in SUBSET S, Cardinality(s) = n + 1 PROVE h[s] = g[s]
    OBVIOUS
  <2>1. s # {}
    <3>1. n + 1 # 0
      BY ONLY n \in Nat
    <3> QED BY <3>1, FS_EmptySet
  <2> PICK t : t = s \ {First(s)}
    OBVIOUS
  <2>2. Cardinality(t) = n /\ t \in SUBSET S
    BY <2>1, FirstIs, OneLess
  <2>3. h[t] = g[t]
    BY <2>2, <1>3
  <2>4. h[s] = v[First(s)] + h[t] /\ g[s] = v[First(s)] + g[t]
    BY <2>1, <1>1 DEF Summed
  <2> QED BY <2>3, <2>4
<1>4. Nat \subseteq T
  BY <1>2, <1>3, Counting
<1>5. Cardinality(S) \in Nat
  BY FS_CardinalityType
<1> QED BY <1>4, <1>5

\* The function whose value at the cases Amount is.
AmountSums(results, cases, h) ==
    h = [s \in SUBSET cases |->
           IF s = {} THEN 0
           ELSE results[CHOOSE x \in s : TRUE].record.amount
                  + h[s \ {CHOOSE x \in s : TRUE}]]

\* The amount of some cases of a list is the sum of their amounts.
LEMMA AmountIs ==
    ASSUME NEW results, NEW D, IsFiniteSet(D), NEW v \in [D -> Nat],
           \A i \in D : v[i] = results[i].record.amount,
           NEW g, SumsOf(v, D, g), NEW cases \in SUBSET D
    PROVE  Amount(results, cases) = g[cases]
<1> PICK w : w = [i \in cases |-> v[i]]
  OBVIOUS
<1>1. w \in [cases -> Nat] /\ (\A i \in cases : w[i] = v[i]) /\ IsFiniteSet(cases)
  BY FS_Subset
<1>2. PICK k : SumsOf(w, cases, k)
  BY <1>1, SumsExist
<1>3. Amount(results, cases) = (CHOOSE h : AmountSums(results, cases, h))[cases]
  BY DEF Amount, MapThenSumSet, MapThenFoldSet, AmountSums
<1>4. ASSUME NEW h, NEW s \in SUBSET cases
      PROVE  Summed(w, h, s) = IF s = {} THEN 0
                               ELSE results[CHOOSE x \in s : TRUE].record.amount
                                      + h[s \ {CHOOSE x \in s : TRUE}]
  <2>1. CASE s = {}
    BY <2>1 DEF Summed
  <2>2. CASE s # {}
    <3>1. First(s) \in s /\ First(s) = CHOOSE x \in s : TRUE
      BY <2>2, FirstIs DEF First
    <3>2. w[First(s)] = results[First(s)].record.amount
      BY <3>1, <1>1
    <3> QED BY <3>1, <3>2, <2>2 DEF Summed
  <2> QED BY <2>1, <2>2
<1>5. AmountSums(results, cases, k)
  <2>1. k \in [SUBSET cases -> Nat] /\ \A s \in SUBSET cases : k[s] = Summed(w, k, s)
    BY <1>2 DEF SumsOf
  <2> QED BY <2>1, <1>4 DEF AmountSums
<1> PICK h : h = CHOOSE f : AmountSums(results, cases, f)
  OBVIOUS
<1>6. AmountSums(results, cases, h)
  BY <1>5
<1>7. ASSUME NEW s \in SUBSET cases PROVE h[s] = Summed(w, h, s)
  <2>1. h[s] = IF s = {} THEN 0
               ELSE results[CHOOSE x \in s : TRUE].record.amount
                      + h[s \ {CHOOSE x \in s : TRUE}]
    BY SMTT(30), ZenonT(60), <1>6 DEF AmountSums
  <2> QED BY ZenonT(60), <2>1, <1>4
<1>8. h[cases] = k[cases]
  BY <1>1, <1>2, <1>7, SumsUnique
<1>9. k[cases] = g[cases]
  BY <1>1, <1>2, SumsAgree
<1> QED BY <1>3, <1>8, <1>9

\* The sum of counts.
CountSums(f, S, h) ==
    h = [s \in SUBSET S |-> IF s = {} THEN 0 ELSE f[CHOOSE x \in s : TRUE]
                                                    + h[s \ {CHOOSE x \in s : TRUE}]]

LEMMA SumCountsIs ==
    ASSUME NEW S, IsFiniteSet(S), NEW f \in [S -> Nat], NEW g, SumsOf(f, S, g)
    PROVE  SumCounts(f) = g[S]
<1>1. DOMAIN f = S
  OBVIOUS
<1>2. SumCounts(f) = (CHOOSE h : CountSums(f, S, h))[S]
  BY <1>1 DEF SumCounts, MapThenSumSet, MapThenFoldSet, CountSums
<1>3. CountSums(f, S, g)
  BY DEF CountSums, SumsOf, Summed, First
<1> PICK h : h = CHOOSE k : CountSums(f, S, k)
  OBVIOUS
<1>4. CountSums(f, S, h)
  BY <1>3
<1>5. \A s \in SUBSET S : h[s] = Summed(f, h, s)
  BY <1>4 DEF CountSums, Summed, First
<1>6. h[S] = g[S]
  BY <1>5, SumsUnique
<1> QED BY <1>2, <1>6

\* Counting two sets that are apart.
LEMMA Apart ==
    ASSUME NEW S, NEW T, IsFiniteSet(S), IsFiniteSet(T), S \cap T = {}
    PROVE  /\ Cardinality(S \cup T) = Cardinality(S) + Cardinality(T)
           /\ Cardinality(S) \in Nat /\ Cardinality(T) \in Nat
<1>1. Cardinality(S \cup T) = Cardinality(S) + Cardinality(T) - Cardinality(S \cap T)
  BY FS_Union
<1>2. Cardinality(S) \in Nat /\ Cardinality(T) \in Nat /\ Cardinality(S \cap T) = 0
  BY FS_CardinalityType, FS_EmptySet
<1> QED BY <1>1, <1>2

\* Every case is counted for one cause.
LEMMA CausesCount ==
    ASSUME NEW results, NEW cases, IsFiniteSet(cases)
    PROVE  SumCounts(ByCause(results, cases)) = Cardinality(cases)
<1> PICK S : S = {results[i].action.cause : i \in cases}
  OBVIOUS
<1> PICK f : f = ByCause(results, cases)
  OBVIOUS
<1> DEFINE Of(C) == {i \in cases : results[i].action.cause \in C}
<1>1. IsFiniteSet(S)
  <2> PICK cause : cause = [i \in cases |-> results[i].action.cause]
    OBVIOUS
  <2>1. cause \in Surjection(cases, S)
    BY DEF Surjection
  <2> QED BY <2>1, FS_Surjection
<1>2. \A C : IsFiniteSet(Of(C)) /\ Cardinality(Of(C)) \in Nat
  <2> TAKE C
  <2>1. Of(C) \in SUBSET cases
    OBVIOUS
  <2> QED BY <2>1, FS_Subset, FS_CardinalityType
<1>3. \A c \in S : f[c] = Cardinality(Of({c}))
  <2> TAKE c \in S
  <2>1. f[c] = Cardinality({i \in cases : results[i].action.cause = c})
    BY DEF ByCause
  <2>2. {i \in cases : results[i].action.cause = c} = Of({c})
    OBVIOUS
  <2> QED BY <2>1, <2>2
<1>4. f \in [S -> Nat]
  <2>1. f = [c \in S |-> Cardinality({i \in cases : results[i].action.cause = c})]
    BY DEF ByCause
  <2>2. \A c \in S : f[c] \in Nat
    BY <1>2, <1>3
  <2> QED BY <2>1, <2>2
<1>5. PICK g : SumsOf(f, S, g)
  BY <1>1, <1>4, SumsExist
<1> PICK F : F = {C \in SUBSET S : g[C] = Cardinality(Of(C))}
  OBVIOUS
<1>6. {} \in F
  <2>1. Of({}) = {} /\ g[{}] = 0
    BY <1>5, NoSum
  <2>2. Cardinality(Of({})) = 0
    BY <2>1, FS_EmptySet
  <2> QED BY <2>1, <2>2
<1>7. ASSUME NEW C \in SUBSET S, NEW c \in S \ C, C \in F PROVE C \cup {c} \in F
  <2>1. g[C \cup {c}] = g[C] + f[c]
    BY ONLY <1>1, <1>4, <1>5, OneMore, C \in SUBSET S, c \in S \ C
  <2>2. Of(C \cup {c}) = Of(C) \cup Of({c}) /\ Of(C) \cap Of({c}) = {}
    OBVIOUS
  <2>3. Cardinality(Of(C) \cup Of({c})) = Cardinality(Of(C)) + Cardinality(Of({c}))
    BY <1>2, <2>2, Apart
  <2>4. g[C \cup {c}] = Cardinality(Of(C \cup {c}))
    BY <2>1, <2>2, <2>3, <1>3, <1>7
  <2> QED BY <2>4
<1>8. \A C \in SUBSET S : \A c \in S \ C : C \in F => C \cup {c} \in F
  BY <1>7
<1>9. SUBSET S \subseteq F
  BY ONLY <1>1, <1>6, <1>8, AddingElements
<1>10. g[S] = Cardinality(Of(S))
  BY <1>9
<1>11. Of(S) = cases
  OBVIOUS
<1>12. SumCounts(f) = g[S]
  BY <1>1, <1>4, <1>5, SumCountsIs
<1> QED BY <1>10, <1>11, <1>12

-----------------------------------------------------------------------------
(* The figures of any list *)

\* The cases of a list, split as the report splits them.
LEMMA CasesSplit ==
    ASSUME NEW results
    PROVE  /\ DOMAIN results = ResolvedCases(results) \cup PendingCases(results)
           /\ ResolvedCases(results) \cap PendingCases(results) = {}
           /\ ResolvedCases(results) = RecoveredCases(results) \cup ExceptionCases(results)
           /\ RecoveredCases(results) \cap ExceptionCases(results) = {}
           /\ ResolvedCases(results) = RealResolved(results) \cup SimulatedResolved(results)
           /\ RealResolved(results) \cap SimulatedResolved(results) = {}
BY DEF ResolvedCases, PendingCases, RecoveredCases, ExceptionCases, RealResolved,
       SimulatedResolved

\* The fields of the summary.
LEMMA SummaryIs ==
    ASSUME NEW results
    PROVE  LET s == Summary(results)
               recovered == RecoveredCases(results)
               kept == {i \in PromiseCases(results) : results[i].promise = "kept"}
           IN
           /\ s.total_cases = Cardinality(DOMAIN results)
           /\ s.resolved_cases = Cardinality(ResolvedCases(results))
           /\ s.real_resolved_cases = Cardinality(RealResolved(results))
           /\ s.simulated_resolved_cases = Cardinality(SimulatedResolved(results))
           /\ s.recovered_cases = Cardinality(recovered)
           /\ s.exception_cases = Cardinality(ExceptionCases(results))
           /\ s.pending_cases = Cardinality(PendingCases(results))
           /\ s.revenue_recovered_real = Amount(results, recovered \cap RealResolved(results))
           /\ s.projected_revenue = Amount(results, recovered \cap SimulatedResolved(results))
           /\ s.recovered_amount = Amount(results, recovered)
           /\ s.unrecovered_amount = Amount(results, DOMAIN results)
                - Amount(results, recovered) - Amount(results, PendingCases(results))
           /\ s.cases_by_cause = ByCause(results, DOMAIN results)
           /\ s.exceptions_by_cause = ByCause(results, ExceptionCases(results))
           /\ s.promises_kept = Cardinality(kept)
           /\ s.promises_broken = Cardinality(PromiseCases(results)) - Cardinality(kept)
BY DEF Summary

\* report: for any list of outcomes with amounts, every case is recovered, an
\* exception or pending and has one cause, and what is neither recovered nor
\* pending is the amount of the exceptions.
THEOREM SummaryBalances ==
    ASSUME NEW results, IsFiniteSet(DOMAIN results),
           \A i \in DOMAIN results : results[i].record.amount \in Nat
    PROVE  LET s == Summary(results) IN
           /\ s.total_cases = s.recovered_cases + s.exception_cases + s.pending_cases
           /\ s.resolved_cases = s.real_resolved_cases + s.simulated_resolved_cases
           /\ s.unrecovered_amount = Amount(results, ExceptionCases(results))
           /\ s.recovered_amount = s.revenue_recovered_real + s.projected_revenue
           /\ s.total_cases = SumCounts(s.cases_by_cause)
           /\ s.exception_cases = SumCounts(s.exceptions_by_cause)
           /\ s.promises_kept + s.promises_broken = Cardinality(PromiseCases(results))
<1> PICK s : s = Summary(results)
  OBVIOUS
<1> PICK D : D = DOMAIN results
  OBVIOUS
<1> PICK rec, exc, pend, res :
       /\ rec = RecoveredCases(results) /\ exc = ExceptionCases(results)
       /\ pend = PendingCases(results) /\ res = ResolvedCases(results)
  OBVIOUS
<1> PICK real, sim : real = RealResolved(results) /\ sim = SimulatedResolved(results)
  OBVIOUS
<1> PICK kept : kept = {i \in PromiseCases(results) : results[i].promise = "kept"}
  OBVIOUS
<1>1. /\ D = res \cup pend /\ res \cap pend = {} /\ res = rec \cup exc /\ rec \cap exc = {}
      /\ res = real \cup sim /\ real \cap sim = {}
  BY CasesSplit
<1>2. /\ s.total_cases = Cardinality(D) /\ s.resolved_cases = Cardinality(res)
      /\ s.real_resolved_cases = Cardinality(real)
      /\ s.simulated_resolved_cases = Cardinality(sim)
      /\ s.recovered_cases = Cardinality(rec) /\ s.exception_cases = Cardinality(exc)
      /\ s.pending_cases = Cardinality(pend)
      /\ s.revenue_recovered_real = Amount(results, rec \cap real)
      /\ s.projected_revenue = Amount(results, rec \cap sim)
      /\ s.recovered_amount = Amount(results, rec)
      /\ s.unrecovered_amount = Amount(results, D) - Amount(results, rec)
                                  - Amount(results, pend)
      /\ s.cases_by_cause = ByCause(results, D)
      /\ s.exceptions_by_cause = ByCause(results, exc)
      /\ s.promises_kept = Cardinality(kept)
      /\ s.promises_broken = Cardinality(PromiseCases(results)) - Cardinality(kept)
  BY SummaryIs
<1>3. /\ IsFiniteSet(D) /\ IsFiniteSet(res) /\ IsFiniteSet(pend) /\ IsFiniteSet(rec)
      /\ IsFiniteSet(exc) /\ IsFiniteSet(real) /\ IsFiniteSet(sim)
  <2>1. /\ res \in SUBSET D /\ pend \in SUBSET D /\ rec \in SUBSET D /\ exc \in SUBSET D
        /\ real \in SUBSET D /\ sim \in SUBSET D
    BY ONLY <1>1
  <2>2. IsFiniteSet(D)
    OBVIOUS
  <2> QED BY ONLY <2>1, <2>2, FS_Subset
<1>4. /\ Cardinality(D) = Cardinality(rec) + Cardinality(exc) + Cardinality(pend)
      /\ Cardinality(res) = Cardinality(real) + Cardinality(sim)
  <2>1. Cardinality(D) = Cardinality(res) + Cardinality(pend)
    BY ONLY <1>1, <1>3, Apart
  <2>2. Cardinality(res) = Cardinality(rec) + Cardinality(exc)
    BY ONLY <1>1, <1>3, Apart
  <2>3. Cardinality(res) = Cardinality(real) + Cardinality(sim)
    BY ONLY <1>1, <1>3, Apart
  <2> QED BY ONLY <2>1, <2>2, <2>3
<1>5. /\ Amount(results, D) - Amount(results, rec) - Amount(results, pend)
           = Amount(results, exc)
      /\ Amount(results, rec) = Amount(results, rec \cap real) + Amount(results, rec \cap sim)
  <2> PICK v : v = [i \in D |-> results[i].record.amount]
    OBVIOUS
  <2>1. v \in [D -> Nat] /\ \A i \in D : v[i] = results[i].record.amount
    OBVIOUS
  <2>2. PICK g : SumsOf(v, D, g)
    BY <1>3, <2>1, SumsExist
  <2>3. \A cases \in SUBSET D : Amount(results, cases) = g[cases] /\ g[cases] \in Nat
    <3> TAKE cases \in SUBSET D
    <3>1. Amount(results, cases) = g[cases]
      <4>1. IsFiniteSet(D)
        BY <1>3
      <4>2. v \in [D -> Nat]
        BY <2>1
      <4>3. \A i \in D : v[i] = results[i].record.amount
        BY <2>1
      <4> QED BY ONLY <4>1, <4>2, <4>3, <2>2, AmountIs, cases \in SUBSET D
    <3>2. g[cases] \in Nat
      BY <2>2 DEF SumsOf
    <3> QED BY <3>1, <3>2
  <2>4. /\ res \in SUBSET D /\ pend \in SUBSET D /\ rec \in SUBSET D /\ exc \in SUBSET D
        /\ rec \cap real \in SUBSET D /\ rec \cap sim \in SUBSET D /\ D \in SUBSET D
        /\ rec = (rec \cap real) \cup (rec \cap sim) /\ (rec \cap real) \cap (rec \cap sim) = {}
    BY ONLY <1>1
  <2>5. \A a \in SUBSET D, b \in SUBSET D : a \cap b = {} => g[a \cup b] = g[a] + g[b]
    BY ONLY <1>3, <2>1, <2>2, SumsAdd
  <2>6. g[D] = g[res] + g[pend] /\ g[res] = g[rec] + g[exc]
    BY ONLY ZenonT(60), <1>1, <2>4, <2>5
  <2>7. g[rec] = g[rec \cap real] + g[rec \cap sim]
    BY ONLY <2>4, <2>5
  <2>8. /\ g[D] \in Nat /\ g[res] \in Nat /\ g[pend] \in Nat /\ g[rec] \in Nat
        /\ g[exc] \in Nat
        /\ Amount(results, D) = g[D] /\ Amount(results, rec) = g[rec]
        /\ Amount(results, pend) = g[pend] /\ Amount(results, exc) = g[exc]
        /\ Amount(results, rec \cap real) = g[rec \cap real]
        /\ Amount(results, rec \cap sim) = g[rec \cap sim]
    BY ONLY <2>3, <2>4
  <2> QED BY ONLY <2>6, <2>7, <2>8
<1>6. /\ SumCounts(ByCause(results, D)) = Cardinality(D)
      /\ SumCounts(ByCause(results, exc)) = Cardinality(exc)
  BY ONLY <1>3, CausesCount
<1>7. Cardinality(kept) + (Cardinality(PromiseCases(results)) - Cardinality(kept))
        = Cardinality(PromiseCases(results))
  <2>1. PromiseCases(results) \in SUBSET D /\ kept \in SUBSET D
    BY DEF PromiseCases, ResolvedCases
  <2>2. Cardinality(PromiseCases(results)) \in Nat /\ Cardinality(kept) \in Nat
    BY ONLY <1>3, <2>1, FS_Subset, FS_CardinalityType
  <2> QED BY ONLY <2>2
<1> QED BY <1>2, <1>4, <1>5, <1>6, <1>7

\* No case has no amount.
LEMMA NoAmount == ASSUME NEW results PROVE Amount(results, {}) = 0
<1> PICK D : D = {}
  OBVIOUS
<1> PICK v : v = [i \in D |-> 0]
  OBVIOUS
<1>1. v \in [D -> Nat]
  OBVIOUS
<1>2. \A i \in D : v[i] = results[i].record.amount
  OBVIOUS
<1>3. IsFiniteSet(D) /\ D \in SUBSET D
  BY FS_EmptySet
<1>4. PICK g : SumsOf(v, D, g)
  BY <1>1, <1>3, SumsExist
<1>5. Amount(results, D) = g[D]
  BY ONLY <1>1, <1>2, <1>3, <1>4, AmountIs
<1> QED BY <1>4, <1>5, NoSum

=============================================================================
