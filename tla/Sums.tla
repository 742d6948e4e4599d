------------------------------------ MODULE Sums ------------------------------------
(* Sums over finite sets, as MapThenSumSet of the community modules computes them.     *)
EXTENDS Integers, FiniteSets, FiniteSetsExt, FiniteSetTheorems, TLAPS

\* The sum of v[x], x in S.
Total(v, S) == MapThenSumSet(LAMBDA x : v[x], S)

\* g tells the sums over the subsets of S, taken element by element.
ChosenOf(s) == CHOOSE x \in s : TRUE
RestOf(s)   == s \ {ChosenOf(s)}
SumsOf(g, v, S) == g = [s \in SUBSET S |-> IF s = {} THEN 0 ELSE v[ChosenOf(s)] + g[RestOf(s)]]

NatValued(v, S)  == \A x \in S : v[x] \in Nat
AgreeOn(v, w, S) == \A x \in S : v[x] = w[x]

\* Some element is chosen.
LEMMA ChosenIn == \A s : s # {} => ChosenOf(s) \in s
  BY DEF ChosenOf

\* Among the subsets of a finite set some are smallest: the induction over finite sets.
LEMMA Smallest ==
  ASSUME NEW S, IsFiniteSet(S), NEW B, B \subseteq SUBSET S, B # {}
  PROVE  \E s \in B : \A t \in SUBSET s : t # s => t \notin B
  <1>1. IsWellFoundedOn(StrictSubsetOrdering(S), SUBSET S)
    BY FS_StrictSubsetOrderingWellFounded, FS_FiniteSubsetsOfFinite
  <1>2. \E s \in B : \A t \in B : ~(<<t, s>> \in StrictSubsetOrdering(S))
    BY <1>1, WFMin
  <1>3. PICK s \in B : \A t \in B : ~(<<t, s>> \in StrictSubsetOrdering(S))
    BY <1>2
  <1>4. ASSUME NEW t \in SUBSET s, t # s, t \in B PROVE FALSE
    <2>1. <<t, s>> \in StrictSubsetOrdering(S)
      BY <1>4 DEF StrictSubsetOrdering
    <2> QED
      BY <1>3, <1>4, <2>1
  <1> QED
    BY <1>4

\* Sums of the same values are the same.
LEMMA SameSums ==
  ASSUME NEW S, NEW T, IsFiniteSet(S), NEW v, NEW w, NEW g, NEW h, SumsOf(g, v, S), SumsOf(h, w, T),
         NEW R, R \subseteq S, R \subseteq T, AgreeOn(v, w, R)
  PROVE  g[R] = h[R]
  <1> DEFINE B == {s \in SUBSET R : g[s] # h[s]}
  <1>1. SUFFICES ASSUME B # {} PROVE FALSE
    OBVIOUS
  <1>2. IsFiniteSet(R)
    BY FS_Subset
  <1>3. B \subseteq SUBSET R
    OBVIOUS
  <1>4. PICK s \in B : \A t \in SUBSET s : t # s => t \notin B
    <2> HIDE DEF B
    <2> QED
      BY <1>1, <1>2, <1>3, Smallest
  <1>5. s \in SUBSET S /\ s \in SUBSET T /\ s \in SUBSET R
    OBVIOUS
  <1>6. /\ g[s] = IF s = {} THEN 0 ELSE v[ChosenOf(s)] + g[RestOf(s)]
        /\ h[s] = IF s = {} THEN 0 ELSE w[ChosenOf(s)] + h[RestOf(s)]
    BY <1>5 DEF SumsOf
  <1>7. CASE s = {}
    BY <1>6, <1>7
  <1>8. CASE s # {}
    <2>1. ChosenOf(s) \in R /\ RestOf(s) \in SUBSET s /\ RestOf(s) # s
      BY <1>5, <1>8, ChosenIn DEF RestOf
    <2>2. g[RestOf(s)] = h[RestOf(s)]
      BY <1>4, <1>5, <2>1
    <2> QED
      BY <1>6, <1>8, <2>1, <2>2 DEF AgreeOn
  <1> QED
    BY <1>7, <1>8

\* And there are sums of any values.
LEMMA SumsExist ==
  ASSUME NEW S, IsFiniteSet(S), NEW v
  PROVE  \E g : SumsOf(g, v, S)
  <1> DEFINE Have(s) == \E g : SumsOf(g, v, s)
             B == {s \in SUBSET S : ~Have(s)}
  <1>1. SUFFICES ASSUME B # {} PROVE FALSE
    <2>1. S \in SUBSET S
      OBVIOUS
    <2> QED
      BY <2>1
  <1>2. B \subseteq SUBSET S
    OBVIOUS
  <1>3. PICK T \in B : \A t \in SUBSET T : t # T => t \notin B
    <2> HIDE DEF B
    <2> QED
      BY <1>1, <1>2, Smallest
  <1> DEFINE G(s) == CHOOSE g : SumsOf(g, v, s)
  <1>4. \A t \in SUBSET T : t # T => SumsOf(G(t), v, t)
    <2> TAKE t \in SUBSET T
    <2> HAVE t # T
    <2>1. Have(t)
      BY <1>3
    <2> QED
      BY <2>1
  <1>5. T \in SUBSET S /\ ~Have(T)
    BY <1>3
  <1> HIDE DEF Have, B, G
  <1> DEFINE H == [s \in SUBSET T |-> IF s # T THEN G(s)[s]
                                      ELSE IF s = {} THEN 0 ELSE v[ChosenOf(s)] + G(RestOf(s))[RestOf(s)]]
  <1>6. \A t \in SUBSET T : t # T => H[t] = G(t)[t]
    OBVIOUS
  <1>7. \A s \in SUBSET T : H[s] = IF s = {} THEN 0 ELSE v[ChosenOf(s)] + H[RestOf(s)]
    <2> TAKE s \in SUBSET T
    <2>1. s # {} => ChosenOf(s) \in s /\ RestOf(s) \in SUBSET s /\ RestOf(s) # s /\ RestOf(s) \in SUBSET T /\ RestOf(s) # T
      BY ChosenIn DEF RestOf
    <2>2. CASE s = T
      <3>1. s # {} => H[RestOf(s)] = G(RestOf(s))[RestOf(s)]
        BY <1>6, <2>1
      <3> QED
        BY <2>2, <3>1
    <2>3. CASE s # T
      <3>1. H[s] = G(s)[s] /\ SumsOf(G(s), v, s)
        BY <1>4, <1>6, <2>3
      <3>2. G(s)[s] = IF s = {} THEN 0 ELSE v[ChosenOf(s)] + G(s)[RestOf(s)]
        BY <3>1 DEF SumsOf
      <3>3. ASSUME s # {} PROVE G(s)[RestOf(s)] = H[RestOf(s)]
        <4>1. SumsOf(G(RestOf(s)), v, RestOf(s)) /\ H[RestOf(s)] = G(RestOf(s))[RestOf(s)]
          BY <1>4, <1>6, <2>1, <3>3
        <4>2. IsFiniteSet(s)
          BY <1>5, FS_Subset
        <4>3. RestOf(s) \subseteq s
          BY <2>1, <3>3
        <4>4. \A g, h, t : SumsOf(g, v, s) /\ SumsOf(h, v, t) /\ t \subseteq s => g[t] = h[t]
          BY <4>2, SameSums DEF AgreeOn
        <4> QED
          BY <3>1, <4>1, <4>3, <4>4
      <3> QED
        BY <3>1, <3>2, <3>3
    <2> QED
      BY <2>2, <2>3
  <1>8. H = [s \in SUBSET T |-> H[s]]
    OBVIOUS
  <1>9. SumsOf(H, v, T)
    <2> HIDE DEF H
    <2>1. H = [s \in SUBSET T |-> IF s = {} THEN 0 ELSE v[ChosenOf(s)] + H[RestOf(s)]]
      BY <1>7, <1>8
    <2> QED
      BY <2>1 DEF SumsOf
  <1> QED
    BY <1>5, <1>9 DEF Have

\* The sum over a set is what its sums tell of it.
LEMMA TotalTold ==
  ASSUME NEW S, IsFiniteSet(S), NEW v
  PROVE  \E g : SumsOf(g, v, S) /\ Total(v, S) = g[S]
  <1> DEFINE g == CHOOSE g : SumsOf(g, v, S)
  <1>1. SumsOf(g, v, S)
    BY SumsExist
  <1>2. Total(v, S) = g[S]
    BY DEF Total, MapThenSumSet, MapThenFoldSet, SumsOf, ChosenOf, RestOf
  <1> QED
    BY <1>1, <1>2

\* The sum over no element is 0.
LEMMA TotalOfNone == \A v : Total(v, {}) = 0
  <1> TAKE v
  <1>1. PICK g : SumsOf(g, v, {}) /\ Total(v, {}) = g[{}]
    BY FS_EmptySet, TotalTold
  <1> QED
    BY <1>1 DEF SumsOf

\* Whichever element is taken first, the sums are the same.
LEMMA SumsTaken ==
  ASSUME NEW S, IsFiniteSet(S), NEW v, NatValued(v, S), NEW g, SumsOf(g, v, S)
  PROVE  \A s \in SUBSET S : g[s] \in Nat /\ \A x \in s : g[s] = v[x] + g[s \ {x}]
  <1> DEFINE Good(s) == g[s] \in Nat /\ \A x \in s : g[s] = v[x] + g[s \ {x}]
             B == {s \in SUBSET S : ~Good(s)}
  <1>1. SUFFICES ASSUME B # {} PROVE FALSE
    OBVIOUS
  <1>2. B \subseteq SUBSET S
    OBVIOUS
  <1>3. PICK s \in B : \A t \in SUBSET s : t # s => t \notin B
    <2> HIDE DEF B
    <2> QED
      BY <1>1, <1>2, Smallest
  <1>4. s \in SUBSET S /\ ~Good(s) /\ \A t \in SUBSET s : t # s => Good(t)
    BY <1>3
  <1> HIDE DEF B
  <1>5. g[s] = IF s = {} THEN 0 ELSE v[ChosenOf(s)] + g[RestOf(s)]
    BY <1>4 DEF SumsOf
  <1>6. CASE s = {}
    BY <1>4, <1>5, <1>6
  <1>7. CASE s # {}
    <2> DEFINE c == ChosenOf(s)
    <2>1. c \in s /\ v[c] \in Nat /\ g[s] = v[c] + g[s \ {c}]
      BY <1>4, <1>5, <1>7, ChosenIn DEF RestOf, NatValued
    <2> HIDE DEF c
    <2>2. \A t \in SUBSET s : t # s => g[t] \in Nat /\ \A x \in t : g[t] = v[x] + g[t \ {x}]
      BY <1>4
    <2> HIDE DEF Good
    <2>3. g[s \ {c}] \in Nat
      BY <2>1, <2>2
    <2>4. ASSUME NEW x \in s PROVE g[s] = v[x] + g[s \ {x}]
      <3>1. CASE x = c
        BY <2>1, <3>1
      <3>2. CASE x # c
        <4> DEFINE t == (s \ {x}) \ {c}
        <4>1. t = (s \ {c}) \ {x} /\ t \in SUBSET s /\ t # s
          BY <2>1
        <4>2. g[s \ {c}] = v[x] + g[t]
          BY <2>1, <2>2, <3>2, <4>1
        <4>3. g[s \ {x}] = v[c] + g[t]
          BY <2>1, <2>2, <3>2
        <4>4. g[t] \in Nat /\ v[x] \in Nat
          BY <1>4, <2>2, <4>1 DEF NatValued
        <4> HIDE DEF t
        <4> QED
          BY <2>1, <4>2, <4>3, <4>4
      <3> QED
        BY <3>1, <3>2
    <2>5. g[s] \in Nat
      BY <2>1, <2>3
    <2> QED
      BY <1>4, <2>4, <2>5 DEF Good
  <1> QED
    BY <1>6, <1>7

\* The sum over one element more, whichever.
LEMMA TotalOfOneMore ==
  ASSUME NEW S, IsFiniteSet(S), NEW v, NatValued(v, S)
  PROVE  Total(v, S) \in Nat /\ \A x \in S : Total(v, S) = v[x] + Total(v, S \ {x})
  <1>1. PICK g : SumsOf(g, v, S) /\ Total(v, S) = g[S]
    BY TotalTold
  <1>2. g[S] \in Nat /\ \A x \in S : g[S] = v[x] + g[S \ {x}]
    <2>1. \A s \in SUBSET S : g[s] \in Nat /\ \A x \in s : g[s] = v[x] + g[s \ {x}]
      BY <1>1, SumsTaken
    <2>2. S \in SUBSET S
      OBVIOUS
    <2> QED
      BY <2>1, <2>2
  <1>3. ASSUME NEW x \in S PROVE Total(v, S \ {x}) = g[S \ {x}]
    <2>1. IsFiniteSet(S \ {x})
      BY FS_Subset
    <2>2. PICK h : SumsOf(h, v, S \ {x}) /\ Total(v, S \ {x}) = h[S \ {x}]
      BY <2>1, TotalTold
    <2>3. g[S \ {x}] = h[S \ {x}]
      BY <1>1, <2>2, SameSums DEF AgreeOn
    <2> QED
      BY <2>2, <2>3
  <1> QED
    BY <1>1, <1>2, <1>3

\* The sum of zeros is 0.
LEMMA TotalOfNothing ==
  ASSUME NEW S, IsFiniteSet(S), NEW v, \A x \in S : v[x] = 0
  PROVE  Total(v, S) = 0
  <1>1. PICK g : SumsOf(g, v, S) /\ Total(v, S) = g[S]
    BY TotalTold
  <1> DEFINE B == {s \in SUBSET S : g[s] # 0}
  <1>2. SUFFICES ASSUME B # {} PROVE FALSE
    BY <1>1
  <1>3. B \subseteq SUBSET S
    OBVIOUS
  <1>4. PICK s \in B : \A t \in SUBSET s : t # s => t \notin B
    <2> HIDE DEF B
    <2> QED
      BY <1>2, <1>3, Smallest
  <1>5. s \in SUBSET S /\ g[s] # 0
    OBVIOUS
  <1>6. g[s] = IF s = {} THEN 0 ELSE v[ChosenOf(s)] + g[RestOf(s)]
    BY <1>1, <1>5 DEF SumsOf
  <1>7. s # {}
    BY <1>5, <1>6
  <1>8. ChosenOf(s) \in s /\ RestOf(s) \in SUBSET s /\ RestOf(s) # s /\ RestOf(s) \in SUBSET S
    BY <1>5, <1>7, ChosenIn DEF RestOf
  <1>9. v[ChosenOf(s)] = 0 /\ g[RestOf(s)] = 0
    BY <1>4, <1>5, <1>8
  <1> QED
    BY <1>5, <1>6, <1>7, <1>9

\* It depends on the values alone.
LEMMA SameTotal ==
  ASSUME NEW S, IsFiniteSet(S), NEW v, NEW w, AgreeOn(v, w, S)
  PROVE  Total(v, S) = Total(w, S)
  <1>1. PICK g : SumsOf(g, v, S) /\ Total(v, S) = g[S]
    BY TotalTold
  <1>2. PICK h : SumsOf(h, w, S) /\ Total(w, S) = h[S]
    BY TotalTold
  <1>3. \A T, R : SumsOf(h, w, T) /\ R \subseteq S /\ R \subseteq T /\ AgreeOn(v, w, R) => g[R] = h[R]
    BY <1>1, SameSums
  <1> QED
    BY <1>1, <1>2, <1>3

\* A larger set has no smaller sum.
LEMMA TotalGrows ==
  ASSUME NEW S, IsFiniteSet(S), NEW v, NatValued(v, S), NEW R, R \subseteq S
  PROVE  Total(v, R) <= Total(v, S)
  <1> DEFINE B == {s \in SUBSET S : R \subseteq s /\ ~(Total(v, R) <= Total(v, s))}
  <1>1. SUFFICES ASSUME B # {} PROVE FALSE
    OBVIOUS
  <1>2. B \subseteq SUBSET S
    OBVIOUS
  <1>3. PICK s \in B : \A t \in SUBSET s : t # s => t \notin B
    <2> HIDE DEF B
    <2> QED
      BY <1>1, <1>2, Smallest
  <1>4. /\ s \in SUBSET S /\ R \subseteq s /\ ~(Total(v, R) <= Total(v, s))
        /\ \A t \in SUBSET s : R \subseteq t /\ t # s => Total(v, R) <= Total(v, t)
    BY <1>3
  <1> HIDE DEF B
  <1>5. \A t \in SUBSET S : IsFiniteSet(t) /\ Total(v, t) \in Nat /\ \A x \in t : Total(v, t) = v[x] + Total(v, t \ {x})
    <2> TAKE t \in SUBSET S
    <2>1. IsFiniteSet(t) /\ NatValued(v, t)
      BY FS_Subset DEF NatValued
    <2> QED
      BY <2>1, TotalOfOneMore
  <1>6. CASE s = R
    <2>1. Total(v, R) \in Nat
      BY <1>5
    <2> QED
      BY <1>4, <1>6, <2>1
  <1>7. CASE s # R
    <2>1. PICK x \in s : x \notin R
      BY <1>4, <1>7
    <2> DEFINE t == s \ {x}
    <2>2. t \in SUBSET s /\ R \subseteq t /\ t # s /\ v[x] \in Nat /\ t \in SUBSET S
      BY <1>4, <2>1 DEF NatValued
    <2>3. Total(v, s) = v[x] + Total(v, t)
      BY <1>4, <1>5, <2>1
    <2> HIDE DEF t
    <2>4. Total(v, R) <= Total(v, t) /\ Total(v, t) \in Nat /\ Total(v, R) \in Nat
      BY <1>4, <1>5, <2>2
    <2> QED
      BY <1>4, <2>2, <2>3, <2>4
  <1> QED
    BY <1>6, <1>7

\* One value more by d, and so is the sum.
LEMMA TotalOfChange ==
  ASSUME NEW S, IsFiniteSet(S), NEW v, NEW w, NatValued(v, S), NatValued(w, S),
         NEW y \in S, NEW d \in Nat, w[y] = v[y] + d, AgreeOn(w, v, S \ {y})
  PROVE  Total(w, S) = Total(v, S) + d
  <1> DEFINE T == S \ {y}
  <1>1. IsFiniteSet(T) /\ NatValued(v, T) /\ AgreeOn(w, v, T) /\ v[y] \in Nat
    BY FS_Subset DEF NatValued
  <1>2. Total(v, S) = v[y] + Total(v, T) /\ Total(w, S) = w[y] + Total(w, T)
    BY TotalOfOneMore
  <1> HIDE DEF T
  <1>3. Total(w, T) = Total(v, T) /\ Total(v, T) \in Nat
    BY <1>1, TotalOfOneMore, SameTotal
  <1> QED
    BY <1>1, <1>2, <1>3
=====================================================================================
