------------------------------- MODULE SumProofs -------------------------------
(***************************************************************************)
(* Totals of finitely many integers: they are integers, can be taken apart *)
(* one row at a time, and scale and shift with their rows.  And the        *)
(* maximum of finitely many integers is one of them.                       *)
(***************************************************************************)
EXTENDS Sums, FiniteSetTheorems, WellFoundedInduction, TLAPS

-----------------------------------------------------------------------------
(* Sums.  SumOver folds over a set; these lemmas unroll the fold.           *)

Pick(s) == CHOOSE x \in s : TRUE
Unroll(g, f, T) == [s \in SUBSET T |-> IF s = {} THEN 0 ELSE g[Pick(s)] + f[s \ {Pick(s)}]]

\* Lemma: A sum is the value of the recursive function that unrolls it.
LEMMA SumUnrolls ==
  ASSUME NEW g, NEW S
  PROVE  SumOver(g, S) = (CHOOSE f : f = Unroll(g, f, S))[S]
BY DEF SumOver, MapThenSumSet, MapThenFoldSet, Unroll, Pick

\* A non-empty family of finite sets has a member of which no other is a part.
LEMMA MinimalSet ==
  ASSUME NEW S, IsFiniteSet(S), NEW B, B \subseteq SUBSET S, B # {}
  PROVE  \E T \in B : \A U \in B : U \subseteq T => U = T
<1>1. B \subseteq FiniteSubsetsOf(S)
  BY FS_Subset DEF FiniteSubsetsOf
<1>2. PICK T \in B : \A U \in B : <<U, T>> \notin StrictSubsetOrdering(S)
  BY <1>1, FS_StrictSubsetOrderingWellFounded, WFMin
<1> QED BY <1>2 DEF StrictSubsetOrdering

\* Two unrolled sums agree wherever both are defined.
LEMMA SumsAgree ==
  ASSUME NEW g, NEW T, NEW U, IsFiniteSet(T),
         NEW f, f = Unroll(g, f, T), NEW h, h = Unroll(g, h, U),
         NEW s, s \subseteq T, s \subseteq U
  PROVE  f[s] = h[s]
<1> DEFINE B == {r \in SUBSET s : f[r] # h[r]}
<1>1. SUFFICES ASSUME B # {} PROVE FALSE
  OBVIOUS
<1>2. IsFiniteSet(s)
  BY FS_Subset
<1>3. PICK r \in B : \A q \in B : q \subseteq r => q = r
  <2>1. B \subseteq SUBSET s
    OBVIOUS
  <2> HIDE DEF B
  <2> QED BY <1>1, <1>2, <2>1, MinimalSet
<1>4. \A q \in SUBSET s : /\ f[q] = IF q = {} THEN 0 ELSE g[Pick(q)] + f[q \ {Pick(q)}]
                          /\ h[q] = IF q = {} THEN 0 ELSE g[Pick(q)] + h[q \ {Pick(q)}]
  BY DEF Unroll
<1>5. r # {} /\ r \subseteq s
  BY <1>3, <1>4
<1>6. Pick(r) \in r
  BY <1>5 DEF Pick
<1>7. f[r \ {Pick(r)}] = h[r \ {Pick(r)}]
  BY <1>3, <1>5, <1>6
<1> QED BY <1>3, <1>4, <1>5, <1>7

\* Sums of integers can be unrolled, and are integers.
LEMMA SumUnrollable ==
  ASSUME NEW S, IsFiniteSet(S), NEW g, \A x \in S : g[x] \in Int
  PROVE  \A T \in SUBSET S : \E f \in [SUBSET T -> Int] : f = Unroll(g, f, T)
<1> DEFINE Good(T) == \E f \in [SUBSET T -> Int] : f = Unroll(g, f, T)
           B == {T \in SUBSET S : ~Good(T)}
<1>1. SUFFICES ASSUME B # {} PROVE FALSE
  OBVIOUS
<1>2. PICK T \in B : \A U \in B : U \subseteq T => U = T
  <2>1. B \subseteq SUBSET S
    OBVIOUS
  <2> HIDE DEF B
  <2> QED BY <1>1, <2>1, MinimalSet
<1> DEFINE F(U) == CHOOSE f \in [SUBSET U -> Int] : f = Unroll(g, f, U)
           h == [s \in SUBSET T |-> IF s = {} THEN 0
                                    ELSE g[Pick(s)] + F(s \ {Pick(s)})[s \ {Pick(s)}]]
<1>3. T \subseteq S /\ ~Good(T)
  BY <1>2
<1>4. ASSUME NEW U, U \subseteq T, U # T
      PROVE  F(U) \in [SUBSET U -> Int] /\ F(U) = Unroll(g, F(U), U)
  <2>1. Good(U)
    <3> HIDE DEF Good
    <3> QED BY <1>2, <1>3, <1>4
  <2> QED BY <2>1
<1> HIDE DEF F
<1>5. ASSUME NEW s \in SUBSET T, s # {}
      PROVE  Pick(s) \in s /\ s \ {Pick(s)} \subseteq T /\ s \ {Pick(s)} # T /\ g[Pick(s)] \in Int
  BY <1>3, <1>5 DEF Pick
<1>6. h \in [SUBSET T -> Int]
  <2>1. ASSUME NEW s \in SUBSET T, s # {}
        PROVE  g[Pick(s)] + F(s \ {Pick(s)})[s \ {Pick(s)}] \in Int
    <3> DEFINE r == s \ {Pick(s)}
    <3>1. r \subseteq T /\ r # T /\ g[Pick(s)] \in Int
      BY <1>5, <2>1
    <3> HIDE DEF r
    <3>2. F(r)[r] \in Int
      BY <1>4, <3>1
    <3> QED BY <3>1, <3>2 DEF r
  <2> QED BY <2>1
<1>7. ASSUME NEW s \in SUBSET T, s # {}
      PROVE  F(s \ {Pick(s)})[s \ {Pick(s)}] = h[s \ {Pick(s)}]
  <2> DEFINE r == s \ {Pick(s)}
  <2>1. r \subseteq T /\ r # T /\ r \in SUBSET T
    BY <1>5, <1>7
  <2>2. F(r) = Unroll(g, F(r), r)
    BY <1>4, <2>1
  <2>3. F(r)[r] = IF r = {} THEN 0 ELSE g[Pick(r)] + F(r)[r \ {Pick(r)}]
    <3> HIDE DEF r
    <3> QED BY <2>2 DEF Unroll
  <2>4. h[r] = IF r = {} THEN 0 ELSE g[Pick(r)] + F(r \ {Pick(r)})[r \ {Pick(r)}]
    <3> HIDE DEF r
    <3> QED BY <2>1
  <2>5. ASSUME r # {} PROVE F(r)[r \ {Pick(r)}] = F(r \ {Pick(r)})[r \ {Pick(r)}]
    <3> DEFINE q == r \ {Pick(r)}
    <3>1. q \subseteq T /\ q # T /\ q \subseteq r
      BY <1>5, <2>1, <2>5
    <3>2. F(q) = Unroll(g, F(q), q)
      BY <1>4, <3>1
    <3>3. IsFiniteSet(r)
      BY <1>3, <2>1, FS_Subset
    <3> HIDE DEF r, q
    <3>4. F(r)[q] = F(q)[q]
      BY <2>2, <3>1, <3>2, <3>3, SumsAgree
    <3> QED BY <3>4 DEF q
  <2> HIDE DEF r
  <2>6. F(r)[r] = h[r]
    BY <2>3, <2>4, <2>5
  <2> QED BY <2>6 DEF r
<1>8. h = Unroll(g, h, T)
  <2> DEFINE k == Unroll(g, h, T)
  <2>1. \A s \in SUBSET T : h[s] = IF s = {} THEN 0 ELSE g[Pick(s)] + h[s \ {Pick(s)}]
    BY <1>7
  <2> QED BY <2>1 DEF Unroll
<1>9. Good(T)
  BY <1>6, <1>8
<1> QED BY <1>3, <1>9

\* Lemma: A finite sum of integers is an integer.
LEMMA SumIsInt ==
  ASSUME NEW S, IsFiniteSet(S), NEW g, \A x \in S : g[x] \in Int
  PROVE  SumOver(g, S) \in Int
<1>1. PICK f \in [SUBSET S -> Int] : f = Unroll(g, f, S)
  BY SumUnrollable
<1> DEFINE h == CHOOSE k : k = Unroll(g, k, S)
<1>2. h = Unroll(g, h, S)
  BY <1>1
<1> HIDE DEF h
<1>3. h[S] = f[S]
  BY <1>1, <1>2, SumsAgree
<1>4. SumOver(g, S) = h[S]
  BY SumUnrolls DEF h
<1> QED BY <1>1, <1>3, <1>4

\* A sum is one row and the sum of the others.
LEMMA SumStep ==
  ASSUME NEW S, IsFiniteSet(S), NEW g, \A x \in S : g[x] \in Int
  PROVE  SumOver(g, S) = IF S = {} THEN 0 ELSE g[Pick(S)] + SumOver(g, S \ {Pick(S)})
<1> DEFINE h(T) == CHOOSE k : k = Unroll(g, k, T)
           R == S \ {Pick(S)}
<1>1. \A T \in SUBSET S : h(T) = Unroll(g, h(T), T)
  BY SumUnrollable
<1>2. \A T : SumOver(g, T) = h(T)[T]
  BY SumUnrolls
<1> HIDE DEF h
<1>3. h(S)[S] = IF S = {} THEN 0 ELSE g[Pick(S)] + h(S)[R]
  BY <1>1 DEF Unroll
<1>4. R \subseteq S /\ IsFiniteSet(R)
  BY FS_Subset
<1> HIDE DEF R
<1>5. h(S) = Unroll(g, h(S), S) /\ h(R) = Unroll(g, h(R), R)
  BY <1>1, <1>4
<1>6. h(S)[R] = h(R)[R]
  BY <1>4, <1>5, SumsAgree
<1> QED
  BY <1>2, <1>3, <1>6 DEF R

\* Rows scaled by c and shifted by d: so is their sum, by d for each of them.
LEMMA SumShifts ==
  ASSUME NEW S, IsFiniteSet(S), NEW g, \A x \in S : g[x] \in Int,
         NEW c \in Int, NEW d \in Int, NEW h, \A x \in S : h[x] = c * g[x] + d
  PROVE  SumOver(h, S) = c * SumOver(g, S) + d * Cardinality(S)
<1> DEFINE Good(T) == SumOver(h, T) = c * SumOver(g, T) + d * Cardinality(T)
           B == {T \in SUBSET S : ~ Good(T)}
<1>1. SUFFICES ASSUME B # {} PROVE FALSE
  OBVIOUS
<1>2. PICK T \in B : \A U \in B : U \subseteq T => U = T
  <2>1. B \subseteq SUBSET S
    OBVIOUS
  <2> HIDE DEF B
  <2> QED BY <1>1, <2>1, MinimalSet
<1>3. /\ T \subseteq S /\ IsFiniteSet(T) /\ ~ Good(T)
      /\ \A x \in T : g[x] \in Int /\ h[x] \in Int /\ h[x] = c * g[x] + d
  BY <1>2, FS_Subset
<1>4. /\ SumOver(g, T) = IF T = {} THEN 0 ELSE g[Pick(T)] + SumOver(g, T \ {Pick(T)})
      /\ SumOver(h, T) = IF T = {} THEN 0 ELSE h[Pick(T)] + SumOver(h, T \ {Pick(T)})
  BY <1>3, SumStep
<1>5. CASE T = {}
  BY <1>3, <1>4, <1>5, FS_EmptySet
<1>6. CASE T # {}
  <2> DEFINE p == Pick(T)
             R == T \ {p}
             n == Cardinality(R)
  <2>1. p \in T
    BY <1>6 DEF Pick
  <2>2. IsFiniteSet(R) /\ n \in Nat /\ Cardinality(T) = n + 1
    <3>1. IsFiniteSet(R) /\ n = Cardinality(T) - 1
      BY <1>3, <2>1, FS_RemoveElement
    <3>2. n \in Nat /\ Cardinality(T) \in Nat
      BY <1>3, <3>1, FS_CardinalityType
    <3> QED
      BY <3>1, <3>2
  <2>3. Good(R)
    <3>1. R \in SUBSET S /\ R \subseteq T /\ R # T
      BY <1>3, <2>1
    <3> HIDE DEF R, Good
    <3> QED
      BY <1>2, <3>1
  <2>4. SumOver(g, R) \in Int /\ g[p] \in Int
    <3>1. g[p] \in Int /\ \A x \in R : g[x] \in Int
      BY <1>3, <2>1
    <3> HIDE DEF R, p
    <3> QED
      BY <2>2, <3>1, SumIsInt
  <2>5. SumOver(h, T) = (c * g[p] + d) + (c * SumOver(g, R) + d * n)
    <3>1. SumOver(h, T) = h[p] + SumOver(h, R)
      BY <1>4, <1>6
    <3>2. h[p] = c * g[p] + d
      BY <1>3, <2>1
    <3> QED
      BY <2>3, <3>1, <3>2
  <2>6. SumOver(g, T) = g[p] + SumOver(g, R)
    BY <1>4, <1>6
  <2> HIDE DEF n, R, p
  <2>7. (c * g[p] + d) + (c * SumOver(g, R) + d * n) = c * (g[p] + SumOver(g, R)) + d * (n + 1)
    <3> SUFFICES ASSUME NEW u \in Int, NEW v \in Int, NEW m \in Nat
                 PROVE  (c * u + d) + (c * v + d * m) = c * (u + v) + d * (m + 1)
      BY <2>2, <2>4
    <3> QED
      OBVIOUS
  <2> QED
    BY <1>3, <2>2, <2>5, <2>6, <2>7
<1> QED
  BY <1>5, <1>6

-----------------------------------------------------------------------------
(* Maxima.                                                                  *)

\* A finite set of integers has its maximum among its members.
LEMMA MaxIsMember ==
  ASSUME NEW S, IsFiniteSet(S), \A i \in S : i \in Int, S # {}
  PROVE  Max(S) \in S
<1> DEFINE UpFrom(i) == {j \in S : j >= i}
           B == {UpFrom(i) : i \in S}
<1>1. PICK T \in B : \A U \in B : U \subseteq T => U = T
  <2>1. B \subseteq SUBSET S
    OBVIOUS
  <2>2. B # {}
    OBVIOUS
  <2> HIDE DEF B
  <2> QED BY <2>1, <2>2, MinimalSet
<1>2. PICK i \in S : T = UpFrom(i)
  BY <1>1
<1>3. \A j \in S : i >= j
  <2> SUFFICES ASSUME NEW j \in S, j > i PROVE FALSE
    OBVIOUS
  <2>1. UpFrom(j) \in B
    OBVIOUS
  <2>2. UpFrom(j) \subseteq T
    <3>1. \A k \in S : k >= j => k >= i
      OBVIOUS
    <3> QED BY <1>2, <3>1
  <2>3. UpFrom(j) = T
    BY <1>1, <2>1, <2>2
  <2>4. i \in T /\ i \notin UpFrom(j)
    <3>1. i \in UpFrom(i) /\ i \notin UpFrom(j)
      OBVIOUS
    <3> QED BY <1>2, <3>1
  <2> QED BY <2>3, <2>4
<1> QED BY <1>2, <1>3 DEF Max

===============================================================================
