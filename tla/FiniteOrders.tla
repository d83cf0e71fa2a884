---------------------------- MODULE FiniteOrders ----------------------------
(***************************************************************************)
(* What the proofs need of orders on finite sets: the code sorts a list    *)
(* and takes its head, the models CHOOSE an element that nothing comes     *)
(* before.  The inclusion of finite sets is well-founded, which gives such *)
(* an element without an induction over an operator.                       *)
(***************************************************************************)
EXTENDS Integers, FiniteSets, FiniteSetTheorems, WellFoundedInduction, TLAPS

(* The elements of M that come before x in R *)
Before(R, M, x) == {y \in M : <<y, x>> \in R}

(* sort.SliceStable leaves an element first that nothing comes before: a   *)
(* finite set with an irreflexive and transitive relation has one.         *)
LEMMA FirstExists ==
  ASSUME NEW M, IsFiniteSet(M), M # {}, NEW R,
         \A x \in M : <<x, x>> \notin R,
         \A x, y, z \in M : <<x, y>> \in R /\ <<y, z>> \in R => <<x, z>> \in R
  PROVE  \E x \in M : \A y \in M : <<y, x>> \notin R
<1> DEFINE Family == {Before(R, M, x) : x \in M}
<1>1. Family \subseteq FiniteSubsetsOf(M) /\ Family # {}
  <2>1. \A x \in M : Before(R, M, x) \in SUBSET M
    BY DEF Before
  <2>2. \A x \in M : IsFiniteSet(Before(R, M, x))
    BY <2>1, FS_Subset
  <2> QED BY <2>1, <2>2 DEF FiniteSubsetsOf
<1>2. PICK U \in Family : \A V \in Family : ~(<<V, U>> \in StrictSubsetOrdering(M))
  <2> HIDE DEF Family
  <2> QED BY <1>1, FS_StrictSubsetOrderingWellFounded, WFMin
<1>3. PICK x \in M : U = Before(R, M, x)
  OBVIOUS
<1>4. ASSUME NEW y \in M, <<y, x>> \in R PROVE FALSE
  <2>1. Before(R, M, y) \subseteq U /\ y \in U /\ y \notin Before(R, M, y)
    BY <1>3, <1>4 DEF Before
  <2>2. Before(R, M, y) \in Family /\ Before(R, M, y) \in SUBSET M /\ U \in SUBSET M
    BY <1>3 DEF Before
  <2> HIDE DEF Family
  <2>3. <<Before(R, M, y), U>> \in StrictSubsetOrdering(M)
    BY <2>1, <2>2 DEF StrictSubsetOrdering
  <2> QED BY <1>2, <2>2, <2>3
<1> QED BY <1>4

(* A finite nonempty set of integers has a greatest element: the newest    *)
(* row of a list.                                                          *)
LEMMA GreatestExists ==
  ASSUME NEW M \in SUBSET Int, IsFiniteSet(M), M # {}
  PROVE  \E x \in M : \A y \in M : y <= x
<1> DEFINE R == {p \in M \X M : p[1] > p[2]}
<1>1. \A x \in M : <<x, x>> \notin R
  OBVIOUS
<1>2. \A x, y, z \in M : <<x, y>> \in R /\ <<y, z>> \in R => <<x, z>> \in R
  OBVIOUS
<1>3. PICK x \in M : \A y \in M : <<y, x>> \notin R
  <2> HIDE DEF R
  <2> QED BY <1>1, <1>2, FirstExists
<1>4. \A y \in M : y <= x
  <2> SUFFICES ASSUME NEW y \in M, ~(y <= x) PROVE FALSE
    OBVIOUS
  <2>1. <<y, x>> \in R
    OBVIOUS
  <2> QED BY <1>3, <2>1
<1> QED BY <1>4

(* A finite nonempty set of integers has a least element too *)
LEMMA LeastExists ==
  ASSUME NEW M \in SUBSET Int, IsFiniteSet(M), M # {}
  PROVE  \E x \in M : \A y \in M : x <= y
<1> DEFINE R == {p \in M \X M : p[1] < p[2]}
<1>1. \A x \in M : <<x, x>> \notin R
  OBVIOUS
<1>2. \A x, y, z \in M : <<x, y>> \in R /\ <<y, z>> \in R => <<x, z>> \in R
  OBVIOUS
<1>3. PICK x \in M : \A y \in M : <<y, x>> \notin R
  <2> HIDE DEF R
  <2> QED BY <1>1, <1>2, FirstExists
<1>4. \A y \in M : x <= y
  <2> SUFFICES ASSUME NEW y \in M, ~(x <= y) PROVE FALSE
    OBVIOUS
  <2>1. <<y, x>> \in R
    OBVIOUS
  <2> QED BY <1>3, <2>1
<1> QED BY <1>4
=============================================================================
