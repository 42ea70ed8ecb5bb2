------------------------------ MODULE Extrema ------------------------------
(***************************************************************************)
(* Max and Min of sets of naturals, which open() and the commit of a save  *)
(* take of seqnos.  Both are a CHOOSE: that there is something to choose   *)
(* follows for a bounded set from the well-foundedness of <.               *)
(***************************************************************************)
EXTENDS Integers, FiniteSetsExt, WellFoundedInduction, TLAPS

\* A bounded set of numbers has a highest one.
LEMMA MaxOf ==
    ASSUME NEW S \in SUBSET Nat, S # {}, NEW b \in Nat, \A s \in S : s <= b
    PROVE  /\ Max(S) \in S
           /\ \A s \in S : s <= Max(S)
<1> DEFINE T == {b - s : s \in S}
           R == {xy \in Nat \X Nat : xy[1] < xy[2]}
<1>1. T \subseteq Nat /\ T # {}
  <2>1. \A s \in S : b - s \in Nat
    OBVIOUS
  <2>2. PICK s \in S : TRUE
    OBVIOUS
  <2>3. b - s \in T
    OBVIOUS
  <2> QED  BY <2>1, <2>3
<1>2. \A x, y \in Nat : x < y => <<x, y>> \in R
  OBVIOUS
<1>3. IsWellFoundedOn(R, Nat)
  BY NatLessThanWellFounded DEF OpToRel
<1>. PICK t \in T : \A u \in T : ~(u < t)
  <2> HIDE DEF T, R
  <2>1. \E x \in T : \A y \in T : ~(<<y, x>> \in R)
    BY <1>1, <1>3, WFMin
  <2> QED  BY <1>1, <1>2, <2>1
<1>4. PICK m \in S : t = b - m
  OBVIOUS
<1>5. \A s \in S : m >= s
  <2> SUFFICES ASSUME NEW s \in S PROVE m >= s
    OBVIOUS
  <2>1. b - s \in T
    OBVIOUS
  <2>2. ~(b - s < b - m)
    BY <1>4, <2>1
  <2> QED  BY <2>2
<1>6. Max(S) \in S /\ \A s \in S : Max(S) >= s
  BY <1>5 DEF Max
<1> QED  BY <1>6

\* A set of numbers has a lowest one.
LEMMA MinOf ==
    ASSUME NEW S \in SUBSET Nat, S # {}
    PROVE  /\ Min(S) \in S
           /\ \A s \in S : Min(S) <= s
<1> DEFINE R == {xy \in Nat \X Nat : xy[1] < xy[2]}
<1>1. \A x, y \in Nat : x < y => <<x, y>> \in R
  OBVIOUS
<1>2. IsWellFoundedOn(R, Nat)
  BY NatLessThanWellFounded DEF OpToRel
<1>3. PICK t \in S : \A u \in S : ~(u < t)
  <2> HIDE DEF R
  <2>1. \E x \in S : \A y \in S : ~(<<y, x>> \in R)
    BY <1>2, WFMin
  <2> QED  BY <1>1, <2>1
<1>4. \A u \in S : t <= u
  BY <1>3
<1>5. Min(S) \in S /\ \A s \in S : Min(S) <= s
  BY <1>4 DEF Min
<1> QED  BY <1>5

LEMMA MaxTwo ==
    ASSUME NEW a \in Nat, NEW b \in Nat
    PROVE  /\ Max({a, b}) \in {a, b}
           /\ a <= Max({a, b}) /\ b <= Max({a, b})
<1>1. \A s \in {a, b} : s <= a + b
  OBVIOUS
<1> QED  BY <1>1, MaxOf

LEMMA MinTwo ==
    ASSUME NEW a \in Nat, NEW b \in Nat
    PROVE  Min({a, b}) \in {a, b}
<1>1. \E x \in {a, b} : \A y \in {a, b} : x =< y
  OBVIOUS
<1> QED  BY <1>1 DEF Min
=============================================================================
