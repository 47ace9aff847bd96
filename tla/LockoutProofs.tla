---------------------------- MODULE LockoutProofs ----------------------------
(***************************************************************************)
(* Proofs about module Lockout, for any threshold, any window and any      *)
(* number of sign-ins in flight.                                           *)
(***************************************************************************)
EXTENDS Lockout, FiniteSetTheorems, TLAPS

\* The sign-ins that were let past the check and may still record a failure.
Passed == {w \in Workers : signin[w] \in {"verify", "record"}}
Recording == {w \in Workers : signin[w] = "record"}

\* GuessesWithin(k) is not inductive: a sign-in that is being verified may become a
\* failure, so it has to be counted from the moment it passes the check.
LockoutInv(k) ==
    /\ TypeOK
    /\ Cardinality(Recent) + Cardinality(Passed) < Threshold + k

LEMMA Finite ==
    /\ \A S \in SUBSET Workers : /\ IsFiniteSet(S) /\ Cardinality(S) \in Nat
                                 /\ Cardinality(S) <= Cardinality(Workers)
    /\ \A S \in SUBSET Rows : IsFiniteSet(S) /\ Cardinality(S) \in Nat
    /\ Cardinality(Workers) \in Nat /\ Cardinality(Workers) > 0
<1>1. /\ IsFiniteSet(Workers) /\ Workers # {} /\ IsFiniteSet(Rows)
  BY LockoutAssumption
<1>2. Cardinality(Workers) \in Nat /\ Cardinality(Workers) # 0
  BY <1>1, FS_CardinalityType, FS_EmptySet
<1> QED
  BY <1>1, <1>2, FS_Subset, FS_CardinalityType

LEMMA InitInv ==
    ASSUME NEW k \in Nat, k > 0, Init
    PROVE  LockoutInv(k)
<1>1. TypeOK
  BY LockoutAssumption DEF Init, TypeOK
<1>2. Recent = {} /\ Passed = {}
  BY LockoutAssumption DEF Init, Recent, Passed
<1>3. Cardinality({}) = 0
  BY FS_EmptySet
<1> QED
  BY <1>1, <1>2, <1>3, Finite, LockoutAssumption DEF LockoutInv

\* A step after which neither the failures nor the sign-ins past the check are more.
LEMMA NoMore ==
    ASSUME NEW k \in Nat, LockoutInv(k), Recent' \in SUBSET Recent, Passed' \in SUBSET Passed
    PROVE  Cardinality(Recent') + Cardinality(Passed') < Threshold + k
<1>1. Recent \in SUBSET Rows /\ Passed \in SUBSET Workers
  BY DEF Recent, Passed
<1>2. /\ Cardinality(Recent') <= Cardinality(Recent) /\ Cardinality(Recent') \in Nat
      /\ Cardinality(Passed') <= Cardinality(Passed) /\ Cardinality(Passed') \in Nat
      /\ Cardinality(Recent) \in Nat /\ Cardinality(Passed) \in Nat
  BY <1>1, Finite, FS_Subset, FS_CardinalityType
<1> QED
  BY <1>2, Finite, LockoutAssumption DEF LockoutInv

LEMMA StepInv ==
    ASSUME NEW k \in Nat, LockoutInv(k), OverlapWithin(k)', [Next]_vars
    PROVE  LockoutInv(k)'
<1> USE DEF LockoutInv
<1>1. /\ age \in [Rows -> 0..Window]
      /\ signin \in [Workers -> {"idle", "verify", "record", "clear"}]
      /\ Window \in Nat /\ Threshold \in Nat
  BY LockoutAssumption DEF TypeOK
<1>2. ASSUME NEW w \in Workers, Check(w) PROVE LockoutInv(k)'
  <2>1. TypeOK'
    BY <1>1, <1>2 DEF Check, Goto, TypeOK
  <2>2. Recent' = Recent /\ Cardinality(Recent) < Threshold /\ Cardinality(Recent) \in Nat
    <3>1. Recent \in SUBSET Rows
      BY DEF Recent
    <3> QED
      BY <1>1, <1>2, <3>1, Finite DEF Check, Locked, Recent
  <2>3. Cardinality(Passed') \in Nat /\ Cardinality(Passed') <= k
    <3>1. Passed' \in SUBSET InFlight' /\ InFlight' \in SUBSET Workers
      BY DEF Passed, InFlight
    <3>2. Cardinality(InFlight') <= k
      BY DEF OverlapWithin
    <3>3. /\ Cardinality(InFlight') \in Nat /\ Cardinality(Passed') \in Nat
          /\ Cardinality(Passed') <= Cardinality(InFlight')
      BY <3>1, Finite, FS_Subset, FS_CardinalityType
    <3> QED
      BY <3>2, <3>3
  <2> QED
    BY <1>1, <2>1, <2>2, <2>3, Finite
<1>3. ASSUME NEW w \in Workers, Verify(w) \/ Abandon(w) PROVE LockoutInv(k)'
  <2>1. TypeOK'
    BY <1>1, <1>3 DEF Verify, Abandon, Goto, TypeOK
  <2>2. Recent' \in SUBSET Recent /\ Passed' \in SUBSET Passed
    BY <1>1, <1>3 DEF Verify, Abandon, Goto, Recent, Passed
  <2> QED
    BY <2>1, <2>2, NoMore
<1>4. ASSUME NEW w \in Workers, Record(w) PROVE LockoutInv(k)'
  <2> PICK r \in Rows \ Recent : age' = [age EXCEPT ![r] = 0]
    BY <1>4 DEF Record
  <2>1. TypeOK'
    BY <1>1, <1>4 DEF Record, Goto, TypeOK
  <2>2. Recent' \in SUBSET (Recent \cup {r})
    BY <1>1 DEF Recent
  <2>3. w \in Passed /\ Passed' = Passed \ {w}
    BY <1>1, <1>4 DEF Record, Goto, Passed
  <2>4. Recent \in SUBSET Rows /\ Passed \in SUBSET Workers
    BY DEF Recent, Passed
  <2>5. /\ IsFiniteSet(Recent) /\ Cardinality(Recent) \in Nat
        /\ IsFiniteSet(Passed) /\ Cardinality(Passed) \in Nat
    BY <2>4, Finite
  <2>6. /\ IsFiniteSet(Recent \cup {r}) /\ Cardinality(Recent \cup {r}) = Cardinality(Recent) + 1
    BY <2>5, FS_AddElement
  <2>7. Cardinality(Recent') <= Cardinality(Recent) + 1 /\ Cardinality(Recent') \in Nat
    BY <2>2, <2>6, FS_Subset, FS_CardinalityType
  <2>8. Cardinality(Passed') = Cardinality(Passed) - 1
    BY <2>3, <2>5, FS_RemoveElement
  <2> QED
    BY <1>1, <2>1, <2>5, <2>7, <2>8, Finite
<1>5. ASSUME NEW w \in Workers, Clear(w) PROVE LockoutInv(k)'
  <2>1. TypeOK'
    BY <1>1, <1>5 DEF Clear, Goto, TypeOK
  <2>2. Recent' \in SUBSET Recent /\ Passed' \in SUBSET Passed
    BY <1>1, <1>5 DEF Clear, Goto, Recent, Passed
  <2> QED
    BY <2>1, <2>2, NoMore
<1>6. CASE Tick
  <2>1. TypeOK'
    BY <1>1, <1>6 DEF Tick, TypeOK
  <2>2. Recent' \in SUBSET Recent /\ Passed' \in SUBSET Passed
    BY <1>1, <1>6 DEF Tick, Recent, Passed
  <2> QED
    BY <2>1, <2>2, NoMore
<1>7. CASE UNCHANGED vars
  BY <1>7 DEF vars, TypeOK, Recent, Passed
<1> QED
  BY <1>2, <1>3, <1>4, <1>5, <1>6, <1>7 DEF Next

\* The tables and the handlers keep their types.
THEOREM TypeCorrectness == Spec => []TypeOK
<1>1. Init => TypeOK
  BY LockoutAssumption DEF Init, TypeOK
<1>2. TypeOK /\ [Next]_vars => TypeOK'
  BY LockoutAssumption
  DEF TypeOK, Next, Check, Verify, Record, Clear, Abandon, Tick, Goto, vars
<1> QED
  BY <1>1, <1>2, PTL DEF Spec

LEMMA Bounded ==
    ASSUME NEW k \in Nat, LockoutInv(k)
    PROVE  GuessesWithin(k)
<1>1. Recording \in SUBSET Passed /\ Passed \in SUBSET Workers /\ Recent \in SUBSET Rows
  BY DEF Recording, Passed, Recent
<1>2. /\ Cardinality(Recording) <= Cardinality(Passed) /\ Cardinality(Recording) \in Nat
      /\ Cardinality(Passed) \in Nat /\ Cardinality(Recent) \in Nat
  BY <1>1, Finite, FS_Subset, FS_CardinalityType
<1> QED
  BY <1>2, LockoutAssumption DEF LockoutInv, GuessesWithin, WrongGuesses, Recording

\* With at most k sign-ins on one account in flight together, fewer wrong passwords than
\* the threshold and k are let through within one window.  Where they do not overlap at
\* all (k = 1), that is the threshold exactly.
THEOREM GuessesByOverlap ==
    ASSUME NEW k \in Nat, k > 0
    PROVE  Spec /\ []OverlapWithin(k) => []GuessesWithin(k)
<1> DEFINE Inv == LockoutInv(k)
           Overlap == OverlapWithin(k)
           Guesses == GuessesWithin(k)
<1>1. Init => Inv
  BY InitInv
<1>2. Inv /\ Overlap' /\ [Next]_vars => Inv'
  BY StepInv
<1>3. Inv => Guesses
  BY Bounded
<1> HIDE DEF Inv, Overlap, Guesses
<1>4. Spec /\ []Overlap => []Guesses
  BY <1>1, <1>2, <1>3, PTL DEF Spec
<1> QED
  BY <1>4 DEF Overlap, Guesses

\* However many sign-ins race on one account, fewer wrong passwords than the threshold
\* and the number of handlers together are let through within one window.
THEOREM GuessBound == Spec => []GuessesBounded
<1> DEFINE K == Cardinality(Workers)
           Inv == LockoutInv(K)
<1>1. K \in Nat /\ K > 0
  BY Finite
<1>2. OverlapWithin(K)'
  <2>1. InFlight' \in SUBSET Workers
    BY DEF InFlight
  <2> QED
    BY <2>1, Finite DEF OverlapWithin
<1>3. Init => Inv
  BY <1>1, InitInv
<1>4. Inv /\ [Next]_vars => Inv'
  BY <1>1, <1>2, StepInv
<1>5. Inv => GuessesBounded
  BY <1>1, Bounded DEF GuessesWithin, GuessesBounded
<1> HIDE DEF Inv
<1> QED
  BY <1>3, <1>4, <1>5, PTL DEF Spec

===============================================================================
