---------------------------- MODULE BudgetProofs ----------------------------
(***************************************************************************)
(* What BudgetLedger guarantees for every width, allocation, cost and      *)
(* delta.                                                                  *)
(***************************************************************************)
EXTENDS BudgetLedger, BudgetLemmas

\* What one step may do, stated once for the theorems below.
LEMMA StepType == TypeOK /\ [Next]_ledger => TypeOK'
<1> SUFFICES ASSUME TypeOK, [Next]_ledger
             PROVE  TypeOK'
  OBVIOUS
<1>1. ASSUME NEW p \in PoolName, NEW tokens \in Costs, Charge(p, tokens)
      PROVE  TypeOK'
  BY <1>1, ChargedType, CostsAssumption DEF TypeOK, Charge
<1>2. ASSUME NEW p \in PoolName, NEW delta \in Deltas, Adjust(p, delta)
      PROVE  TypeOK'
  <2>1. Counterpart(p) \in PoolName /\ delta \in Int /\ -delta \in Int
    BY DeltaIsInt, DeltasAssumption DEF Counterpart, PoolName
  <2> QED
    BY <1>2, <2>1, AdjustedType DEF TypeOK, Adjust
<1>3. ASSUME NEW p \in PoolName, NEW tokens \in Costs, RefuseCharge(p, tokens)
      PROVE  TypeOK'
  BY <1>3 DEF TypeOK, RefuseCharge
<1>4. ASSUME NEW p \in PoolName, NEW delta \in Deltas, RefuseAdjust(p, delta)
      PROVE  TypeOK'
  BY <1>4 DEF TypeOK, RefuseAdjust
<1>5. CASE UNCHANGED ledger
  BY <1>5 DEF TypeOK
<1> QED
  BY <1>1, <1>2, <1>3, <1>4, <1>5 DEF Next

\* No sequence of charges and adjustments drives a u32 counter of the ledger
\* out of range (charge's "consumed += tokens" cannot overflow).
THEOREM TypeCorrect == Spec => []TypeOK
<1>1. Init => TypeOK
  <2>1. U32 \in Nat /\ U32 > 0
    BY U32Assumption
  <2> QED
    BY <2>1, AllocationAssumption
       DEF Init, TypeOK, NewLedger, Ledger, Pool, Word
<1>2. TypeOK /\ [Next]_ledger => TypeOK'
  BY StepType
<1> QED
  BY <1>1, <1>2, PTL DEF Spec

\* Whatever the deltas, truncated or not, tokens are spent only out of an
\* allocation that covers them, and nothing spent is refunded.
THEOREM SpendingCovered == Spec => SpentWithinTotal
<1> DEFINE Covered ==
      \A p \in PoolName :
          \/ ledger'[p].consumed = ledger[p].consumed
          \/ /\ ledger'[p].consumed > ledger[p].consumed
             /\ ledger'[p].consumed <= ledger'[p].total
<1>1. TypeOK /\ [Next]_ledger => [Covered]_ledger
  <2> SUFFICES ASSUME TypeOK, Next
               PROVE  Covered \/ UNCHANGED ledger
    OBVIOUS
  <2>0. U32 \in Nat /\ U32 > 0
    BY U32Assumption
  <2>1. ASSUME NEW p \in PoolName, NEW tokens \in Costs, Charge(p, tokens)
        PROVE  Covered
    <3>1. tokens \in Word
      BY CostsAssumption
    <3>2. ledger' \in Ledger /\ ledger \in Ledger
      BY <2>1, <3>1, ChargedType DEF TypeOK, Charge
    <3>3. \A q \in PoolName :
            /\ ledger'[q].total = ledger[q].total
            /\ \/ ledger'[q].consumed = ledger[q].consumed
               \/ /\ ledger'[q].consumed >= ledger[q].consumed
                  /\ ledger'[q].consumed <= ledger[q].total
      BY <2>1, <3>1, ChargedType DEF TypeOK, Charge
    <3>4. \A q \in PoolName :
            /\ ledger[q].consumed \in Int
            /\ ledger'[q].consumed \in Int
            /\ ledger[q].total \in Int
      BY <2>0, <3>2 DEF Ledger, Pool, Word
    <3>5. TAKE q \in PoolName
    <3> QED
      BY <3>3, <3>4
  <2>2. ASSUME NEW p \in PoolName, NEW delta \in Deltas, Adjust(p, delta)
        PROVE  Covered
    <3>1. Counterpart(p) \in PoolName /\ delta \in Int /\ -delta \in Int
      BY DeltaIsInt, DeltasAssumption DEF Counterpart, PoolName
    <3> QED
      BY <2>2, <3>1, AdjustedType DEF TypeOK, Adjust
  <2>3. ASSUME NEW p \in PoolName, NEW tokens \in Costs, RefuseCharge(p, tokens)
        PROVE  UNCHANGED ledger
    BY <2>3 DEF RefuseCharge
  <2>4. ASSUME NEW p \in PoolName, NEW delta \in Deltas, RefuseAdjust(p, delta)
        PROVE  UNCHANGED ledger
    BY <2>4 DEF RefuseAdjust
  <2> QED
    BY <2>1, <2>2, <2>3, <2>4 DEF Next
<1> QED
  BY <1>1, TypeCorrect, PTL DEF Spec, SpentWithinTotal

\* One step: that a pool's new total is what adjust computed, and not that
\* value truncated, needs the range TypeOK gives.
LEMMA SolventStep == TypeOK /\ Solvent /\ FittingStep => Solvent'
<1> SUFFICES ASSUME TypeOK, Solvent, FittingStep
             PROVE  Solvent'
  OBVIOUS
<1>0. U32 \in Nat /\ U32 > 0
  BY U32Assumption
<1>1. ASSUME NEW p \in PoolName, NEW tokens \in Costs, Charge(p, tokens)
      PROVE  Solvent'
  <2>1. tokens \in Word
    BY CostsAssumption
  <2>2. \A q \in PoolName :
          /\ ledger'[q].total = ledger[q].total
          /\ \/ ledger'[q].consumed = ledger[q].consumed
             \/ /\ ledger'[q].consumed >= ledger[q].consumed
                /\ ledger'[q].consumed <= ledger[q].total
    BY <1>1, <2>1, ChargedType DEF TypeOK, Charge
  <2> QED
    BY <2>2 DEF Solvent
<1>2. ASSUME NEW p \in PoolName, NEW delta \in Deltas, Fits(p, delta),
             Adjust(p, delta)
      PROVE  Solvent'
  <2> DEFINE q == Counterpart(p)
             taken == [ledger EXCEPT ![p].total = (@ + delta) % U32]
             clamped == Larger(taken[q].total - delta, taken[q].consumed)
             m == [taken EXCEPT ![q].total = clamped % U32]
  <2>1. /\ q \in PoolName /\ q # p
        /\ delta \in Int
    BY DeltaIsInt, DeltasAssumption DEF Counterpart, PoolName
  <2>2. ledger' = m
    BY <1>2 DEF Adjust, Adjusted
  <2>3. \A n \in Word : n % U32 = n
    BY <1>0 DEF Word
  <2>4. \A r \in PoolName : ledger[r].total \in Word /\ ledger[r].consumed \in Word
    BY DEF TypeOK, Ledger, Pool
  <2>5. /\ ledger[p].total + delta \in Word
        /\ ledger[p].total + delta >= ledger[p].consumed
        /\ ledger[q].total - delta < U32
    BY <1>0, <1>2, <2>1, <2>4 DEF Adjust, CanAdjust, Fits, Word
  <2>6. /\ taken[p].total = ledger[p].total + delta
        /\ taken[q] = ledger[q]
        /\ \A r \in PoolName : taken[r].consumed = ledger[r].consumed
        /\ \A r \in PoolName : r # p => taken[r] = ledger[r]
        /\ DOMAIN taken = PoolName
        /\ DOMAIN taken[q] = {"total", "consumed"}
    BY <2>1, <2>3, <2>5 DEF TypeOK, Ledger, Pool
  <2>7. /\ clamped \in Word
        /\ clamped >= ledger[q].consumed
    <3> HIDE DEF taken
    <3> QED BY <1>0, <2>1, <2>4, <2>5, <2>6 DEF Larger, Word
  <2>8. /\ ledger'[q].total = clamped
        /\ \A r \in PoolName : ledger'[r].consumed = ledger[r].consumed
        /\ \A r \in PoolName : r # q => ledger'[r] = taken[r]
    <3> HIDE DEF taken, clamped
    <3> QED BY <2>1, <2>2, <2>3, <2>6, <2>7
  <2>9. ASSUME NEW r \in PoolName
        PROVE  ledger'[r].consumed <= ledger'[r].total
    <3> HIDE DEF taken, clamped
    <3>1. CASE r = q
      BY <3>1, <1>0, <2>1, <2>4, <2>7, <2>8 DEF Word
    <3>2. CASE r = p
      BY <3>2, <1>0, <2>1, <2>4, <2>5, <2>6, <2>8 DEF Word
    <3>3. CASE r # p /\ r # q
      BY <3>3, <1>0, <2>4, <2>6, <2>8 DEF Solvent, Word
    <3> QED
      BY <3>1, <3>2, <3>3
  <2> QED
    BY <2>9 DEF Solvent
<1> QED
  BY <1>1, <1>2 DEF FittingStep

\* A step of calls that fit is one of the ledger's steps (budget.rs).
LEMMA FittingIsNext == FittingStep => Next
  BY DEF FittingStep, Next

\* Whatever happened before, truncation included: a solvent ledger stays so
\* through every charge and every adjustment that fits.
THEOREM PoolsStaySolvent == Spec => StaysSolvent
<1>1. TypeOK /\ [Next]_ledger => [FittingStep /\ Solvent => Solvent']_ledger
  BY SolventStep
<1> QED
  BY <1>1, TypeCorrect, PTL DEF Spec, StaysSolvent

\* As long as no adjustment needs more than 32 bits, no pool ever holds less
\* than it has consumed.
THEOREM PoolsSolvent == Init /\ [][FittingStep]_ledger => []Solvent
<1>1. Init => Solvent
  <2>1. U32 \in Nat /\ U32 > 0
    BY U32Assumption
  <2> QED
    BY <2>1, AllocationAssumption DEF Init, Solvent, NewLedger, Word
<1>2. [FittingStep]_ledger => [Next]_ledger
  BY FittingIsNext
<1>3. TypeOK /\ Solvent /\ [FittingStep]_ledger => Solvent'
  <2>1. Solvent /\ UNCHANGED ledger => Solvent'
    BY DEF Solvent
  <2> QED
    BY <2>1, SolventStep
<1> QED
  BY <1>1, <1>2, <1>3, TypeCorrect, PTL DEF Spec
=============================================================================
