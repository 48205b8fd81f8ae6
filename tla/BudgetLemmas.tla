---------------------------- MODULE BudgetLemmas ----------------------------
(***************************************************************************)
(* What the ledger's operators return for every width, amount and delta:   *)
(* the lemmas the ledger's own proofs and the session's rest on.           *)
(***************************************************************************)
EXTENDS Budget, TLAPS

\* A delta is a number.
LEMMA DeltaIsInt == Delta \subseteq Int
BY DEF Delta

\* charge keeps every counter in range: what it adds is at most what remains.
LEMMA ChargedType ==
    ASSUME NEW l \in Ledger, NEW p \in PoolName, NEW tokens \in Word
    PROVE  /\ Charged(l, p, tokens) \in Ledger
           /\ \A q \in PoolName :
                /\ Charged(l, p, tokens)[q].total = l[q].total
                /\ \/ Charged(l, p, tokens)[q].consumed = l[q].consumed
                   \/ /\ Charged(l, p, tokens)[q].consumed >= l[q].consumed
                      /\ Charged(l, p, tokens)[q].consumed <= l[q].total
<1> DEFINE m == Charged(l, p, tokens)
<1>0. U32 \in Nat /\ U32 > 0
  BY U32Assumption
<1>1. CASE CanCharge(l, p, tokens)
  <2>1. m = [l EXCEPT ![p].consumed = @ + tokens]
    BY <1>1 DEF Charged
  <2>2. tokens <= l[p].total - l[p].consumed \/ tokens = 0
    BY <1>0, <1>1 DEF CanCharge, Remaining, Ledger, Pool, Word
  <2>3. \A q \in PoolName : q # p => m[q] = l[q]
    BY <2>1 DEF Ledger
  <2>4. /\ m[p].total = l[p].total
        /\ m[p].consumed = l[p].consumed + tokens
        /\ m[p] = [total |-> l[p].total, consumed |-> l[p].consumed + tokens]
    BY <2>1 DEF Ledger, Pool
  <2>5. m[p] \in Pool
    BY <1>0, <2>2, <2>4 DEF Ledger, Pool, Word
  <2>6. m \in Ledger
    BY <2>1, <2>3, <2>5 DEF Ledger
  <2>7. \/ m[p].consumed = l[p].consumed
        \/ m[p].consumed >= l[p].consumed /\ m[p].consumed <= l[p].total
    BY <1>0, <2>2, <2>4 DEF Ledger, Pool, Word
  <2> QED
    BY <2>3, <2>4, <2>6, <2>7
<1>2. CASE ~CanCharge(l, p, tokens)
  BY <1>2 DEF Charged
<1> QED
  BY <1>1, <1>2

\* adjust keeps every total in range (that is what the cast does) and never
\* touches a consumption.
LEMMA AdjustedType ==
    ASSUME NEW l \in Ledger, NEW p \in PoolName, NEW q \in PoolName,
           NEW delta \in Int, NEW toDelta \in Int
    PROVE  /\ Adjusted(l, p, delta, q, toDelta) \in Ledger
           /\ \A r \in PoolName :
                Adjusted(l, p, delta, q, toDelta)[r].consumed = l[r].consumed
<1>0. U32 \in Nat /\ U32 > 0
  BY U32Assumption
<1> DEFINE taken == [l EXCEPT ![p].total = (@ + delta) % U32]
           clamped == Larger(taken[q].total + toDelta, taken[q].consumed)
           m == [taken EXCEPT ![q].total = clamped % U32]
<1>1. CASE CanAdjust(l, p, delta)
  <2>1. Adjusted(l, p, delta, q, toDelta) = m
    BY <1>1 DEF Adjusted
  <2>2. \A n \in Int : n % U32 \in Word
    BY <1>0 DEF Word
  <2>3. l[p].total + delta \in Int
    BY <1>0 DEF Ledger, Pool, Word
  <2>4. /\ taken \in Ledger
        /\ \A r \in PoolName : taken[r].consumed = l[r].consumed
    BY <2>2, <2>3 DEF Ledger, Pool
  <2>5. clamped \in Int
    <3> HIDE DEF taken
    <3> QED BY <1>0, <2>4 DEF Larger, Ledger, Pool, Word
  <2>6. /\ m \in Ledger
        /\ \A r \in PoolName : m[r].consumed = taken[r].consumed
    <3> HIDE DEF taken, clamped
    <3> QED BY <2>2, <2>4, <2>5 DEF Ledger, Pool
  <2> QED
    BY <2>1, <2>4, <2>6
<1>2. CASE ~CanAdjust(l, p, delta)
  BY <1>2 DEF Adjusted
<1> QED
  BY <1>1, <1>2
=============================================================================
