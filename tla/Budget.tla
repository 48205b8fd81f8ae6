------------------------------- MODULE Budget -------------------------------
(***************************************************************************)
(* The token ledger of a session (budget.rs): three pools, each with an    *)
(* allocation and a consumption, both u32.  Operators only: BudgetLedger   *)
(* is the ledger as a state machine, Round and Session use it as a part of *)
(* the session's state.                                                    *)
(***************************************************************************)
EXTENDS Integers

CONSTANT U32        \* how many values a u32 has (2^32 in the build)

ASSUME U32Assumption == U32 \in Nat \ {0, 1}

PoolName == {"main_session", "consultations", "mod_whisper"}

Word == 0 .. U32 - 1

\* The i64 deltas a directive may name, short of those whose sum with an allocation
\* or whose negation leaves i64: an [ADJUST_BUDGET] that names one of the 2^33 or so
\* at the ends of i64 panics or wraps, depending on the build, and is not modelled.
Delta == LET most == (U32 * U32) \div 2 - U32
         IN  -most .. most

Pool == [total : Word, consumed : Word]

Ledger == [PoolName -> Pool]

NewLedger(totals) == [p \in PoolName |-> [total |-> totals[p], consumed |-> 0]]

\* saturating_sub: a pool whose allocation fell below its consumption has
\* nothing left, it does not wrap around.
Remaining(pool) ==
    IF pool.consumed <= pool.total THEN pool.total - pool.consumed ELSE 0

\* Mutant: what was consumed before is forgotten.
FitsAllocation(ledger, p, tokens) == tokens <= ledger[p].total

CanCharge(ledger, p, tokens) == tokens <= Remaining(ledger[p])

\* The ledger after charge(p, tokens); a refused charge leaves it as it is.
Charged(ledger, p, tokens) ==
    IF CanCharge(ledger, p, tokens)
    THEN [ledger EXCEPT ![p].consumed = @ + tokens]
    ELSE ledger

\* Mutant: only the allocation may not become negative.
CoversNothing(ledger, from, delta) == ledger[from].total + delta >= 0

\* adjust refuses to take a pool's allocation below what it has consumed.
CanAdjust(ledger, from, delta) ==
    ledger[from].total + delta >= ledger[from].consumed

Larger(a, b) == IF a >= b THEN a ELSE b

\* Mutant: the cast back to u32 is missing.
AdjustedUncast(ledger, from, delta, to, toDelta) ==
    IF ledger[from].total + delta < ledger[from].consumed
    THEN ledger
    ELSE LET taken == [ledger EXCEPT ![from].total = @ + delta]
         IN  [taken EXCEPT ![to].total = Larger(@ + toDelta, taken[to].consumed)]

\* The ledger after adjust(from, delta, to, toDelta).  Totals are computed in
\* i64 and cast back with "as u32", which truncates.  The receiving side is
\* clamped at its consumption, so it may lose less than the other side gains.
Adjusted(ledger, from, delta, to, toDelta) ==
    IF ~CanAdjust(ledger, from, delta)
    THEN ledger
    ELSE LET taken == [ledger EXCEPT ![from].total = (@ + delta) % U32]
             clamped == Larger(taken[to].total + toDelta, taken[to].consumed)
         IN  [taken EXCEPT ![to].total = clamped % U32]

\* The pool ADJUST_BUDGET moves tokens to or from (moderator.rs).
Counterpart(p) ==
    IF p = "main_session" THEN "consultations" ELSE "main_session"
=============================================================================
