---------------------------- MODULE BudgetLedger ----------------------------
(***************************************************************************)
(* BudgetLedger (budget.rs) as a state machine: whatever sequence of       *)
(* charges and of [ADJUST_BUDGET] directives a session issues.             *)
(***************************************************************************)
EXTENDS Budget

CONSTANTS
    Allocation,     \* the canvas's pools: [PoolName -> Word]
    Costs,          \* token counts a caller may charge
    Deltas          \* deltas an [ADJUST_BUDGET] directive may carry

ASSUME AllocationAssumption == Allocation \in [PoolName -> Word]
ASSUME CostsAssumption == Costs \subseteq Word
ASSUME DeltasAssumption == Deltas \subseteq Delta

VARIABLE ledger

Init == ledger = NewLedger(Allocation)

Charge(p, tokens) ==
    /\ CanCharge(ledger, p, tokens)
    /\ ledger' = Charged(ledger, p, tokens)

\* Err(BudgetExhausted): the caller is told and nothing changes.
RefuseCharge(p, tokens) ==
    /\ ~CanCharge(ledger, p, tokens)
    /\ UNCHANGED ledger

Adjust(p, delta) ==
    /\ CanAdjust(ledger, p, delta)
    /\ ledger' = Adjusted(ledger, p, delta, Counterpart(p), -delta)

\* The moderator ignores the error: no pool has moved.
RefuseAdjust(p, delta) ==
    /\ ~CanAdjust(ledger, p, delta)
    /\ UNCHANGED ledger

Next ==
    \E p \in PoolName :
        \/ \E tokens \in Costs : Charge(p, tokens) \/ RefuseCharge(p, tokens)
        \/ \E delta \in Deltas : Adjust(p, delta) \/ RefuseAdjust(p, delta)

Spec == Init /\ [][Next]_ledger
-----------------------------------------------------------------------------
\* Both counters of every pool stay in the range of a u32: no sequence of
\* calls overflows "consumed += tokens" in charge.
TypeOK == ledger \in Ledger

\* Tokens are only ever spent out of an allocation that covers them at that
\* moment, and what is spent is never given back: neither a charge after an
\* adjustment nor a truncated total lets a pool overdraw.
SpentWithinTotal ==
    [][\A p \in PoolName :
          \/ ledger'[p].consumed = ledger[p].consumed
          \/ /\ ledger'[p].consumed > ledger[p].consumed
             /\ ledger'[p].consumed <= ledger'[p].total]_ledger

\* A call whose new totals both fit a u32, so that no cast truncates.
Fits(p, delta) ==
    /\ ledger[p].total + delta < U32
    /\ ledger[Counterpart(p)].total - delta < U32

FittingStep ==
    \E p \in PoolName :
        \/ \E tokens \in Costs : Charge(p, tokens)
        \/ \E delta \in Deltas : Fits(p, delta) /\ Adjust(p, delta)

\* No pool has consumed more than it was allocated.
Solvent == \A p \in PoolName : ledger[p].consumed <= ledger[p].total

\* No charge and no adjustment that fits a u32 makes a solvent ledger
\* insolvent: adjust's check of the one pool and its clamp of the other are
\* together enough.
StaysSolvent == [][FittingStep /\ Solvent => Solvent']_ledger
=============================================================================
