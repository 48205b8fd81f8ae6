--------------------------- MODULE MCBudgetLedger ---------------------------
(***************************************************************************)
(* A ledger of 3-bit counters, deltas that mint, truncate and fit.         *)
(***************************************************************************)
EXTENDS BudgetLedger

MCAllocation ==
    [p \in PoolName |-> CASE p = "main_session" -> 5
                          [] p = "consultations" -> 2
                          [] p = "mod_whisper" -> 1]

MCCosts == {1, 2}
MCDeltas == {-9, -3, 2, 7}
=============================================================================
