------------------------------ MODULE Scaling -------------------------------
(***************************************************************************)
(* A canvas's token budget and its scaling to another total                *)
(* (mission/session_runner.rs), which missions apply to every planned      *)
(* session and governance to its rooms.                                    *)
(***************************************************************************)
EXTENDS Budget

CanvasBudget == [total : Word, pools : [PoolName -> Word]]

Lesser(a, b) == IF a <= b THEN a ELSE b

SumOf(pools) == pools["main_session"] + pools["consultations"] + pools["mod_whisper"]

\* Mutant: pools are rounded up.
RescaledUp(tokens, slice, orig) ==
    {Larger(Lesser((tokens * slice + orig - 1) \div orig, U32 - 1), 1)}

\* (tokens as f64 * (slice as f64 / orig as f64)) as u32, and at least 1.  The
\* quotient is rounded: a product that is exactly an integer may come out just
\* below it.  The cast saturates.  (Exact below 2^24 or so, where every other
\* product is further from an integer than rounding reaches.)
Rescaled(tokens, slice, orig) ==
    LET product == tokens * slice
        down == product \div orig
    IN  {Larger(Lesser(n, U32 - 1), 1) :
            n \in IF product > 0 /\ product % orig = 0 THEN {down - 1, down} ELSE {down}}

\* The budgets scale_canvas_budget may answer: one it cannot or need not scale
\* as it is.
Scaled(b, slice) ==
    IF b.total = 0 \/ slice = b.total
    THEN {b}
    ELSE LET Pools(p) == Rescaled(b.pools[p], slice, b.total)
         IN  {[total |-> Lesser(slice, U32 - 1),
               pools |-> [main_session |-> m, consultations |-> c, mod_whisper |-> w]] :
                m \in Pools("main_session"), c \in Pools("consultations"),
                w \in Pools("mod_whisper")}
=============================================================================
