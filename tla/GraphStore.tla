----------------------------- MODULE GraphStore -----------------------------
(***************************************************************************)
(* The graph of one session_id between its runs: farga.rs with the callers *)
(* of load_graph and save_graph in session.rs.  An engine is made by new() *)
(* or load(), run() any number of times and dropped; nothing keeps two of  *)
(* them from living at once.  Farga, a key-value server, is external: it   *)
(* takes a PUT at some time or never, whether or not the client still      *)
(* waits for the answer.                                                   *)
(*                                                                         *)
(* A graph is what GraphRounds' GraphGrows makes of it: a version, and     *)
(* work that only grows (ids, edges, vias).  finite: is every weight of it *)
(* one JSON can hold (SessionGraph's Readable)?                            *)
(***************************************************************************)
EXTENDS Integers, FiniteSets

CONSTANTS
    Engines,        \* engines of one session_id that may live at once
    Work,           \* what rounds add to a graph
    Rounds,         \* what one round may do to it
    MaxVersion,     \* bound: versions a graph may reach
    MaxLate         \* bound: PUTs whose client is gone

\* Two deltas, and the extraction's; an update may replace a weight by NaN or
\* such a weight by a number.
ASSUME RoundsAssumption ==
    Rounds \subseteq [deltas : {2, 3}, work : SUBSET Work, finite : BOOLEAN]
ASSUME BoundsAssumption == MaxVersion \in Nat /\ MaxLate \in Nat

Graph == [version : Nat, work : SUBSET Work, finite : BOOLEAN]

\* SessionGraph::new; also what stands for a key Farga does not hold.
Fresh == [version |-> 0, work |-> {}, finite |-> TRUE]

VARIABLES
    pc,             \* none, idle, running, saving (PUT sent), saved (taken)
    graph,          \* SessionEngine::graph
    store,          \* what Farga holds
    late            \* PUTs whose client is gone, with the base of their graph

\* History variables.
VARIABLES
    base,           \* the stored graph that an engine's graph descends from
    finished,       \* graphs of runs that reached their end, and Fresh
    acknowledged,   \* work of the runs whose PUT was answered with success
    disturbed       \* a run began that does not build on all there is

historyVars == <<base, finished, acknowledged, disturbed>>
vars == <<pc, graph, store, late, historyVars>>

Init ==
    /\ pc = [e \in Engines |-> "none"]
    /\ graph = [e \in Engines |-> Fresh]
    /\ store = Fresh
    /\ late = {}
    /\ base = [e \in Engines |-> Fresh]
    /\ finished = {Fresh} /\ acknowledged = {} /\ disturbed = FALSE

Extends(g, h) == g.work \subseteq h.work /\ g.version <= h.version

Busy(e) == pc[e] \in {"running", "saving", "saved"}

\* An engine of its own takes the slot of one that is not running.
Made(e, g) ==
    /\ ~Busy(e)
    /\ pc' = [pc EXCEPT ![e] = "idle"]
    /\ graph' = [graph EXCEPT ![e] = g]
    /\ base' = [base EXCEPT ![e] = g]
    /\ UNCHANGED <<store, late, finished, acknowledged, disturbed>>

\* load_graph answers None for a graph it cannot parse.
Parsed == IF store.finite THEN store ELSE Fresh

\* load(), answered.
Load(e) == Made(e, Parsed)

\* load() without an answer, with an error status; new() and with_farga().
StartFresh(e) == Made(e, Fresh)

\* run().  It builds on all there is unless somebody else is at it, a PUT is
\* still under way or the store has moved on since the load.
Run(e) ==
    /\ pc[e] = "idle"
    /\ pc' = [pc EXCEPT ![e] = "running"]
    /\ disturbed' = (\/ disturbed
                     \/ \E f \in Engines : Busy(f)
                     \/ late # {}
                     \/ ~Extends(store, graph[e]))
    /\ UNCHANGED <<graph, store, late, base, finished, acknowledged>>

\* Mutant: what a round adds takes the place of what there was.
OnlyNew(g, work) == work

Enlarged(g, work) == g.work \cup work

Round(e) ==
    /\ pc[e] = "running"
    /\ \E r \in Rounds :
         /\ graph[e].version + r.deltas <= MaxVersion
         /\ graph' = [graph EXCEPT ![e] =
                        [version |-> @.version + r.deltas,
                         work |-> Enlarged(@, r.work), finite |-> r.finite]]
    /\ UNCHANGED <<pc, store, late, historyVars>>

\* Mutant: a run that fails saves, too.
FailAndSave(e) ==
    /\ pc[e] = "running"
    /\ pc' = [pc EXCEPT ![e] = "saving"]
    /\ UNCHANGED <<graph, store, late, historyVars>>

\* An error of the transport or of the synthesis: no save, the engine stays.
Fail(e) ==
    /\ pc[e] = "running"
    /\ pc' = [pc EXCEPT ![e] = "idle"]
    /\ UNCHANGED <<graph, store, late, historyVars>>

\* emit_output, then save_graph sends its PUT.
Finish(e) ==
    /\ pc[e] = "running"
    /\ pc' = [pc EXCEPT ![e] = "saving"]
    /\ finished' = finished \cup {graph[e]}
    /\ UNCHANGED <<graph, store, late, base, acknowledged, disturbed>>

\* Mutant: what is saved is the graph as it was loaded.
TakeAsLoaded(e) ==
    /\ pc[e] = "saving"
    /\ store' = base[e]
    /\ pc' = [pc EXCEPT ![e] = "saved"]
    /\ UNCHANGED <<graph, late, historyVars>>

\* The PUT takes effect while save_graph waits.
Take(e) ==
    /\ pc[e] = "saving"
    /\ store' = graph[e]
    /\ pc' = [pc EXCEPT ![e] = "saved"]
    /\ base' = [base EXCEPT ![e] = graph[e]]
    /\ UNCHANGED <<graph, late, finished, acknowledged, disturbed>>

\* save_graph returns; run() returns in the same way whatever it was told.
Return(e, success) ==
    /\ pc[e] = "saved"
    /\ acknowledged' = IF success THEN acknowledged \cup graph[e].work
                                  ELSE acknowledged
    /\ pc' = [pc EXCEPT ![e] = "idle"]
    /\ UNCHANGED <<graph, store, late, base, finished, disturbed>>

Left(e) == [graph |-> graph[e], base |-> base[e]]

\* What becomes of a PUT nobody waits for any more.
Abandoned(e) ==
    {late} \cup IF Cardinality(late) < MaxLate THEN {late \cup {Left(e)}} ELSE {}

\* Refused, lost, or still under way: save_graph sees an error before the PUT
\* took effect, if ever it does.
GiveUp(e) ==
    /\ pc[e] = "saving"
    /\ late' \in Abandoned(e)
    /\ pc' = [pc EXCEPT ![e] = "idle"]
    /\ UNCHANGED <<graph, store, historyVars>>

\* The process ends, or the engine is dropped; what it sent may still arrive.
Crash(e) ==
    /\ pc[e] # "none"
    /\ late' \in IF pc[e] = "saving" THEN Abandoned(e) ELSE {late}
    /\ pc' = [pc EXCEPT ![e] = "none"]
    /\ graph' = [graph EXCEPT ![e] = Fresh]
    /\ base' = [base EXCEPT ![e] = Fresh]
    /\ UNCHANGED <<store, finished, acknowledged, disturbed>>

TakeLate(put) ==
    /\ store' = put.graph
    /\ late' = late \ {put}
    /\ UNCHANGED <<pc, graph, historyVars>>

LoseLate(put) ==
    /\ late' = late \ {put}
    /\ UNCHANGED <<pc, graph, store, historyVars>>

Next ==
    \/ \E e \in Engines :
          \/ Load(e) \/ StartFresh(e) \/ Run(e) \/ Round(e) \/ Fail(e)
          \/ Finish(e) \/ Take(e) \/ GiveUp(e) \/ Crash(e)
          \/ \E success \in BOOLEAN : Return(e, success)
    \/ \E put \in late : TakeLate(put) \/ LoseLate(put)

Spec == Init /\ [][Next]_vars
-----------------------------------------------------------------------------
(* Properties. *)

\* Every variable holds a value of its type.
TypeOK ==
    /\ pc \in [Engines -> {"none", "idle", "running", "saving", "saved"}]
    /\ graph \in [Engines -> Graph]
    /\ store \in Graph
    /\ late \subseteq [graph : Graph, base : Graph]
    /\ base \in [Engines -> Graph]
    /\ finished \subseteq Graph
    /\ acknowledged \subseteq Work
    /\ disturbed \in BOOLEAN

\* Compare and set in effect: a PUT that finds in the store what its session
\* was loaded from, or what its engine stored last, loses nothing of it and
\* does not turn the version back, whoever loaded, failed, crashed or saved
\* late in between.
LosesNothing(put) == put.base = store => Extends(store, put.graph)

NoLostWork ==
    [][store' # store =>
         \/ \E e \in Engines :
               pc[e] = "saving" /\ store' = graph[e] /\ LosesNothing(Left(e))
         \/ \E put \in late : store' = put.graph /\ LosesNothing(put)]_vars

\* As long as every run begins with nobody else at work, no PUT under way and
\* a graph that builds on the stored one, the work of a run whose save was
\* acknowledged stays stored, through failures, crashes, lost answers and PUTs
\* that arrive after their client gave up.
AcknowledgedIsKept == ~disturbed => acknowledged \subseteq store.work

\* The stored graph is always the whole graph of a run that reached its end.
Register == INSTANCE GraphRegister
    WITH register <- store, published <- finished

ImplementsRegister == Register!RegisterSpec
-----------------------------------------------------------------------------
(* Documented, and not so. *)

\* session.rs, load: "If Farga is unreachable or the session has no prior
\* graph, falls back to a fresh SessionGraph".  Otherwise it continues from it.
ContinuesPriorGraph ==
    [][\A e \in Engines : Load(e) => graph'[e] = store]_vars
=============================================================================
