-------------------------- MODULE GraphStoreProofs --------------------------
(***************************************************************************)
(* What the engines of one session may rely on of the stored graph, for    *)
(* any number of engines, rounds, versions and requests under way.         *)
(***************************************************************************)
EXTENDS GraphStore, TLAPS

\* Fresh is a graph.
LEMMA FreshIsGraph == Fresh \in Graph
BY DEF Fresh, Graph

\* An abandoned PUT is late, or lost.
LEMMA AbandonedPuts ==
    ASSUME NEW e, NEW l \in Abandoned(e)
    PROVE  l \subseteq late \cup {Left(e)}
BY DEF Abandoned

\* Whatever a round does, the engine's graph extends what it was.
LEMMA RoundExtends ==
    ASSUME TypeOK, NEW e \in Engines, Round(e)
    PROVE  /\ graph' \in [Engines -> Graph]
           /\ Extends(graph[e], graph'[e])
           /\ \A f \in Engines \ {e} : graph'[f] = graph[f]
<1>1. PICK r \in Rounds :
         graph' = [graph EXCEPT ![e] =
                     [version |-> @.version + r.deltas,
                      work |-> @.work \cup r.work, finite |-> r.finite]]
  BY DEF Round, Enlarged
<1>2. r.deltas \in Nat /\ r.work \subseteq Work /\ r.finite \in BOOLEAN
  BY RoundsAssumption
<1>3. graph[e].version \in Nat /\ graph[e].work \subseteq Work
  BY DEF TypeOK, Graph
<1>4. graph'[e] = [version |-> graph[e].version + r.deltas,
                   work |-> graph[e].work \cup r.work, finite |-> r.finite]
  BY <1>1 DEF TypeOK
<1>5. graph'[e] \in Graph
  BY <1>2, <1>3, <1>4 DEF Graph
<1>6. Extends(graph[e], graph'[e])
  BY <1>2, <1>3, <1>4 DEF Extends
<1> QED
  BY <1>1, <1>5, <1>6 DEF TypeOK

-----------------------------------------------------------------------------
(* Types. *)

\* No engine has loaded yet, and a store is empty or holds a graph.
LEMMA TypeInit == Init => TypeOK
BY FreshIsGraph DEF Init, TypeOK

\* Loading, working, failing, crashing and every answer of the store keep types.
LEMMA TypeStep == TypeOK /\ [Next]_vars => TypeOK'
<1> SUFFICES ASSUME TypeOK, [Next]_vars
             PROVE  TypeOK'
  OBVIOUS
<1> USE DEF TypeOK
<1>1. ASSUME NEW e \in Engines, Load(e) \/ StartFresh(e)
      PROVE  TypeOK'
  <2>1. Parsed \in Graph
    BY FreshIsGraph DEF Parsed
  <2> QED
    BY <1>1, <2>1, FreshIsGraph DEF Load, StartFresh, Made
<1>2. ASSUME NEW e \in Engines, Run(e) \/ Fail(e) \/ Finish(e)
      PROVE  TypeOK'
  BY <1>2 DEF Run, Fail, Finish, historyVars
<1>3. ASSUME NEW e \in Engines, Round(e)
      PROVE  TypeOK'
  BY <1>3, RoundExtends DEF Round, historyVars
<1>4. ASSUME NEW e \in Engines, Take(e)
      PROVE  TypeOK'
  BY <1>4 DEF Take
<1>5. ASSUME NEW e \in Engines, NEW success \in BOOLEAN, Return(e, success)
      PROVE  TypeOK'
  BY <1>5 DEF Return, Graph
<1>6. ASSUME NEW e \in Engines, GiveUp(e) \/ Crash(e)
      PROVE  TypeOK'
  <2>1. Left(e) \in [graph : Graph, base : Graph]
    BY DEF Left
  <2>2. late' \subseteq late \cup {Left(e)}
    BY <1>6, AbandonedPuts DEF GiveUp, Crash
  <2> QED
    BY <1>6, <2>1, <2>2, FreshIsGraph DEF GiveUp, Crash, historyVars
<1>7. ASSUME NEW put \in late, TakeLate(put) \/ LoseLate(put)
      PROVE  TypeOK'
  BY <1>7 DEF TakeLate, LoseLate, historyVars
<1>8. CASE UNCHANGED vars
  BY <1>8 DEF vars, historyVars
<1> QED
  BY <1>1, <1>2, <1>3, <1>4, <1>5, <1>6, <1>7, <1>8 DEF Next

\* Every variable keeps a value of its type.
THEOREM StoreTyped == Spec => []TypeOK
BY TypeInit, TypeStep, PTL DEF Spec

-----------------------------------------------------------------------------
(* No lost work: graphs extend what they descend from. *)

Lineage ==
    /\ \A e \in Engines : Extends(base[e], graph[e])
    /\ \A put \in late : Extends(put.base, put.graph)

\* A graph continues itself: what load() gives an engine is its own base.
LEMMA ExtendsItself == ASSUME NEW g \in Graph PROVE Extends(g, g)
BY DEF Extends, Graph

\* Continuing is transitive: the rounds of a run continue what was loaded.
LEMMA ExtendsOn ==
    ASSUME NEW g \in Graph, NEW h \in Graph, NEW k \in Graph,
           Extends(g, h), Extends(h, k)
    PROVE  Extends(g, k)
BY DEF Extends, Graph

\* No engine holds a graph it has not started from.
LEMMA LineageInit == Init => Lineage
BY FreshIsGraph, ExtendsItself DEF Init, Lineage

\* Every engine, and every PUT that is late, holds what it started from and more.
LEMMA LineageStep == TypeOK /\ Lineage /\ [Next]_vars => Lineage'
<1> SUFFICES ASSUME TypeOK, Lineage, [Next]_vars
             PROVE  Lineage'
  OBVIOUS
<1> USE DEF Lineage, TypeOK
<1>1. ASSUME NEW e \in Engines, Load(e) \/ StartFresh(e)
      PROVE  Lineage'
  <2>1. PICK g \in Graph : Made(e, g)
    BY <1>1, FreshIsGraph DEF Load, StartFresh, Parsed
  <2> QED
    BY <2>1, ExtendsItself DEF Made, Extends
<1>2. ASSUME NEW e \in Engines, Run(e) \/ Fail(e) \/ Finish(e)
      PROVE  Lineage'
  BY <1>2 DEF Run, Fail, Finish, historyVars, Extends
<1>3. ASSUME NEW e \in Engines, Round(e)
      PROVE  Lineage'
  <2>1. base' = base /\ late' = late
    BY <1>3 DEF Round, historyVars
  <2>2. Extends(base[e], graph'[e])
    BY <1>3, RoundExtends, ExtendsOn
  <2>3. \A f \in Engines \ {e} : Extends(base[f], graph'[f])
    BY <1>3, RoundExtends
  <2> QED
    BY <2>1, <2>2, <2>3 DEF Extends
<1>4. ASSUME NEW e \in Engines, Take(e)
      PROVE  Lineage'
  BY <1>4, ExtendsItself DEF Take, Extends
<1>5. ASSUME NEW e \in Engines, NEW success \in BOOLEAN, Return(e, success)
      PROVE  Lineage'
  BY <1>5 DEF Return, Extends
<1>6. ASSUME NEW e \in Engines, GiveUp(e) \/ Crash(e)
      PROVE  Lineage'
  <2>1. late' \subseteq late \cup {Left(e)}
    BY <1>6, AbandonedPuts DEF GiveUp, Crash
  <2>2. \A put \in late' : Extends(put.base, put.graph)
    BY <2>1 DEF Left
  <2>3. \A f \in Engines : Extends(base'[f], graph'[f])
    BY <1>6, FreshIsGraph, ExtendsItself DEF GiveUp, Crash, historyVars
  <2> QED
    BY <2>2, <2>3 DEF Extends
<1>7. ASSUME NEW put \in late, TakeLate(put) \/ LoseLate(put)
      PROVE  Lineage'
  BY <1>7 DEF TakeLate, LoseLate, historyVars, Extends
<1>8. CASE UNCHANGED vars
  BY <1>8 DEF vars, historyVars, Extends
<1> QED
  BY <1>1, <1>2, <1>3, <1>4, <1>5, <1>6, <1>7, <1>8 DEF Next

\* The store changes only when a PUT takes effect.
LEMMA StoreChanges ==
    ASSUME [Next]_vars, store' # store
    PROVE  \/ \E e \in Engines : Take(e)
           \/ \E put \in late : TakeLate(put)
BY DEF Next, Load, StartFresh, Made, Run, Round, Fail, Finish, Return, GiveUp,
       Crash, LoseLate, vars

\* A PUT that finds what its session builds on loses nothing of it.
THEOREM PutsLoseNothing == Spec => NoLostWork
<1>1. ASSUME Lineage, [Next]_vars, store' # store
      PROVE  \/ \E e \in Engines :
                   pc[e] = "saving" /\ store' = graph[e] /\ LosesNothing(Left(e))
             \/ \E put \in late : store' = put.graph /\ LosesNothing(put)
  BY <1>1, StoreChanges DEF Lineage, Take, TakeLate, LosesNothing, Left
<1>2. Lineage /\ [Next]_vars
        => [store' # store =>
              \/ \E e \in Engines :
                    pc[e] = "saving" /\ store' = graph[e] /\ LosesNothing(Left(e))
              \/ \E put \in late : store' = put.graph /\ LosesNothing(put)]_vars
  BY <1>1
<1> QED
  BY TypeInit, TypeStep, LineageInit, LineageStep, <1>2, PTL DEF Spec, NoLostWork

-----------------------------------------------------------------------------
(* Acknowledged work: as long as runs follow each other, the one that is at *)
(* work, and the PUT that outlived it, build on everything acknowledged.    *)

InTurn ==
    /\ acknowledged \subseteq store.work
    /\ \A e, f \in Engines : Busy(e) /\ Busy(f) => e = f
    /\ \A e \in Engines : Busy(e) => late = {} /\ acknowledged \subseteq graph[e].work
    /\ \A e \in Engines : pc[e] = "saved" => graph[e].work \subseteq store.work
    /\ \A put \in late : acknowledged \subseteq put.graph.work

\* Nothing is acknowledged before the first run, and no engine is at work.
LEMMA InTurnInit == Init => InTurn
BY DEF Init, InTurn, Busy

\* As long as no run is disturbed, each step keeps runs one after the other
\* and the graph at work a continuation of all that was acknowledged.
LEMMA InTurnStep ==
    TypeOK /\ (~disturbed => InTurn) /\ [Next]_vars => (~disturbed' => InTurn')
<1> SUFFICES ASSUME TypeOK, ~disturbed => InTurn, [Next]_vars, ~disturbed'
             PROVE  InTurn'
  OBVIOUS
<1>1. InTurn /\ ~disturbed
  <2>1. disturbed \in BOOLEAN
    BY DEF TypeOK
  <2>2. disturbed' = disturbed \/ \E e \in Engines : Run(e)
    BY DEF Next, Load, StartFresh, Made, Round, Fail, Finish, Take, Return,
       GiveUp, Crash, TakeLate, LoseLate, historyVars, vars
  <2>3. disturbed => disturbed'
    BY <2>1, <2>2 DEF Run
  <2> QED
    BY <2>3
<1> USE <1>1 DEF TypeOK, InTurn, Busy
<1>2. ASSUME NEW e \in Engines, Load(e) \/ StartFresh(e)
      PROVE  InTurn'
  BY <1>2 DEF Load, StartFresh, Made
<1>3. ASSUME NEW e \in Engines, Run(e)
      PROVE  InTurn'
  BY <1>3 DEF Run, Extends
<1>4. ASSUME NEW e \in Engines, Round(e)
      PROVE  InTurn'
  <2>1. /\ graph[e].work \subseteq graph'[e].work
        /\ \A f \in Engines \ {e} : graph'[f] = graph[f]
    BY <1>4, RoundExtends DEF Extends
  <2>2. pc[e] = "running" /\ UNCHANGED <<pc, store, late, acknowledged>>
    BY <1>4 DEF Round, historyVars
  <2> QED
    BY <2>1, <2>2
<1>5. ASSUME NEW e \in Engines, Fail(e) \/ Finish(e)
      PROVE  InTurn'
  BY <1>5 DEF Fail, Finish, historyVars
<1>6. ASSUME NEW e \in Engines, Take(e)
      PROVE  InTurn'
  BY <1>6 DEF Take
<1>7. ASSUME NEW e \in Engines, NEW success \in BOOLEAN, Return(e, success)
      PROVE  InTurn'
  BY <1>7 DEF Return
<1>8. ASSUME NEW e \in Engines, GiveUp(e) \/ Crash(e)
      PROVE  InTurn'
  <2>1. /\ late' \subseteq late \cup {Left(e)}
        /\ pc[e] # "saving" => late' = late
    BY <1>8, AbandonedPuts DEF GiveUp, Crash
  <2>2. \A put \in late' : acknowledged \subseteq put.graph.work
    BY <2>1 DEF Left
  <2>3. ~Busy(e)' /\ \A f \in Engines \ {e} : pc'[f] = pc[f] /\ graph'[f] = graph[f]
    BY <1>8 DEF GiveUp, Crash
  <2>4. UNCHANGED <<store, acknowledged>>
    BY <1>8 DEF GiveUp, Crash, historyVars
  <2>5. ASSUME NEW f \in Engines, Busy(f)'
        PROVE  f # e /\ Busy(f) /\ late' = {}
    BY <2>1, <2>3, <2>5
  <2> QED
    BY <2>2, <2>3, <2>4, <2>5
<1>9. ASSUME NEW put \in late, TakeLate(put) \/ LoseLate(put)
      PROVE  InTurn'
  BY <1>9 DEF TakeLate, LoseLate, historyVars
<1>10. CASE UNCHANGED vars
  BY <1>10 DEF vars, historyVars
<1> QED
  BY <1>2, <1>3, <1>4, <1>5, <1>6, <1>7, <1>8, <1>9, <1>10 DEF Next

\* The work of an acknowledged save stays stored while runs follow each other.
THEOREM AcknowledgedStays == Spec => []AcknowledgedIsKept
<1>1. (~disturbed => InTurn) => AcknowledgedIsKept
  BY DEF InTurn, AcknowledgedIsKept
<1>2. Init => (~disturbed => InTurn)
  BY InTurnInit
<1> QED
  BY TypeInit, TypeStep, <1>1, <1>2, InTurnStep, PTL DEF Spec

-----------------------------------------------------------------------------
(* Refinement: what is under way has been published. *)

Published ==
    /\ \A e \in Engines : pc[e] \in {"saving", "saved"} => graph[e] \in finished
    /\ \A put \in late : put.graph \in finished

\* A PUT that is under way, late ones included, carries the graph of a run that
\* reached its end; every step is then one of the register's, or none.
LEMMA PublishedStep ==
    TypeOK /\ Published /\ [Next]_vars
      => Published' /\ [Register!Next]_<<store, finished>>
<1> SUFFICES ASSUME TypeOK, Published, [Next]_vars
             PROVE  Published' /\ [Register!Next]_<<store, finished>>
  OBVIOUS
<1> USE DEF TypeOK, Published
<1>1. ASSUME NEW e \in Engines, Load(e) \/ StartFresh(e) \/ Run(e) \/ Fail(e)
      PROVE  Published' /\ UNCHANGED <<store, finished>>
  BY <1>1 DEF Load, StartFresh, Made, Busy, Run, Fail, historyVars
<1>2. ASSUME NEW e \in Engines, Round(e)
      PROVE  Published' /\ UNCHANGED <<store, finished>>
  BY <1>2, RoundExtends DEF Round, historyVars
<1>3. ASSUME NEW e \in Engines, Finish(e)
      PROVE  Published' /\ Register!Publish
  BY <1>3 DEF Finish, Register!Publish
<1>4. ASSUME NEW e \in Engines, Take(e)
      PROVE  Published' /\ Register!TakeEffect
  BY <1>4 DEF Take, Register!TakeEffect
<1>5. ASSUME NEW e \in Engines, NEW success \in BOOLEAN, Return(e, success)
      PROVE  Published' /\ UNCHANGED <<store, finished>>
  BY <1>5 DEF Return
<1>6. ASSUME NEW e \in Engines, GiveUp(e) \/ Crash(e)
      PROVE  Published' /\ UNCHANGED <<store, finished>>
  <2>1. /\ late' \subseteq late \cup {Left(e)}
        /\ pc[e] # "saving" => late' = late
    BY <1>6, AbandonedPuts DEF GiveUp, Crash
  <2>2. UNCHANGED <<store, finished>>
    BY <1>6 DEF GiveUp, Crash, historyVars
  <2>3. \A put \in late' : put.graph \in finished
    BY <2>1 DEF Left
  <2>4. /\ pc'[e] \in {"idle", "none"}
        /\ \A f \in Engines \ {e} : pc'[f] = pc[f] /\ graph'[f] = graph[f]
    BY <1>6 DEF GiveUp, Crash
  <2> QED
    BY <2>2, <2>3, <2>4
<1>7. ASSUME NEW put \in late, TakeLate(put)
      PROVE  Published' /\ Register!TakeEffect
  BY <1>7 DEF TakeLate, historyVars, Register!TakeEffect
<1>8. ASSUME NEW put \in late, LoseLate(put)
      PROVE  Published' /\ UNCHANGED <<store, finished>>
  BY <1>8 DEF LoseLate, historyVars
<1>9. CASE UNCHANGED vars
  BY <1>9 DEF vars, historyVars
<1> QED
  BY <1>1, <1>2, <1>3, <1>4, <1>5, <1>6, <1>7, <1>8, <1>9 DEF Next, Register!Next

\* Every step of the engines and the store is one of the register, or none.
THEOREM StoreIsRegister == Spec => ImplementsRegister
<1>1. Init => Published /\ Register!Init
  BY DEF Init, Published, Register!Init
<1> QED
  BY TypeInit, TypeStep, <1>1, PublishedStep, PTL
  DEF Spec, ImplementsRegister, Register!RegisterSpec
=============================================================================
