----------------------------- MODULE GraphProofs -----------------------------
(***************************************************************************)
(* What the rounds keep of the session graph, for any seats, replies,      *)
(* extractions and any graph a resumed session starts from.                *)
(*                                                                         *)
(* Deltas, blocks and ops are folds over sequences.  The first section     *)
(* makes a fold the last state of a run of its steps; the facts about a    *)
(* fold are then proved for every state of that run, by the least one that *)
(* would break them.                                                       *)
(***************************************************************************)
EXTENDS GraphProps, FiniteSetTheorems, SequenceTheorems, TLAPS

\* A set of naturals that is not empty has a least member.
LEMMA Least ==
    ASSUME NEW T \in SUBSET Nat, T # {}
    PROVE  \E m \in T : \A k \in T : m <= k
<1>1. PICK x \in T : \A y \in T : <<y, x>> \notin OpToRel(<, Nat)
  BY NatLessThanWellFounded, WFMin
<1>2. \A y \in T : ~(y < x)
  BY <1>1 DEF OpToRel
<1> QED
  BY <1>2

\* A set that holds 0, and i whenever it holds i - 1, holds every number up to n.
LEMMA Induct ==
    ASSUME NEW n \in Nat, NEW good, 0 \in good,
           \A i \in 1 .. n : i - 1 \in good => i \in good
    PROVE  \A i \in 0 .. n : i \in good
<1> DEFINE bad == {i \in 0 .. n : i \notin good}
<1> SUFFICES ASSUME bad # {}
             PROVE  FALSE
  OBVIOUS
<1>1. PICK m \in bad : \A i \in bad : m <= i
  <2>1. bad \in SUBSET Nat
    OBVIOUS
  <2> QED
    BY <2>1, Least
<1>2. m \in 1 .. n /\ m - 1 \notin bad
  BY <1>1
<1> QED
  BY <1>1, <1>2

\* The largest member of a set of numbers is its maximum.
LEMMA MaxIs ==
    ASSUME NEW S \in SUBSET Int, NEW m \in S, \A x \in S : x <= m
    PROVE  Max(S) = m
<1>1. \A y \in S : m >= y
  OBVIOUS
<1>2. Max(S) \in S /\ \A y \in S : Max(S) >= y
  BY <1>1 DEF Max
<1>3. Max(S) \in Int /\ m \in Int /\ Max(S) >= m /\ m >= Max(S)
  BY <1>1, <1>2
<1> QED
  BY <1>3

\* Numbers with a bound have a maximum.
LEMMA MaxOfBounded ==
    ASSUME NEW n \in Nat, NEW S \in SUBSET (1 .. n), S # {}
    PROVE  Max(S) \in S /\ \A x \in S : x <= Max(S)
<1> DEFINE gaps == {n - x : x \in S}
<1>1. gaps \in SUBSET Nat /\ gaps # {}
  <2>1. \A x \in S : x \in 1 .. n /\ n - x \in Nat
    OBVIOUS
  <2> QED
    BY <2>1
<1>2. PICK g \in gaps : \A k \in gaps : g <= k
  BY <1>1, Least
<1>3. PICK m \in S : g = n - m
  BY <1>2
<1>4. \A x \in S : x <= m
  <2>1. ASSUME NEW x \in S
        PROVE  x <= m
    <3>1. g <= n - x /\ x \in Int /\ m \in Int
      BY <1>2
    <3> QED
      BY <1>3, <3>1
  <2> QED
    BY <2>1
<1>5. Max(S) = m
  <2>1. S \in SUBSET Int
    OBVIOUS
  <2> QED
    BY <1>4, <2>1, MaxIs
<1> QED
  BY <1>4, <1>5

\* One step of each fold of the model; c is what a step sees besides.
Step(op, c, acc, x) ==
    IF op = "Inserted" THEN Inserted(acc, x)
    ELSE IF op = "Updated" THEN Updated(acc, x)
    ELSE IF op = "Pushed" THEN Pushed(acc, x)
    ELSE IF op = "PushOp" THEN PushOp(acc, x)
    ELSE IF op = "PushBlock" THEN PushBlock(c, acc, x)
    ELSE Extended(acc, x)

\* f is the function by which the fold over k elements is defined.
Folds(f, op, c, base, s, k) ==
    f = [t \in SUBSET (1 .. k) |->
           IF t = {} THEN base ELSE Step(op, c, f[t \ {Max(t)}], s[Max(t)])]

\* Such a function for k elements gives one for k + 1.
LEMMA FoldsOne ==
    ASSUME NEW op, NEW c, NEW base, NEW s, NEW k \in Nat, NEW f, Folds(f, op, c, base, s, k)
    PROVE  \E g : Folds(g, op, c, base, s, k + 1)
<1> DEFINE g == [t \in SUBSET (1 .. k + 1) |->
                   IF k + 1 \in t THEN Step(op, c, f[t \ {k + 1}], s[k + 1]) ELSE f[t]]
<1>1. ASSUME NEW t \in SUBSET (1 .. k + 1)
      PROVE  g[t] = IF t = {} THEN base ELSE Step(op, c, g[t \ {Max(t)}], s[Max(t)])
  <2>1. CASE k + 1 \in t
    <3>1. Max(t) = k + 1
      BY <2>1, MaxIs
    <3>2. t \ {k + 1} \in SUBSET (1 .. k)
      BY <2>1
    <3>3. g[t \ {k + 1}] = f[t \ {k + 1}]
      BY <3>2
    <3> QED
      BY <2>1, <3>1, <3>3
  <2>2. CASE k + 1 \notin t
    <3>1. t \in SUBSET (1 .. k) /\ g[t] = f[t]
      BY <2>2
    <3>2. g[t \ {Max(t)}] = f[t \ {Max(t)}]
      BY <2>2
    <3> QED
      BY <3>1, <3>2 DEF Folds
  <2> QED
    BY <2>1, <2>2
<1>2. Folds(g, op, c, base, s, k + 1)
  BY <1>1 DEF Folds
<1> QED
  BY <1>2

\* So the function exists for any number of elements.
LEMMA FoldsExist ==
    ASSUME NEW op, NEW c, NEW base, NEW s, NEW n \in Nat
    PROVE  \E f : Folds(f, op, c, base, s, n)
<1> DEFINE good == {k \in 0 .. n : \E f : Folds(f, op, c, base, s, k)}
<1>1. 0 \in good
  <2>1. SUBSET (1 .. 0) = {{}}
    OBVIOUS
  <2>2. Folds([t \in SUBSET (1 .. 0) |-> base], op, c, base, s, 0)
    BY <2>1 DEF Folds
  <2> QED
    BY <2>2
<1>2. ASSUME NEW k \in 1 .. n, k - 1 \in good
      PROVE  k \in good
  <2>1. PICK f : Folds(f, op, c, base, s, k - 1)
    BY <1>2
  <2>2. k - 1 \in Nat /\ (k - 1) + 1 = k
    OBVIOUS
  <2>3. \E g : Folds(g, op, c, base, s, (k - 1) + 1)
    BY <2>1, <2>2, FoldsOne
  <2> QED
    BY <2>2, <2>3
<1> HIDE DEF good
<1>3. n \in good
  <2>1. \A i \in 0 .. n : i \in good
    BY <1>1, <1>2, Induct
  <2> QED
    BY <1>1, <2>1
<1> QED
  BY <1>3 DEF good

\* h runs through the states of a fold over n elements.
Runs(h, op, c, base, s, n) ==
    /\ h[0] = base
    /\ \A i \in 1 .. n : h[i] = Step(op, c, h[i - 1], s[i])

\* The function a fold is defined by gives such a run.
LEMMA FoldRuns ==
    ASSUME NEW op, NEW c, NEW base, NEW s, NEW n \in Nat, NEW f, Folds(f, op, c, base, s, n)
    PROVE  \E h : Runs(h, op, c, base, s, n) /\ h[n] = f[1 .. n]
<1> DEFINE h == [i \in 0 .. n |-> f[1 .. i]]
<1>1. h[0] = base
  <2>1. 1 .. 0 = {}
    OBVIOUS
  <2> QED
    BY <2>1 DEF Folds
<1>2. ASSUME NEW i \in 1 .. n
      PROVE  h[i] = Step(op, c, h[i - 1], s[i])
  <2>1. i \in Nat \ {0} /\ i <= n
    OBVIOUS
  <2>2. Max(1 .. i) = i
    <3>1. 1 .. i \in SUBSET Int /\ i \in 1 .. i /\ \A x \in 1 .. i : x <= i
      BY <2>1
    <3> QED
      BY <3>1, MaxIs
  <2>3. (1 .. i) \ {i} = 1 .. (i - 1)
    BY <2>1
  <2>4. 1 .. i # {} /\ 1 .. i \in SUBSET (1 .. n)
    BY <2>1
  <2>5. f[1 .. i] = Step(op, c, f[(1 .. i) \ {Max(1 .. i)}], s[Max(1 .. i)])
    BY <2>4 DEF Folds
  <2>6. h[i] = f[1 .. i] /\ h[i - 1] = f[1 .. (i - 1)]
    BY <2>1
  <2> HIDE DEF h
  <2>7. f[1 .. i] = Step(op, c, f[1 .. (i - 1)], s[i])
    BY <2>2, <2>3, <2>5
  <2> QED
    BY <2>6, <2>7
<1>3. h[n] = f[1 .. n]
  OBVIOUS
<1> HIDE DEF h
<1>4. Runs(h, op, c, base, s, n)
  BY <1>1, <1>2 DEF Runs
<1> QED
  BY <1>3, <1>4

\* The nodes of a delta, inserted one by one.
LEMMA InsertedRuns ==
    ASSUME NEW base, NEW s, NEW n \in Nat, DOMAIN s = 1 .. n
    PROVE  \E h : Runs(h, "Inserted", 0, base, s, n) /\ h[n] = FoldLeft(Inserted, base, s)
<1> DEFINE f == CHOOSE f : f = [t \in SUBSET (DOMAIN s) |->
                  IF t = {} THEN base ELSE Inserted(f[t \ {Max(t)}], s[Max(t)])]
<1>1. FoldLeft(Inserted, base, s) = f[DOMAIN s]
  BY DEF FoldLeft, MapThenFoldSet
<1>2. PICK g : Folds(g, "Inserted", 0, base, s, n)
  BY FoldsExist
<1>3. g = [t \in SUBSET (DOMAIN s) |->
             IF t = {} THEN base ELSE Inserted(g[t \ {Max(t)}], s[Max(t)])]
  BY <1>2 DEF Folds, Step
<1>4. Folds(f, "Inserted", 0, base, s, n)
  BY <1>3 DEF Folds, Step
<1> HIDE DEF f
<1> QED
  BY <1>1, <1>4, FoldRuns

\* Its updates, one by one.
LEMMA UpdatedRuns ==
    ASSUME NEW base, NEW s, NEW n \in Nat, DOMAIN s = 1 .. n
    PROVE  \E h : Runs(h, "Updated", 0, base, s, n) /\ h[n] = FoldLeft(Updated, base, s)
<1> DEFINE f == CHOOSE f : f = [t \in SUBSET (DOMAIN s) |->
                  IF t = {} THEN base ELSE Updated(f[t \ {Max(t)}], s[Max(t)])]
<1>1. FoldLeft(Updated, base, s) = f[DOMAIN s]
  BY DEF FoldLeft, MapThenFoldSet
<1>2. PICK g : Folds(g, "Updated", 0, base, s, n)
  BY FoldsExist
<1>3. g = [t \in SUBSET (DOMAIN s) |->
             IF t = {} THEN base ELSE Updated(g[t \ {Max(t)}], s[Max(t)])]
  BY <1>2 DEF Folds, Step
<1>4. Folds(f, "Updated", 0, base, s, n)
  BY <1>3 DEF Folds, Step
<1> HIDE DEF f
<1> QED
  BY <1>1, <1>4, FoldRuns

\* The ops of a delta, pushed one by one.
LEMMA PushedRuns ==
    ASSUME NEW base, NEW s, NEW n \in Nat, DOMAIN s = 1 .. n
    PROVE  \E h : Runs(h, "Pushed", 0, base, s, n) /\ h[n] = FoldLeft(Pushed, base, s)
<1> DEFINE f == CHOOSE f : f = [t \in SUBSET (DOMAIN s) |->
                  IF t = {} THEN base ELSE Pushed(f[t \ {Max(t)}], s[Max(t)])]
<1>1. FoldLeft(Pushed, base, s) = f[DOMAIN s]
  BY DEF FoldLeft, MapThenFoldSet
<1>2. PICK g : Folds(g, "Pushed", 0, base, s, n)
  BY FoldsExist
<1>3. g = [t \in SUBSET (DOMAIN s) |->
             IF t = {} THEN base ELSE Pushed(g[t \ {Max(t)}], s[Max(t)])]
  BY <1>2 DEF Folds, Step
<1>4. Folds(f, "Pushed", 0, base, s, n)
  BY <1>3 DEF Folds, Step
<1> HIDE DEF f
<1> QED
  BY <1>1, <1>4, FoldRuns

\* The lines of a proposal, one by one.
LEMMA PushOpRuns ==
    ASSUME NEW base, NEW s, NEW n \in Nat, DOMAIN s = 1 .. n
    PROVE  \E h : Runs(h, "PushOp", 0, base, s, n) /\ h[n] = FoldLeft(PushOp, base, s)
<1> DEFINE f == CHOOSE f : f = [t \in SUBSET (DOMAIN s) |->
                  IF t = {} THEN base ELSE PushOp(f[t \ {Max(t)}], s[Max(t)])]
<1>1. FoldLeft(PushOp, base, s) = f[DOMAIN s]
  BY DEF FoldLeft, MapThenFoldSet
<1>2. PICK g : Folds(g, "PushOp", 0, base, s, n)
  BY FoldsExist
<1>3. g = [t \in SUBSET (DOMAIN s) |->
             IF t = {} THEN base ELSE PushOp(g[t \ {Max(t)}], s[Max(t)])]
  BY <1>2 DEF Folds, Step
<1>4. Folds(f, "PushOp", 0, base, s, n)
  BY <1>3 DEF Folds, Step
<1> HIDE DEF f
<1> QED
  BY <1>1, <1>4, FoldRuns

\* The lines of a reply, one by one.
LEMMA PushBlockRuns ==
    ASSUME NEW lines, NEW n \in Nat, DOMAIN lines = 1 .. n
    PROVE  \E h : /\ Runs(h, "PushBlock", lines, <<>>, [i \in 1 .. n |-> i], n)
                  /\ h[n] = agent_blocks(lines)
<1> DEFINE s == [i \in DOMAIN lines |-> i]
           f == CHOOSE f : f = [t \in SUBSET (DOMAIN s) |->
                  IF t = {} THEN <<>>
                  ELSE PushBlock(lines, f[t \ {Max(t)}], s[Max(t)])]
<1>1. agent_blocks(lines) = f[DOMAIN s]
  BY DEF agent_blocks, FoldLeft, MapThenFoldSet
<1>2. PICK g : Folds(g, "PushBlock", lines, <<>>, s, n)
  BY FoldsExist
<1>3. g = [t \in SUBSET (DOMAIN s) |->
             IF t = {} THEN <<>> ELSE PushBlock(lines, g[t \ {Max(t)}], s[Max(t)])]
  BY <1>2 DEF Folds, Step
<1>4. Folds(f, "PushBlock", lines, <<>>, s, n)
  BY <1>3 DEF Folds, Step
<1>5. DOMAIN s = 1 .. n /\ s = [i \in 1 .. n |-> i]
  OBVIOUS
<1> HIDE DEF f, s
<1>6. PICK h : Runs(h, "PushBlock", lines, <<>>, s, n) /\ h[n] = f[1 .. n]
  BY <1>4, FoldRuns
<1>7. h[n] = agent_blocks(lines)
  BY <1>1, <1>5, <1>6
<1>8. Runs(h, "PushBlock", lines, <<>>, [i \in 1 .. n |-> i], n)
  BY <1>5, <1>6
<1> QED
  BY <1>7, <1>8

\* The blocks of a reply, one by one.
LEMMA ExtendedRuns ==
    ASSUME NEW base, NEW s, NEW n \in Nat, DOMAIN s = 1 .. n
    PROVE  \E h : Runs(h, "Extended", 0, base, s, n) /\ h[n] = FoldLeft(Extended, base, s)
<1> DEFINE f == CHOOSE f : f = [t \in SUBSET (DOMAIN s) |->
                  IF t = {} THEN base ELSE Extended(f[t \ {Max(t)}], s[Max(t)])]
<1>1. FoldLeft(Extended, base, s) = f[DOMAIN s]
  BY DEF FoldLeft, MapThenFoldSet
<1>2. PICK g : Folds(g, "Extended", 0, base, s, n)
  BY FoldsExist
<1>3. g = [t \in SUBSET (DOMAIN s) |->
             IF t = {} THEN base ELSE Extended(g[t \ {Max(t)}], s[Max(t)])]
  BY <1>2 DEF Folds, Step
<1>4. Folds(f, "Extended", 0, base, s, n)
  BY <1>3 DEF Folds, Step
<1> HIDE DEF f
<1> QED
  BY <1>1, <1>4, FoldRuns

-----------------------------------------------------------------------------
(* Lists. *)

Listed(s) == s \in Seq(ToSet(s))

\* A list of anything is a list of its elements.
LEMMA ListOfAny ==
    ASSUME NEW S, NEW s \in Seq(S)
    PROVE  Listed(s)
<1>1. Len(s) \in Nat /\ DOMAIN s = 1 .. Len(s) /\ s = [i \in 1 .. Len(s) |-> s[i]]
  OBVIOUS
<1>2. \A i \in 1 .. Len(s) : s[i] \in ToSet(s)
  BY <1>1 DEF ToSet
<1> QED
  BY <1>1, <1>2 DEF Listed

\* What a list is: elements at 1 up to its length.
LEMMA ListFacts ==
    ASSUME NEW s, Listed(s)
    PROVE  /\ Len(s) \in Nat /\ DOMAIN s = 1 .. Len(s)
           /\ \A x \in ToSet(s) : \E i \in 1 .. Len(s) : x = s[i]
BY DEF Listed, ToSet

\* Appending keeps a list and adds one element at its end.
LEMMA AppendListed ==
    ASSUME NEW s, Listed(s), NEW e
    PROVE  /\ Listed(Append(s, e))
           /\ Len(Append(s, e)) = Len(s) + 1
           /\ Append(s, e)[Len(s) + 1] = e
           /\ \A i \in 1 .. Len(s) : Append(s, e)[i] = s[i]
<1> DEFINE S == ToSet(s) \cup {e}
<1>1. s \in Seq(S) /\ e \in S
  BY DEF Listed
<1> HIDE DEF S
<1>2. Append(s, e) \in Seq(S)
  BY <1>1
<1>3. /\ Len(Append(s, e)) = Len(s) + 1
      /\ Append(s, e)[Len(s) + 1] = e
      /\ \A i \in 1 .. Len(s) : Append(s, e)[i] = s[i]
  BY <1>1
<1> QED
  BY <1>2, <1>3, ListOfAny

\* So does concatenating, the elements of the second after those of the first.
LEMMA ConcatListed ==
    ASSUME NEW s, Listed(s), NEW t, Listed(t)
    PROVE  /\ Listed(s \o t)
           /\ Len(s \o t) = Len(s) + Len(t)
           /\ \A i \in 1 .. Len(s) : (s \o t)[i] = s[i]
           /\ \A i \in 1 .. Len(t) : (s \o t)[Len(s) + i] = t[i]
           /\ IsPrefix(s, s \o t)
<1> DEFINE S == ToSet(s) \cup ToSet(t)
<1>1. s \in Seq(S) /\ t \in Seq(S)
  BY DEF Listed
<1> HIDE DEF S
<1>2. s \o t \in Seq(S)
  BY <1>1
<1>3. /\ Len(s \o t) = Len(s) + Len(t)
      /\ \A i \in 1 .. Len(s) : (s \o t)[i] = s[i]
      /\ \A i \in 1 .. Len(t) : (s \o t)[Len(s) + i] = t[i]
  BY <1>1
<1>4. IsPrefix(s, s \o t)
  <2>1. SubSeq(s, 1, Len(s)) = SubSeq(s \o t, 1, Len(s))
    BY <1>1, <1>2, <1>3
  <2> QED
    BY <1>1, <1>3, <2>1 DEF IsPrefix
<1> QED
  BY <1>2, <1>3, <1>4, ListOfAny
\* list is what F holds at the positions in P, in their order; at tells where.
TakenAt(at, list, F, P) ==
    /\ at \in [1 .. Len(list) -> P]
    /\ \A j, k \in 1 .. Len(list) : j < k => at[j] < at[k]
    /\ \A i \in P : \E k \in 1 .. Len(list) : at[k] = i
    /\ \A k \in 1 .. Len(list) : list[k] = F[at[k]]

Taken(list, F, P) == Listed(list) /\ \E at : TakenAt(at, list, F, P)

\* What stands behind everything taken is taken behind it.
LEMMA TakenConcat ==
    ASSUME NEW list, NEW more, NEW F, NEW P \in SUBSET Nat, NEW Q \in SUBSET Nat,
           Taken(list, F, P), Taken(more, F, Q),
           \A i \in P : \A j \in Q : i < j
    PROVE  Taken(list \o more, F, P \cup Q)
<1>1. PICK at : TakenAt(at, list, F, P)
  BY DEF Taken
<1>2. PICK bt : TakenAt(bt, more, F, Q)
  BY DEF Taken
<1> DEFINE n == Len(list)
           m == Len(more)
           all == list \o more
           ct == [k \in 1 .. n + m |-> IF k <= n THEN at[k] ELSE bt[k - n]]
<1>3. Listed(list) /\ Listed(more)
  BY DEF Taken
<1>4. /\ n \in Nat /\ m \in Nat /\ Listed(all) /\ Len(all) = n + m
      /\ \A k \in 1 .. n : all[k] = list[k]
      /\ \A k \in 1 .. m : all[n + k] = more[k]
  BY <1>3, ListFacts, ConcatListed
<1>5. /\ at \in [1 .. n -> P]
      /\ \A j, k \in 1 .. n : j < k => at[j] < at[k]
      /\ \A i \in P : \E k \in 1 .. n : at[k] = i
      /\ \A k \in 1 .. n : list[k] = F[at[k]]
  BY <1>1 DEF TakenAt
<1>6. /\ bt \in [1 .. m -> Q]
      /\ \A j, k \in 1 .. m : j < k => bt[j] < bt[k]
      /\ \A i \in Q : \E k \in 1 .. m : bt[k] = i
      /\ \A k \in 1 .. m : more[k] = F[bt[k]]
  BY <1>2 DEF TakenAt
<1> HIDE DEF n, m, all
<1>7. \A k \in 1 .. n : ct[k] = at[k] /\ at[k] \in P
  BY <1>4, <1>5
<1>8. \A k \in 1 .. m : n + k \in 1 .. n + m /\ ct[n + k] = bt[k] /\ bt[k] \in Q
  BY <1>4, <1>6
<1>9. \A k \in 1 .. n + m : k \in 1 .. n \/ \E j \in 1 .. m : k = n + j
  <2>1. ASSUME NEW k \in 1 .. n + m, k \notin 1 .. n
        PROVE  k - n \in 1 .. m /\ k = n + (k - n)
    BY <1>4, <2>1
  <2> QED
    BY <2>1
<1>10. ct \in [1 .. n + m -> P \cup Q]
  <2>1. ASSUME NEW k \in 1 .. n + m
        PROVE  ct[k] \in P \cup Q
    <3> HIDE DEF ct
    <3>1. CASE k \in 1 .. n
      BY <1>7, <3>1
    <3>2. CASE \E j \in 1 .. m : k = n + j
      BY <1>8, <3>2
    <3> QED
      BY <1>9, <3>1, <3>2
  <2> QED
    BY <2>1
<1> HIDE DEF ct
<1>11. ASSUME NEW j \in 1 .. n + m, NEW k \in 1 .. n + m, j < k
       PROVE  ct[j] < ct[k]
  <2>1. CASE j \in 1 .. n /\ k \in 1 .. n
    BY <1>5, <1>7, <1>11, <2>1
  <2>2. CASE j \in 1 .. n /\ k \notin 1 .. n
    BY <1>7, <1>8, <1>9, <2>2
  <2>3. CASE j \notin 1 .. n
    <3>1. PICK i \in 1 .. m : j = n + i
      BY <1>9, <2>3
    <3>2. k \notin 1 .. n
      BY <1>4, <1>11, <2>3
    <3>3. PICK l \in 1 .. m : k = n + l
      BY <1>9, <3>2
    <3>4. i < l
      BY <1>4, <1>11, <3>1, <3>3
    <3> QED
      BY <1>6, <1>8, <3>1, <3>3, <3>4
  <2> QED
    BY <2>1, <2>2, <2>3
<1>12. ASSUME NEW i \in P \cup Q
       PROVE  \E k \in 1 .. n + m : ct[k] = i
  <2>1. CASE i \in P
    <3>1. PICK k \in 1 .. n : at[k] = i
      BY <1>5, <2>1
    <3>2. k \in 1 .. n + m
      BY <1>4
    <3> QED
      BY <1>7, <3>1, <3>2
  <2>2. CASE i \in Q
    BY <1>6, <1>8, <2>2
  <2> QED
    BY <2>1, <2>2
<1>13. ASSUME NEW k \in 1 .. n + m
       PROVE  all[k] = F[ct[k]]
  <2>1. CASE k \in 1 .. n
    BY <1>4, <1>5, <1>7, <2>1
  <2>2. CASE k \notin 1 .. n
    <3>1. PICK j \in 1 .. m : k = n + j
      BY <1>9, <2>2
    <3>2. all[k] = more[j] /\ ct[k] = bt[j]
      BY <1>4, <1>8, <3>1
    <3> QED
      BY <1>6, <3>2
  <2> QED
    BY <2>1, <2>2
<1>14. TakenAt(ct, all, F, P \cup Q)
  BY <1>4, <1>10, <1>11, <1>12, <1>13 DEF TakenAt
<1> QED
  BY <1>4, <1>14 DEF Taken, all

\* At no positions there is nothing.
LEMMA TakenNone ==
    ASSUME NEW F
    PROVE  Taken(<<>>, F, {})
<1>1. Listed(<<>>) /\ Len(<<>>) = 0
  BY DEF Listed
<1>2. TakenAt([k \in 1 .. 0 |-> 0], <<>>, F, {})
  BY <1>1 DEF TakenAt
<1> QED
  BY <1>1, <1>2 DEF Taken

\* One more is appended.
LEMMA TakenMore ==
    ASSUME NEW list, NEW F, NEW P \in SUBSET Nat, NEW i \in Nat, Taken(list, F, P),
           \A j \in P : j < i
    PROVE  Taken(Append(list, F[i]), F, P \cup {i})
<1> DEFINE x == F[i]
<1> HIDE DEF x
<1>1. <<x>> \in Seq({x}) /\ Len(<<x>>) = 1 /\ <<x>>[1] = x
  OBVIOUS
<1>2. Listed(<<x>>)
  BY <1>1, ListOfAny
<1>3. TakenAt([k \in 1 .. 1 |-> i], <<x>>, F, {i})
  BY <1>1 DEF TakenAt, x
<1>4. Taken(<<x>>, F, {i})
  BY <1>2, <1>3 DEF Taken
<1>5. Taken(list \o <<x>>, F, P \cup {i})
  BY <1>4, TakenConcat
<1>6. list \in Seq(ToSet(list) \cup {x})
  BY DEF Taken, Listed
<1>7. Append(list, x) = list \o <<x>>
  BY <1>6
<1> QED
  BY <1>5, <1>7 DEF x
-----------------------------------------------------------------------------
(* Layers. *)

RightLayer(type) == IF type = "supporting" THEN "semantic" ELSE "causal"

\* The layers' part of IsGraph.
Layered(layers) ==
    /\ DOMAIN layers = LayerKind
    /\ \A l \in LayerKind : \A id \in DOMAIN layers[l] :
          /\ DOMAIN layers[l][id] = {"id", "type", "aw", "ep"}
          /\ layers[l][id].id = id
          /\ l = RightLayer(layers[l][id].type)

\* new is layers with node n under its id in the layer of its type, and every
\* other node as it was.
WithNode(new, layers, n) ==
    /\ Layered(new)
    /\ \A l \in LayerKind :
         DOMAIN new[l] = DOMAIN layers[l] \cup IF l = RightLayer(n.type) THEN {n.id} ELSE {}
    /\ new[RightLayer(n.type)][n.id] = NodeOf(n)
    /\ \A l \in LayerKind : \A id \in DOMAIN layers[l] :
         l # RightLayer(n.type) \/ id # n.id => new[l][id] = layers[l][id]

\* That is what inserting does.
LEMMA InsertedKeeps ==
    ASSUME NEW layers, Layered(layers), NEW n
    PROVE  WithNode(Inserted(layers, n), layers, n)
<1> DEFINE r == RightLayer(n.type)
           new == Inserted(layers, n)
<1>1. r \in LayerKind /\ r = Routed(layers, n)
  BY DEF RightLayer, LayerKind, Routed
<1>2. new = [layers EXCEPT ![r] = [id \in {n.id} \cup DOMAIN layers[r] |->
                                     IF id = n.id THEN NodeOf(n) ELSE layers[r][id]]]
  BY <1>1 DEF Inserted, Put
<1>3. /\ DOMAIN new = LayerKind
      /\ \A l \in LayerKind \ {r} : new[l] = layers[l]
      /\ DOMAIN new[r] = {n.id} \cup DOMAIN layers[r]
      /\ new[r][n.id] = NodeOf(n)
      /\ \A id \in DOMAIN layers[r] : id # n.id => new[r][id] = layers[r][id]
  BY <1>1, <1>2 DEF Layered
<1>4. /\ DOMAIN NodeOf(n) = {"id", "type", "aw", "ep"}
      /\ NodeOf(n).id = n.id /\ NodeOf(n).type = n.type
  BY DEF NodeOf
<1> HIDE DEF new
<1>5. Layered(new)
  BY <1>1, <1>3, <1>4 DEF Layered
<1> QED
  BY <1>1, <1>3, <1>5 DEF new, WithNode

\* The first layer that holds an id is one that holds it.
LEMMA FirstHolderHolds ==
    ASSUME NEW layers, NEW id, Holders(layers, id) # {}
    PROVE  /\ FirstHolder(layers, id) \in LayerKind
           /\ id \in DOMAIN layers[FirstHolder(layers, id)]
<1>1. Holders(layers, id) \in SUBSET Nat
  BY DEF Holders, SearchOrder
<1>2. PICK m \in Holders(layers, id) : \A k \in Holders(layers, id) : m <= k
  BY <1>1, Least
<1>3. Min(Holders(layers, id)) \in Holders(layers, id)
  BY <1>2 DEF Min
<1> QED
  BY <1>3 DEF Holders, FirstHolder, SearchOrder, LayerKind

\* new is layers with weights changed as update u asks, in one layer at most.
WithUpdate(new, layers, u) ==
    /\ Layered(new)
    /\ \A l \in LayerKind :
         /\ DOMAIN new[l] = DOMAIN layers[l]
         /\ \A id \in DOMAIN layers[l] :
              LET hit == id = u.id /\ l = FirstHolder(layers, id)
              IN  /\ new[l][id].type = layers[l][id].type
                  /\ new[l][id].aw = IF hit /\ u.aw # Keep THEN u.aw ELSE layers[l][id].aw
                  /\ new[l][id].ep = IF hit /\ u.ep # Keep THEN u.ep ELSE layers[l][id].ep

\* That is what updating does.
LEMMA UpdatedKeeps ==
    ASSUME NEW layers, Layered(layers), NEW u
    PROVE  WithUpdate(Updated(layers, u), layers, u)
<1>1. CASE Holders(layers, u.id) = {}
  <2>1. \A l \in LayerKind : u.id \notin DOMAIN layers[l]
    BY <1>1 DEF Holders, SearchOrder, LayerKind
  <2> QED
    BY <1>1, <2>1 DEF Updated, WithUpdate
<1>2. CASE Holders(layers, u.id) # {}
  <2> DEFINE r == FirstHolder(layers, u.id)
             old == layers[r][u.id]
             node == Reweighted(old, u)
             new == Updated(layers, u)
  <2>1. r \in LayerKind /\ u.id \in DOMAIN layers[r]
    BY <1>2, FirstHolderHolds
  <2>2. new = [layers EXCEPT ![r] = [@ EXCEPT ![u.id] = node]]
    BY <1>2 DEF Updated
  <2>3. /\ DOMAIN old = {"id", "type", "aw", "ep"} /\ old.id = u.id
        /\ r = RightLayer(old.type)
    BY <2>1 DEF Layered
  <2> HIDE DEF r, old
  <2>4. /\ DOMAIN node = {"id", "type", "aw", "ep"}
        /\ node.id = old.id /\ node.type = old.type
        /\ node.aw = IF u.aw = Keep THEN old.aw ELSE u.aw
        /\ node.ep = IF u.ep = Keep THEN old.ep ELSE u.ep
    BY <2>3 DEF Reweighted
  <2> HIDE DEF node
  <2>5. /\ DOMAIN new = LayerKind
        /\ \A l \in LayerKind : DOMAIN new[l] = DOMAIN layers[l]
        /\ \A l \in LayerKind : \A id \in DOMAIN layers[l] :
             new[l][id] = IF l = r /\ id = u.id THEN node ELSE layers[l][id]
    BY <2>1, <2>2 DEF Layered
  <2> HIDE DEF new
  <2>6. Layered(new)
    BY <2>1, <2>3, <2>4, <2>5 DEF Layered
  <2> QED
    BY <2>3, <2>4, <2>5, <2>6 DEF new, r, old, WithUpdate
<1> QED
  BY <1>1, <1>2

\* Whether a node takes the place of another.
Same(n, m) == n.id = m.id /\ RightLayer(n.type) = RightLayer(m.type)

\* The layers after nodes were inserted: the last of those that take each
\* other's place is the one that is found.
NodesIn(layers, before, nodes, n) ==
    /\ Layered(layers)
    /\ \A l \in LayerKind : DOMAIN before[l] \subseteq DOMAIN layers[l]
    /\ \A j \in 1 .. n :
          (\A k \in j + 1 .. n : ~Same(nodes[k], nodes[j])) =>
             /\ nodes[j].id \in DOMAIN layers[RightLayer(nodes[j].type)]
             /\ layers[RightLayer(nodes[j].type)][nodes[j].id] = NodeOf(nodes[j])

\* One more node keeps this.
LEMMA NodesInOneMore ==
    ASSUME NEW layers, NEW before, NEW nodes, NEW i \in Nat \ {0},
           NodesIn(layers, before, nodes, i - 1)
    PROVE  NodesIn(Inserted(layers, nodes[i]), before, nodes, i)
<1> DEFINE new == Inserted(layers, nodes[i])
<1>0. WithNode(new, layers, nodes[i])
  BY InsertedKeeps DEF NodesIn
<1> HIDE DEF new
<1>1. /\ Layered(new)
      /\ \A l \in LayerKind :
           DOMAIN new[l] = DOMAIN layers[l] \cup
                             IF l = RightLayer(nodes[i].type) THEN {nodes[i].id} ELSE {}
      /\ new[RightLayer(nodes[i].type)][nodes[i].id] = NodeOf(nodes[i])
      /\ \A l \in LayerKind : \A id \in DOMAIN layers[l] :
           l # RightLayer(nodes[i].type) \/ id # nodes[i].id => new[l][id] = layers[l][id]
  BY <1>0 DEF WithNode
<1>2. \A type : RightLayer(type) \in LayerKind
  BY DEF RightLayer, LayerKind
<1>3. ASSUME NEW j \in 1 .. i, \A k \in j + 1 .. i : ~Same(nodes[k], nodes[j])
      PROVE  /\ nodes[j].id \in DOMAIN new[RightLayer(nodes[j].type)]
             /\ new[RightLayer(nodes[j].type)][nodes[j].id] = NodeOf(nodes[j])
  <2>1. CASE j = i
    BY <1>1, <1>2, <2>1
  <2>2. CASE j # i
    <3>1. j \in 1 .. i - 1 /\ i \in j + 1 .. i
      BY <2>2
    <3>2. ~Same(nodes[i], nodes[j])
      BY <1>3, <3>1
    <3>3. \A k \in j + 1 .. i - 1 : ~Same(nodes[k], nodes[j])
      BY <1>3, <3>1
    <3>4. /\ nodes[j].id \in DOMAIN layers[RightLayer(nodes[j].type)]
          /\ layers[RightLayer(nodes[j].type)][nodes[j].id] = NodeOf(nodes[j])
      BY <3>1, <3>3 DEF NodesIn
    <3> QED
      BY <1>1, <1>2, <3>2, <3>4 DEF Same
  <2> QED
    BY <2>1, <2>2
<1>4. \A l \in LayerKind : DOMAIN before[l] \subseteq DOMAIN new[l]
  BY <1>1 DEF NodesIn
<1> QED
  BY <1>1, <1>3, <1>4 DEF NodesIn, new

\* So it holds of all nodes of a delta.
LEMMA LayersInserted ==
    ASSUME NEW layers, Layered(layers), NEW nodes, Listed(nodes)
    PROVE  NodesIn(FoldLeft(Inserted, layers, nodes), layers, nodes, Len(nodes))
<1> DEFINE n == Len(nodes)
<1>1. n \in Nat /\ DOMAIN nodes = 1 .. n
  BY ListFacts
<1>2. PICK h : Runs(h, "Inserted", 0, layers, nodes, n)
               /\ h[n] = FoldLeft(Inserted, layers, nodes)
  BY <1>1, InsertedRuns
<1> HIDE DEF n
<1> DEFINE good == {i \in 0 .. n : NodesIn(h[i], layers, nodes, i)}
<1>3. 0 \in good
  BY <1>1, <1>2 DEF NodesIn, Runs
<1>4. ASSUME NEW i \in 1 .. n, i - 1 \in good
      PROVE  i \in good
  <2>1. h[i] = Inserted(h[i - 1], nodes[i])
    BY <1>2 DEF Runs, Step
  <2> QED
    BY <1>1, <1>4, <2>1, NodesInOneMore
<1> HIDE DEF good
<1>5. n \in good
  <2>1. \A i \in 0 .. n : i \in good
    BY <1>1, <1>3, <1>4, Induct
  <2> QED
    BY <1>1, <2>1
<1> QED
  BY <1>2, <1>5 DEF good, n

\* Which layer is found first depends on the ids that the layers hold.
LEMMA SameHolders ==
    ASSUME NEW layers, NEW before, NEW id,
           \A l \in LayerKind : DOMAIN layers[l] = DOMAIN before[l]
    PROVE  FirstHolder(layers, id) = FirstHolder(before, id)
<1>1. \A i \in DOMAIN SearchOrder : SearchOrder[i] \in LayerKind
  BY DEF SearchOrder, LayerKind
<1>2. Holders(layers, id) = Holders(before, id)
  BY <1>1 DEF Holders
<1> QED
  BY <1>2 DEF FirstHolder

Weights == {"aw", "ep"}

\* Update u asks for a weight f of the node id.
Asks(u, f, id) == u.id = id /\ u[f] # Keep

\* The layers after updates: a weight is the one asked for last, in the first
\* layer that holds the id; all else is what it was.
UpdatesIn(layers, before, us, n) ==
    /\ Layered(layers)
    /\ \A l \in LayerKind :
         /\ DOMAIN layers[l] = DOMAIN before[l]
         /\ \A id \in DOMAIN before[l] :
              /\ layers[l][id].type = before[l][id].type
              /\ \A f \in Weights :
                   /\ (l # FirstHolder(before, id) \/ \A j \in 1 .. n : ~Asks(us[j], f, id)) =>
                        layers[l][id][f] = before[l][id][f]
                   /\ \A j \in 1 .. n :
                        /\ l = FirstHolder(before, id)
                        /\ Asks(us[j], f, id)
                        /\ \A k \in j + 1 .. n : ~Asks(us[k], f, id)
                        => layers[l][id][f] = us[j][f]

\* One more update keeps this.
LEMMA UpdatesInOneMore ==
    ASSUME NEW layers, NEW before, NEW us, NEW i \in Nat \ {0},
           UpdatesIn(layers, before, us, i - 1)
    PROVE  UpdatesIn(Updated(layers, us[i]), before, us, i)
<1> DEFINE new == Updated(layers, us[i])
<1>0. Layered(layers) /\ WithUpdate(new, layers, us[i])
  BY UpdatedKeeps DEF UpdatesIn
<1> HIDE DEF new
<1>1. /\ Layered(new)
      /\ \A l \in LayerKind : DOMAIN new[l] = DOMAIN before[l]
  BY <1>0 DEF UpdatesIn, WithUpdate
<1>2. ASSUME NEW l \in LayerKind, NEW id \in DOMAIN before[l]
      PROVE  /\ new[l][id].type = before[l][id].type
             /\ \A f \in Weights :
                  new[l][id][f] = IF l = FirstHolder(before, id) /\ Asks(us[i], f, id)
                                  THEN us[i][f] ELSE layers[l][id][f]
  <2>1. FirstHolder(layers, id) = FirstHolder(before, id) /\ id \in DOMAIN layers[l]
    BY SameHolders DEF UpdatesIn
  <2>2. /\ new[l][id].type = layers[l][id].type
        /\ new[l][id].aw = IF /\ id = us[i].id /\ l = FirstHolder(before, id)
                              /\ us[i].aw # Keep
                           THEN us[i].aw ELSE layers[l][id].aw
        /\ new[l][id].ep = IF /\ id = us[i].id /\ l = FirstHolder(before, id)
                              /\ us[i].ep # Keep
                           THEN us[i].ep ELSE layers[l][id].ep
    BY <1>0, <2>1 DEF WithUpdate
  <2>3. layers[l][id].type = before[l][id].type
    BY DEF UpdatesIn
  <2> QED
    BY <2>2, <2>3 DEF Weights, Asks
<1>3. ASSUME NEW l \in LayerKind, NEW id \in DOMAIN before[l], NEW f \in Weights,
             l # FirstHolder(before, id) \/ \A j \in 1 .. i : ~Asks(us[j], f, id)
      PROVE  new[l][id][f] = before[l][id][f]
  <2>1. l # FirstHolder(before, id) \/ \A j \in 1 .. i - 1 : ~Asks(us[j], f, id)
    BY <1>3
  <2>2. layers[l][id][f] = before[l][id][f]
    BY <2>1 DEF UpdatesIn
  <2>3. i \in 1 .. i
    OBVIOUS
  <2> QED
    BY <1>2, <1>3, <2>2, <2>3
<1>4. ASSUME NEW l \in LayerKind, NEW id \in DOMAIN before[l], NEW f \in Weights,
             NEW j \in 1 .. i, l = FirstHolder(before, id), Asks(us[j], f, id),
             \A k \in j + 1 .. i : ~Asks(us[k], f, id)
      PROVE  new[l][id][f] = us[j][f]
  <2>1. CASE j = i
    BY <1>2, <1>4, <2>1
  <2>2. CASE j # i
    <3>1. j \in 1 .. i - 1 /\ i \in j + 1 .. i
      BY <2>2
    <3>2. \A k \in j + 1 .. i - 1 : ~Asks(us[k], f, id)
      BY <1>4, <3>1
    <3>3. layers[l][id][f] = us[j][f]
      BY <1>4, <3>1, <3>2 DEF UpdatesIn
    <3> QED
      BY <1>2, <1>4, <3>1, <3>3
  <2> QED
    BY <2>1, <2>2
<1> QED
  BY <1>1, <1>2, <1>3, <1>4 DEF UpdatesIn, new

\* So it holds of all updates of a delta.
LEMMA LayersUpdated ==
    ASSUME NEW layers, Layered(layers), NEW us, Listed(us)
    PROVE  UpdatesIn(FoldLeft(Updated, layers, us), layers, us, Len(us))
<1> DEFINE n == Len(us)
<1>1. n \in Nat /\ DOMAIN us = 1 .. n
  BY ListFacts
<1>2. PICK h : Runs(h, "Updated", 0, layers, us, n)
               /\ h[n] = FoldLeft(Updated, layers, us)
  BY <1>1, UpdatedRuns
<1> HIDE DEF n
<1> DEFINE good == {i \in 0 .. n : UpdatesIn(h[i], layers, us, i)}
<1>3. 0 \in good
  BY <1>1, <1>2 DEF UpdatesIn, Runs
<1>4. ASSUME NEW i \in 1 .. n, i - 1 \in good
      PROVE  i \in good
  <2>1. h[i] = Updated(h[i - 1], us[i])
    BY <1>2 DEF Runs, Step
  <2> QED
    BY <1>1, <1>4, <2>1, UpdatesInOneMore
<1> HIDE DEF good
<1>5. n \in good
  <2>1. \A i \in 0 .. n : i \in good
    BY <1>1, <1>3, <1>4, Induct
  <2> QED
    BY <1>1, <2>1
<1> QED
  BY <1>2, <1>5 DEF good, n
-----------------------------------------------------------------------------
(* Deltas. *)

\* Lists of ops, as replies and extractions give them.
Ops(ops) == Listed(ops) /\ \A o \in ToSet(ops) : IsOp(o)

\* list holds the ops of one kind among the first n, in their order.
OfKind(ops, n, kind) == {i \in 1 .. n : ops[i].op = kind}
Selected(list, ops, n, kind) == Taken(list, ops, OfKind(ops, n, kind))

\* A delta holds the ops of every kind, each in the order they were proposed.
LEMMA DeltaSelects ==
    ASSUME NEW ops, Ops(ops)
    PROVE  LET d == proposals_to_delta(ops)
           IN  /\ Selected(d.new_nodes, ops, Len(ops), "node")
               /\ Selected(d.new_edges, ops, Len(ops), "edge")
               /\ Selected(d.new_vias, ops, Len(ops), "via")
               /\ Selected(d.updates, ops, Len(ops), "update")
<1> DEFINE n == Len(ops)
<1>1. n \in Nat /\ DOMAIN ops = 1 .. n /\ \A i \in 1 .. n : ops[i].op \in OpKind
  <2>1. n \in Nat /\ DOMAIN ops = 1 .. n
    BY ListFacts DEF Ops
  <2> QED
    BY <2>1 DEF Ops, ToSet, IsOp
<1>2. PICK h : Runs(h, "Pushed", 0, NoDelta, ops, n) /\ h[n] = proposals_to_delta(ops)
  BY <1>1, PushedRuns DEF proposals_to_delta
<1> HIDE DEF n
<1> DEFINE good == {i \in 0 .. n :
              /\ DOMAIN h[i] = {"new_nodes", "new_edges", "new_vias", "updates"}
              /\ \A kind \in OpKind : Selected(h[i][ListOf[kind]], ops, i, kind)}
<1>3. 0 \in good
  <2>1. h[0] = NoDelta
    BY <1>2 DEF Runs
  <2>2. ASSUME NEW kind \in OpKind
        PROVE  Selected(NoDelta[ListOf[kind]], ops, 0, kind)
    <3>1. NoDelta[ListOf[kind]] = <<>>
      BY DEF NoDelta, ListOf, OpKind
    <3>2. OfKind(ops, 0, kind) = {}
      BY DEF OfKind
    <3> QED
      BY <3>1, <3>2, TakenNone DEF Selected
  <2> QED
    BY <1>1, <2>1, <2>2 DEF NoDelta
<1>4. ASSUME NEW i \in 1 .. n, i - 1 \in good
      PROVE  i \in good
  <2> DEFINE old == h[i - 1]
             o == ops[i]
  <2>1. h[i] = [old EXCEPT ![ListOf[o.op]] = Append(@, o)]
    BY <1>2 DEF Runs, Step, Pushed
  <2>2. /\ DOMAIN old = {"new_nodes", "new_edges", "new_vias", "updates"}
        /\ \A kind \in OpKind : Selected(old[ListOf[kind]], ops, i - 1, kind)
    BY <1>4
  <2>3. i \in Nat \ {0} /\ o.op \in OpKind
    BY <1>1
  <2> HIDE DEF old
  <2>4. \A kind \in OpKind : h[i][ListOf[kind]] =
          IF kind = o.op THEN Append(old[ListOf[kind]], o) ELSE old[ListOf[kind]]
    BY <2>1, <2>2, <2>3 DEF ListOf, OpKind
  <2>5. ASSUME NEW kind \in OpKind
        PROVE  Selected(h[i][ListOf[kind]], ops, i, kind)
    <3>1. Selected(old[ListOf[kind]], ops, i - 1, kind)
      BY <2>2
    <3>2. CASE kind = o.op
      <4>1. /\ OfKind(ops, i, kind) = OfKind(ops, i - 1, kind) \cup {i}
            /\ OfKind(ops, i - 1, kind) \in SUBSET Nat
            /\ \A j \in OfKind(ops, i - 1, kind) : j < i
        BY <2>3, <3>2 DEF OfKind
      <4>2. Taken(Append(old[ListOf[kind]], ops[i]), ops, OfKind(ops, i - 1, kind) \cup {i})
        BY <2>3, <3>1, <4>1, TakenMore DEF Selected
      <4> QED
        BY <2>4, <3>2, <4>1, <4>2 DEF Selected
    <3>3. CASE kind # o.op
      <4>1. OfKind(ops, i, kind) = OfKind(ops, i - 1, kind)
        BY <2>3, <3>3 DEF OfKind
      <4> QED
        BY <2>4, <3>1, <3>3, <4>1 DEF Selected
    <3> QED
      BY <3>2, <3>3
  <2>6. DOMAIN h[i] = {"new_nodes", "new_edges", "new_vias", "updates"}
    BY <2>1, <2>2
  <2> QED
    BY <1>1, <2>5, <2>6
<1> HIDE DEF good
<1>5. n \in good
  <2>1. \A i \in 0 .. n : i \in good
    BY <1>1, <1>3, <1>4, Induct
  <2> QED
    BY <1>1, <2>1
<1> QED
  BY <1>2, <1>5 DEF good, n, OpKind, ListOf
-----------------------------------------------------------------------------
(* apply_delta. *)

\* A delta of a list of ops.
LEMMA DeltaListed ==
    ASSUME NEW ops, Ops(ops)
    PROVE  LET d == proposals_to_delta(ops)
           IN  /\ Listed(d.new_nodes) /\ Listed(d.new_edges)
               /\ Listed(d.new_vias) /\ Listed(d.updates)
BY DeltaSelects DEF Selected, Taken

\* A graph's layers are layered, and this with the rest makes it a graph.
LEMMA GraphLayers ==
    ASSUME NEW g
    PROVE  IsGraph(g) <=> /\ g.version \in Nat /\ Listed(g.edges) /\ Listed(g.vias)
                          /\ Layered(g.layers)
BY DEF IsGraph, Layered, Listed, RightLayer

\* Between the two folds of a delta the layers are those with its nodes.
LEMMA LayersAfterDelta ==
    ASSUME NEW g, IsGraph(g), NEW ops, Ops(ops)
    PROVE  LET d == proposals_to_delta(ops)
               inserted == FoldLeft(Inserted, g.layers, d.new_nodes)
           IN  /\ NodesIn(inserted, g.layers, d.new_nodes, Len(d.new_nodes))
               /\ UpdatesIn(LayersAfter(g, d), inserted, d.updates, Len(d.updates))
<1> DEFINE d == proposals_to_delta(ops)
<1>1. Listed(d.new_nodes) /\ Listed(d.updates)
  BY DeltaListed
<1>2. Layered(g.layers)
  BY GraphLayers
<1> HIDE DEF d
<1>3. NodesIn(FoldLeft(Inserted, g.layers, d.new_nodes), g.layers, d.new_nodes,
              Len(d.new_nodes))
  BY <1>1, <1>2, LayersInserted
<1>4. Layered(FoldLeft(Inserted, g.layers, d.new_nodes))
  BY <1>3 DEF NodesIn
<1>5. UpdatesIn(LayersAfter(g, d), FoldLeft(Inserted, g.layers, d.new_nodes),
                d.updates, Len(d.updates))
  BY <1>1, <1>4, LayersUpdated DEF LayersAfter
<1> QED
  BY <1>3, <1>5 DEF d

\* A delta leaves a graph, and nothing of it is forgotten.
LEMMA DeltaKeeps ==
    ASSUME NEW g, IsGraph(g), NEW ops, Ops(ops)
    PROVE  /\ IsGraph(apply_delta(g, proposals_to_delta(ops)))
           /\ Grown(g, apply_delta(g, proposals_to_delta(ops)))
<1> DEFINE d == proposals_to_delta(ops)
           inserted == FoldLeft(Inserted, g.layers, d.new_nodes)
           h == apply_delta(g, d)
<1>1. /\ NodesIn(inserted, g.layers, d.new_nodes, Len(d.new_nodes))
      /\ UpdatesIn(LayersAfter(g, d), inserted, d.updates, Len(d.updates))
  BY LayersAfterDelta
<1>2. /\ Layered(LayersAfter(g, d))
      /\ \A l \in LayerKind : DOMAIN g.layers[l] \subseteq DOMAIN LayersAfter(g, d)[l]
  BY <1>1 DEF NodesIn, UpdatesIn
<1>3. /\ Listed(g.edges \o d.new_edges) /\ IsPrefix(g.edges, g.edges \o d.new_edges)
      /\ Listed(g.vias \o d.new_vias) /\ IsPrefix(g.vias, g.vias \o d.new_vias)
  BY DeltaListed, GraphLayers, ConcatListed
<1>4. /\ h.version = g.version + 1 /\ h.layers = LayersAfter(g, d)
      /\ h.edges = g.edges \o d.new_edges /\ h.vias = g.vias \o d.new_vias
  BY DEF apply_delta
<1>5. g.version \in Nat
  BY DEF IsGraph
<1> HIDE DEF h, d
<1>6. IsGraph(h)
  <2>1. h.version \in Nat
    BY <1>4, <1>5
  <2>2. Listed(h.edges) /\ Listed(h.vias) /\ Layered(h.layers)
    BY <1>2, <1>3, <1>4
  <2> QED
    BY <2>1, <2>2, GraphLayers
<1>7. NodeIds(g) \subseteq NodeIds(h)
  BY <1>2, <1>4 DEF NodeIds
<1>8. Grown(g, h)
  BY <1>3, <1>4, <1>5, <1>7 DEF Grown
<1> QED
  BY <1>6, <1>8 DEF h, d

\* Growth is transitive.
LEMMA GrownTwice ==
    ASSUME NEW f, NEW g, NEW h, IsGraph(f), IsGraph(g), IsGraph(h), Grown(f, g), Grown(g, h)
    PROVE  Grown(f, h)
<1>1. f.version <= h.version /\ NodeIds(f) \subseteq NodeIds(h)
  BY DEF Grown, IsGraph
<1>2. ASSUME NEW s, NEW t, NEW u, Listed(s), Listed(t), Listed(u),
             IsPrefix(s, t), IsPrefix(t, u)
      PROVE  IsPrefix(s, u)
  <2>1. /\ Len(s) \in Nat /\ Len(t) \in Nat /\ Len(u) \in Nat
        /\ Len(s) <= Len(t) /\ Len(t) <= Len(u)
    BY <1>2, ListFacts DEF IsPrefix
  <2>2. \A i \in 1 .. Len(s) : s[i] = t[i]
    BY <1>2, <2>1 DEF IsPrefix, Listed
  <2>3. \A i \in 1 .. Len(t) : t[i] = u[i]
    BY <1>2, <2>1 DEF IsPrefix, Listed
  <2>4. SubSeq(s, 1, Len(s)) = SubSeq(u, 1, Len(s))
    BY <1>2, <2>1, <2>2, <2>3 DEF Listed
  <2> QED
    BY <2>1, <2>4 DEF IsPrefix
<1>3. IsPrefix(f.edges, h.edges)
  BY <1>2, GraphLayers DEF Grown
<1>4. IsPrefix(f.vias, h.vias)
  BY <1>2, GraphLayers DEF Grown
<1> QED
  BY <1>1, <1>3, <1>4 DEF Grown
-----------------------------------------------------------------------------
(* The moderator's ops. *)

\* Where an element comes from; those after it come from later positions.
LEMMA TakenAfter ==
    ASSUME NEW list, NEW F, NEW P \in SUBSET Nat, Taken(list, F, P)
    PROVE  /\ \A k \in 1 .. Len(list) : \E m \in P : list[k] = F[m]
           /\ \A i \in P : \E j \in 1 .. Len(list) :
                /\ list[j] = F[i]
                /\ \A k \in j + 1 .. Len(list) : \E m \in P : m > i /\ list[k] = F[m]
<1>1. Len(list) \in Nat
  BY ListFacts DEF Taken
<1>2. PICK at : TakenAt(at, list, F, P)
  BY DEF Taken
<1>3. \A k \in 1 .. Len(list) : at[k] \in P /\ list[k] = F[at[k]]
  BY <1>2 DEF TakenAt
<1>4. ASSUME NEW i \in P
      PROVE  \E j \in 1 .. Len(list) :
                /\ list[j] = F[i]
                /\ \A k \in j + 1 .. Len(list) : \E m \in P : m > i /\ list[k] = F[m]
  <2>1. PICK j \in 1 .. Len(list) : at[j] = i
    BY <1>2 DEF TakenAt
  <2>2. ASSUME NEW k \in j + 1 .. Len(list)
        PROVE  at[k] \in P /\ at[k] > i /\ list[k] = F[at[k]]
    <3>1. k \in 1 .. Len(list) /\ j < k
      BY <1>1
    <3>2. at[j] < at[k]
      BY <1>2, <3>1 DEF TakenAt
    <3> QED
      BY <1>3, <2>1, <3>1, <3>2
  <2> QED
    BY <1>3, <2>1, <2>2
<1> QED
  BY <1>3, <1>4

\* An op creates the node id in layer l; it asks for a weight of the node.
Creates(o, id, l) == o.op = "node" /\ o.id = id /\ RightLayer(o.type) = l
Changes(o, f, id) == o.op = "update" /\ Asks(o, f, id)

LastToCreate(ops, i, id, l) ==
    /\ Creates(ops[i], id, l)
    /\ \A k \in i + 1 .. Len(ops) : ~Creates(ops[k], id, l)
NoneChanges(ops, f, id) == \A k \in 1 .. Len(ops) : ~Changes(ops[k], f, id)
LastToChange(ops, i, f, id) ==
    /\ Changes(ops[i], f, id)
    /\ \A k \in i + 1 .. Len(ops) : ~Changes(ops[k], f, id)

\* After the nodes of a delta, the last op to create a node is what is found.
LEMMA LastCreated ==
    ASSUME NEW ops, Ops(ops), NEW nodes, Selected(nodes, ops, Len(ops), "node"),
           NEW layers, NEW before, NodesIn(layers, before, nodes, Len(nodes)),
           NEW l, NEW id, NEW i \in 1 .. Len(ops), LastToCreate(ops, i, id, l)
    PROVE  id \in DOMAIN layers[l] /\ layers[l][id] = NodeOf(ops[i])
<1> DEFINE P == OfKind(ops, Len(ops), "node")
<1>1. Len(ops) \in Nat
  BY ListFacts DEF Ops
<1>2. P \in SUBSET Nat /\ i \in P /\ \A m \in P : m \in 1 .. Len(ops) /\ ops[m].op = "node"
  BY <1>1 DEF OfKind, LastToCreate, Creates
<1>3. Taken(nodes, ops, P)
  BY DEF Selected
<1> HIDE DEF P
<1>4. PICK j \in 1 .. Len(nodes) :
        /\ nodes[j] = ops[i]
        /\ \A k \in j + 1 .. Len(nodes) : \E m \in P : m > i /\ nodes[k] = ops[m]
  BY <1>2, <1>3, TakenAfter
<1>5. ASSUME NEW k \in j + 1 .. Len(nodes)
      PROVE  ~Same(nodes[k], nodes[j])
  <2>1. PICK m \in P : m > i /\ nodes[k] = ops[m]
    BY <1>4
  <2>2. m \in i + 1 .. Len(ops) /\ ops[m].op = "node"
    BY <1>1, <1>2, <2>1
  <2>3. ~Creates(ops[m], id, l)
    BY <2>2 DEF LastToCreate
  <2> QED
    BY <1>4, <2>1, <2>2, <2>3 DEF Same, Creates, LastToCreate
<1>6. nodes[j].id = id /\ RightLayer(nodes[j].type) = l
  BY <1>4 DEF LastToCreate, Creates
<1> QED
  BY <1>4, <1>5, <1>6 DEF NodesIn

\* After its updates, the last op to change a weight is what it is found to be;
\* a weight that none changes is what it was.
LEMMA LastChanged ==
    ASSUME NEW ops, Ops(ops), NEW us, Selected(us, ops, Len(ops), "update"),
           NEW layers, NEW before, UpdatesIn(layers, before, us, Len(us)),
           NEW l \in LayerKind, NEW id \in DOMAIN before[l], NEW f \in Weights
    PROVE  /\ l # FirstHolder(before, id) \/ NoneChanges(ops, f, id)
                => layers[l][id][f] = before[l][id][f]
           /\ \A i \in 1 .. Len(ops) :
                l = FirstHolder(before, id) /\ LastToChange(ops, i, f, id)
                  => layers[l][id][f] = ops[i][f]
<1> DEFINE P == OfKind(ops, Len(ops), "update")
<1>1. Len(ops) \in Nat
  BY ListFacts DEF Ops
<1>2. P \in SUBSET Nat /\ \A m \in P : m \in 1 .. Len(ops) /\ ops[m].op = "update"
  BY <1>1 DEF OfKind
<1>3. Taken(us, ops, P)
  BY DEF Selected
<1>4. ASSUME NEW i \in 1 .. Len(ops), LastToChange(ops, i, f, id)
      PROVE  i \in P
  BY <1>4 DEF OfKind, LastToChange, Changes
<1> HIDE DEF P
<1>5. ASSUME NoneChanges(ops, f, id)
      PROVE  \A k \in 1 .. Len(us) : ~Asks(us[k], f, id)
  <2>1. ASSUME NEW k \in 1 .. Len(us)
        PROVE  ~Asks(us[k], f, id)
    <3>1. PICK m \in P : us[k] = ops[m]
      BY <1>2, <1>3, TakenAfter
    <3> QED
      BY <1>2, <1>5, <3>1 DEF NoneChanges, Changes
  <2> QED
    BY <2>1
<1>6. ASSUME NEW i \in 1 .. Len(ops), l = FirstHolder(before, id), LastToChange(ops, i, f, id)
      PROVE  layers[l][id][f] = ops[i][f]
  <2>1. PICK j \in 1 .. Len(us) :
          /\ us[j] = ops[i]
          /\ \A k \in j + 1 .. Len(us) : \E m \in P : m > i /\ us[k] = ops[m]
    BY <1>2, <1>3, <1>4, <1>6, TakenAfter
  <2>2. ASSUME NEW k \in j + 1 .. Len(us)
        PROVE  ~Asks(us[k], f, id)
    <3>1. PICK m \in P : m > i /\ us[k] = ops[m]
      BY <2>1
    <3>2. m \in i + 1 .. Len(ops) /\ ops[m].op = "update"
      BY <1>1, <1>2, <3>1
    <3> QED
      BY <1>6, <3>1, <3>2 DEF LastToChange, Changes
  <2>3. Asks(us[j], f, id)
    BY <1>6, <2>1 DEF LastToChange, Changes
  <2> QED
    BY <1>6, <2>1, <2>2, <2>3 DEF UpdatesIn
<1> QED
  BY <1>5, <1>6 DEF UpdatesIn

\* The op at i has its way in the layers new, if it is the last one to ask.
Prevails(new, ops, i, l, id) ==
    /\ LastToCreate(ops, i, id, l) => new[l][id].type = ops[i].type
    /\ \A f \in Weights :
         /\ l = FirstHolder(new, id) /\ LastToChange(ops, i, f, id)
              => new[l][id][f] = ops[i][f]
         /\ LastToCreate(ops, i, id, l) =>
              (l # FirstHolder(new, id) \/ NoneChanges(ops, f, id)
                 => new[l][id][f] = ops[i][f])

\* What a delta's ops ask for is what it leaves.
LEMMA DeltaPrevails ==
    ASSUME NEW g, IsGraph(g), NEW ops, Ops(ops), NEW new,
           new = LayersAfter(g, proposals_to_delta(ops)),
           NEW l \in LayerKind, NEW id \in DOMAIN new[l], NEW i \in 1 .. Len(ops)
    PROVE  Prevails(new, ops, i, l, id)
<1> DEFINE d == proposals_to_delta(ops)
           inserted == FoldLeft(Inserted, g.layers, d.new_nodes)
<1>1. /\ NodesIn(inserted, g.layers, d.new_nodes, Len(d.new_nodes))
      /\ UpdatesIn(new, inserted, d.updates, Len(d.updates))
  BY LayersAfterDelta
<1>2. /\ Selected(d.new_nodes, ops, Len(ops), "node")
      /\ Selected(d.updates, ops, Len(ops), "update")
  BY DeltaSelects
<1> HIDE DEF d, inserted
<1>3. /\ \A k \in LayerKind : DOMAIN new[k] = DOMAIN inserted[k]
      /\ new[l][id].type = inserted[l][id].type
  BY <1>1 DEF UpdatesIn
<1>4. FirstHolder(new, id) = FirstHolder(inserted, id)
  BY <1>3, SameHolders
<1>5. LastToCreate(ops, i, id, l) => inserted[l][id] = NodeOf(ops[i])
  BY <1>1, <1>2, LastCreated
<1>6. /\ NodeOf(ops[i]).type = ops[i].type
      /\ \A f \in Weights : NodeOf(ops[i])[f] = ops[i][f]
  BY DEF NodeOf, Weights
<1>7. ASSUME NEW f \in Weights
      PROVE  /\ l # FirstHolder(inserted, id) \/ NoneChanges(ops, f, id)
                => new[l][id][f] = inserted[l][id][f]
             /\ l = FirstHolder(inserted, id) /\ LastToChange(ops, i, f, id)
                  => new[l][id][f] = ops[i][f]
  BY <1>1, <1>2, <1>3, LastChanged
<1>8. LastToCreate(ops, i, id, l) => new[l][id].type = ops[i].type
  BY <1>3, <1>5, <1>6
<1>9. ASSUME NEW f \in Weights, LastToCreate(ops, i, id, l),
             l # FirstHolder(new, id) \/ NoneChanges(ops, f, id)
      PROVE  new[l][id][f] = ops[i][f]
  <2>1. new[l][id][f] = inserted[l][id][f]
    BY <1>4, <1>7, <1>9
  <2>2. inserted[l][id][f] = ops[i][f]
    BY <1>5, <1>6, <1>9
  <2> QED
    BY <2>1, <2>2
<1>10. ASSUME NEW f \in Weights, l = FirstHolder(new, id), LastToChange(ops, i, f, id)
       PROVE  new[l][id][f] = ops[i][f]
  BY <1>4, <1>7, <1>10
<1> QED
  BY <1>8, <1>9, <1>10 DEF Prevails

\* Of the positions that pass a test, the last one is found, and 0 if there is none.
IsLast(last, S, n) ==
    /\ last # 0 => last \in S /\ \A k \in last + 1 .. n : k \notin S
    /\ last = 0 => S = {}

\* That is what the last one is taken to be.
LEMMA LastFound ==
    ASSUME NEW n \in Nat, NEW S \in SUBSET (1 .. n)
    PROVE  IsLast(IF S # {} THEN Max(S) ELSE 0, S, n)
<1>1. CASE S = {}
  BY <1>1 DEF IsLast
<1>2. CASE S # {}
  <2>1. Max(S) \in S /\ \A x \in S : x <= Max(S)
    BY <1>2, MaxOfBounded
  <2> DEFINE last == Max(S)
  <2>2. last \in S /\ last \in 1 .. n /\ \A x \in S : x <= last
    BY <2>1
  <2> HIDE DEF last
  <2>3. last # 0 /\ \A k \in last + 1 .. n : k \notin S
    BY <2>2
  <2> QED
    BY <1>2, <2>2, <2>3 DEF last, IsLast
<1> QED
  BY <1>1, <1>2
-----------------------------------------------------------------------------
(* Replies. *)

\* What is written at each position, if it is an op.
OpAt(lines) == [i \in Nat |-> Converted(lines[i].raw)]

OpLines(lines, P) == {i \in P : lines[i].kind = "op"}

\* What a proposal holds are the ops among its lines.
LEMMA ContentTaken ==
    ASSUME NEW lines, NEW from \in Nat, NEW n \in Nat, NEW content,
           DOMAIN content = 1 .. n, \A k \in 1 .. n : content[k] = lines[from + k]
    PROVE  Taken(parse_graph_proposal_content(content), OpAt(lines),
                 OpLines(lines, from + 1 .. from + n))
<1>1. PICK h : /\ Runs(h, "PushOp", 0, <<>>, content, n)
               /\ h[n] = parse_graph_proposal_content(content)
  BY PushOpRuns DEF parse_graph_proposal_content
<1> DEFINE P(k) == OpLines(lines, from + 1 .. from + k)
           good == {k \in 0 .. n : Taken(h[k], OpAt(lines), P(k))}
<1>2. 0 \in good
  <2>1. P(0) = {} /\ h[0] = <<>>
    BY <1>1 DEF OpLines, Runs
  <2> HIDE DEF P
  <2>2. Taken(<<>>, OpAt(lines), {})
    BY TakenNone
  <2>3. Taken(h[0], OpAt(lines), P(0))
    BY <2>1, <2>2
  <2> QED
    BY <2>3
<1>3. ASSUME NEW k \in 1 .. n, k - 1 \in good
      PROVE  k \in good
  <2> DEFINE i == from + k
  <2>1. h[k] = IF lines[i].kind = "op" THEN Append(h[k - 1], Converted(lines[i].raw))
                                       ELSE h[k - 1]
    BY <1>1 DEF Runs, Step, PushOp
  <2>2. P(k) = IF lines[i].kind = "op" THEN P(k - 1) \cup {i} ELSE P(k - 1)
    BY DEF OpLines
  <2>3. Taken(h[k - 1], OpAt(lines), P(k - 1))
    BY <1>3
  <2>4. /\ i \in Nat /\ P(k - 1) \in SUBSET Nat /\ \A j \in P(k - 1) : j < i
        /\ OpAt(lines)[i] = Converted(lines[i].raw)
    BY DEF OpLines, OpAt
  <2> HIDE DEF P, i
  <2>5. Taken(Append(h[k - 1], OpAt(lines)[i]), OpAt(lines), P(k - 1) \cup {i})
    BY <2>3, <2>4, TakenMore
  <2>6. Taken(h[k], OpAt(lines), P(k))
    BY <2>1, <2>2, <2>3, <2>4, <2>5
  <2> QED
    BY <2>6
<1> HIDE DEF good
<1>4. \A k \in 0 .. n : k \in good
  BY <1>2, <1>3, Induct
<1>5. n \in good
  BY <1>4
<1> QED
  BY <1>1, <1>5 DEF good

\* The lines between a header and the next one.
LEMMA Collected ==
    ASSUME NEW lines, Listed(lines), NEW i \in 1 .. Len(lines)
    PROVE  LET content == collect_until_next_block(lines, i + 1)
           IN  \E n \in Nat :
                 /\ i + n <= Len(lines)
                 /\ DOMAIN content = 1 .. n
                 /\ \A k \in 1 .. n : content[k] = lines[i + k]
                 /\ \A k \in 1 .. n : ~IsHeader(lines[i + k])
                 /\ i + n = Len(lines) \/ IsHeader(lines[i + n + 1])
<1> DEFINE ends == {j \in i + 1 .. Len(lines) : IsHeader(lines[j])}
           last == IF ends = {} THEN Len(lines) ELSE Min(ends) - 1
           n == last - i
           content == SubSeq(lines, i + 1, last)
<1>1. Len(lines) \in Nat /\ i \in Nat
  BY ListFacts
<1>2. last \in Nat /\ i <= last /\ last <= Len(lines)
      /\ (\A j \in i + 1 .. last : ~IsHeader(lines[j]))
      /\ (last = Len(lines) \/ IsHeader(lines[last + 1]))
  <2>1. CASE ends = {}
    BY <1>1, <2>1
  <2>2. CASE ends # {}
    <3>1. ends \in SUBSET Nat
      BY <1>1
    <3>2. PICK m \in ends : \A j \in ends : m <= j
      BY <2>2, <3>1, Least
    <3>3. Min(ends) \in ends /\ \A j \in ends : Min(ends) <= j
      BY <3>2 DEF Min
    <3>4. last = Min(ends) - 1
      BY <2>2
    <3> HIDE DEF last
    <3> DEFINE first == Min(ends)
    <3>5. first \in i + 1 .. Len(lines) /\ IsHeader(lines[first])
      BY <3>3
    <3>6. \A j \in i + 1 .. Len(lines) : j < first => ~IsHeader(lines[j])
      <4>1. ASSUME NEW j \in i + 1 .. Len(lines), IsHeader(lines[j])
            PROVE  first <= j
        BY <3>3, <4>1
      <4> QED
        BY <1>1, <3>5, <4>1
    <3> HIDE DEF first
    <3>7. last = first - 1
      BY <3>4 DEF first
    <3> QED
      BY <1>1, <3>5, <3>6, <3>7
  <2> QED
    BY <2>1, <2>2
<1> HIDE DEF last
<1>3. n \in Nat /\ i + n = last
  BY <1>1, <1>2
<1>4. DOMAIN content = 1 .. n /\ \A k \in 1 .. n : content[k] = lines[i + k]
  BY <1>1, <1>2 DEF Listed
<1>5. content = collect_until_next_block(lines, i + 1)
  BY DEF collect_until_next_block, last
<1> HIDE DEF content, n
<1>6. \A k \in 1 .. n : ~IsHeader(lines[i + k])
  BY <1>1, <1>2, <1>3
<1>7. i + n <= Len(lines) /\ (i + n = Len(lines) \/ IsHeader(lines[i + n + 1]))
  BY <1>2, <1>3
<1> QED
  BY <1>3, <1>4, <1>5, <1>6, <1>7

\* The ops under header i: those that InProposal gives to it, if it opens one.
Under(lines, i) ==
    {p \in DOMAIN lines : /\ lines[p].kind = "op" /\ lines[i].kind = "proposal" /\ i < p
                          /\ \A q \in i + 1 .. p - 1 : ~IsHeader(lines[q])}

\* A block's ops are those under its header.
LEMMA BlockTaken ==
    ASSUME NEW lines, Listed(lines), NEW i \in DOMAIN lines
    PROVE  Taken(Block(lines, i).ops, OpAt(lines), Under(lines, i))
<1>1. i \in 1 .. Len(lines) /\ i \in Nat /\ Len(lines) \in Nat
      /\ DOMAIN lines = 1 .. Len(lines)
  BY ListFacts
<1>2. CASE lines[i].kind = "proposal"
  <2> DEFINE content == collect_until_next_block(lines, i + 1)
  <2>1. PICK n \in Nat :
           /\ i + n <= Len(lines)
           /\ DOMAIN content = 1 .. n
           /\ \A k \in 1 .. n : content[k] = lines[i + k]
           /\ \A k \in 1 .. n : ~IsHeader(lines[i + k])
           /\ i + n = Len(lines) \/ IsHeader(lines[i + n + 1])
    BY <1>1, Collected
  <2> HIDE DEF content
  <2>2. Taken(parse_graph_proposal_content(content), OpAt(lines),
              OpLines(lines, i + 1 .. i + n))
    BY <1>1, <2>1, ContentTaken
  <2>3. Block(lines, i).ops = parse_graph_proposal_content(content)
    BY <1>2 DEF Block, content
  <2>4. ASSUME NEW p \in Under(lines, i)
        PROVE  p \in OpLines(lines, i + 1 .. i + n)
    <3>1. p \in 1 .. Len(lines) /\ i < p /\ lines[p].kind = "op"
          /\ \A q \in i + 1 .. p - 1 : ~IsHeader(lines[q])
      BY <1>1 DEF Under
    <3>2. ~IsHeader(lines[p])
      BY <3>1 DEF IsHeader, AgentHeader, DirectiveHeader
    <3>3. p <= i + n
      <4> SUFFICES ASSUME p > i + n
                   PROVE  FALSE
        BY <1>1, <3>1
      <4>1. i + n + 1 \in i + 1 .. p /\ IsHeader(lines[i + n + 1])
        BY <1>1, <2>1, <3>1
      <4>2. i + n + 1 = p \/ i + n + 1 \in i + 1 .. p - 1
        BY <1>1, <3>1, <4>1
      <4> QED
        BY <3>1, <3>2, <4>1, <4>2
    <3> QED
      BY <1>1, <3>1, <3>3 DEF OpLines
  <2>5. ASSUME NEW p \in OpLines(lines, i + 1 .. i + n)
        PROVE  p \in Under(lines, i)
    <3>1. p \in i + 1 .. i + n /\ lines[p].kind = "op" /\ p \in 1 .. Len(lines)
      BY <1>1, <2>1 DEF OpLines
    <3>2. ASSUME NEW q \in i + 1 .. p - 1
          PROVE  ~IsHeader(lines[q])
      <4>1. q - i \in 1 .. n /\ i + (q - i) = q
        BY <1>1, <3>1
      <4> QED
        BY <2>1, <4>1
    <3> QED
      BY <1>1, <1>2, <3>1, <3>2 DEF Under
  <2>6. Under(lines, i) = OpLines(lines, i + 1 .. i + n)
    BY <2>4, <2>5
  <2> QED
    BY <2>2, <2>3, <2>6
<1>3. CASE lines[i].kind # "proposal"
  <2>1. Block(lines, i).ops = <<>> /\ Under(lines, i) = {}
    BY <1>3 DEF Block, Under
  <2>2. Taken(<<>>, OpAt(lines), {})
    BY TakenNone
  <2> QED
    BY <2>1, <2>2
<1> QED
  BY <1>2, <1>3

BlockAt(lines) == [i \in Nat |-> Block(lines, i)]

Heads(lines, n) == {i \in 1 .. n : lines[i].kind \in AgentHeader}

\* The blocks of a reply are those its headers open.
LEMMA BlocksTaken ==
    ASSUME NEW lines, Listed(lines)
    PROVE  Taken(agent_blocks(lines), BlockAt(lines), Heads(lines, Len(lines)))
<1> DEFINE n == Len(lines)
           Read(h, k) == Taken(h[k], BlockAt(lines), Heads(lines, k))
<1>1. n \in Nat /\ DOMAIN lines = 1 .. n
  BY ListFacts
<1>2. PICK h : /\ Runs(h, "PushBlock", lines, <<>>, [i \in 1 .. n |-> i], n)
               /\ h[n] = agent_blocks(lines)
  BY <1>1, PushBlockRuns
<1> DEFINE good == {k \in 0 .. n : Read(h, k)}
<1>3. 0 \in good
  <2>1. Heads(lines, 0) = {} /\ h[0] = <<>>
    BY <1>2 DEF Heads, Runs
  <2>2. Taken(<<>>, BlockAt(lines), {})
    BY TakenNone
  <2>3. Read(h, 0)
    BY <2>1, <2>2
  <2> QED
    BY <1>1, <2>3
<1>4. ASSUME NEW k \in 1 .. n, k - 1 \in good
      PROVE  k \in good
  <2>1. h[k] = IF lines[k].kind \in AgentHeader THEN Append(h[k - 1], Block(lines, k))
                                                ELSE h[k - 1]
    BY <1>2 DEF Runs, Step, PushBlock
  <2>2. Heads(lines, k) = IF lines[k].kind \in AgentHeader THEN Heads(lines, k - 1) \cup {k}
                                                           ELSE Heads(lines, k - 1)
    BY <1>1 DEF Heads
  <2>3. Taken(h[k - 1], BlockAt(lines), Heads(lines, k - 1))
    BY <1>4
  <2>4. /\ k \in Nat /\ Heads(lines, k - 1) \in SUBSET Nat
        /\ \A j \in Heads(lines, k - 1) : j < k
        /\ BlockAt(lines)[k] = Block(lines, k)
    BY <1>1 DEF Heads, BlockAt
  <2>5. Taken(Append(h[k - 1], BlockAt(lines)[k]), BlockAt(lines), Heads(lines, k - 1) \cup {k})
    BY <2>3, <2>4, TakenMore
  <2>6. Taken(h[k], BlockAt(lines), Heads(lines, k))
    BY <2>1, <2>2, <2>3, <2>4, <2>5
  <2> QED
    BY <1>1, <2>6
<1> HIDE DEF good
<1>5. \A k \in 0 .. n : k \in good
  BY <1>1, <1>3, <1>4, Induct
<1>6. n \in good
  BY <1>1, <1>5
<1> QED
  BY <1>2, <1>6 DEF good

\* The ops in proposals, whose header is nearest above.
Proposed(lines) == {i \in DOMAIN lines : lines[i].kind = "op" /\ InProposal(lines, i)}

\* An op is in a proposal exactly if it is under one of the headers.
LEMMA ProposedIsUnder ==
    ASSUME NEW lines, Listed(lines)
    PROVE  Proposed(lines) = UNION {Under(lines, i) : i \in Heads(lines, Len(lines))}
<1>1. Len(lines) \in Nat /\ DOMAIN lines = 1 .. Len(lines)
  BY ListFacts
<1>2. ASSUME NEW p \in Proposed(lines)
      PROVE  \E i \in Heads(lines, Len(lines)) : p \in Under(lines, i)
  <2> DEFINE above == HeadersAbove(lines, p)
             i == Max(above)
  <2>1. p \in 1 .. Len(lines) /\ lines[p].kind = "op" /\ above # {}
        /\ lines[i].kind = "proposal"
    BY <1>1 DEF Proposed, InProposal
  <2>2. above \in SUBSET (1 .. p - 1)
    BY DEF HeadersAbove
  <2>3. i \in above /\ \A q \in above : q <= i
    <3>1. p - 1 \in Nat
      BY <1>1, <2>1
    <3> HIDE DEF above
    <3> QED
      BY <2>1, <2>2, <3>1, MaxOfBounded
  <2>4. i \in 1 .. Len(lines) /\ i < p
    BY <1>1, <2>1, <2>2, <2>3
  <2> HIDE DEF i
  <2>5. \A q \in i + 1 .. p - 1 : ~IsHeader(lines[q])
    BY <1>1, <2>1, <2>3, <2>4 DEF HeadersAbove
  <2>6. i \in Heads(lines, Len(lines))
    BY <2>1, <2>4 DEF Heads, AgentHeader
  <2>7. p \in Under(lines, i)
    BY <1>1, <2>1, <2>4, <2>5 DEF Under
  <2> QED
    BY <2>6, <2>7
<1>3. ASSUME NEW i \in Heads(lines, Len(lines)), NEW p \in Under(lines, i)
      PROVE  p \in Proposed(lines)
  <2> DEFINE above == HeadersAbove(lines, p)
  <2>1. /\ i \in 1 .. Len(lines) /\ p \in 1 .. Len(lines) /\ i < p
        /\ lines[p].kind = "op" /\ lines[i].kind = "proposal"
        /\ \A q \in i + 1 .. p - 1 : ~IsHeader(lines[q])
    BY <1>1 DEF Heads, Under
  <2>2. i \in above /\ above \in SUBSET Int
    BY <1>1, <2>1 DEF HeadersAbove, IsHeader, AgentHeader
  <2>3. \A q \in above : q <= i
    BY <1>1, <2>1 DEF HeadersAbove
  <2>4. Max(above) = i
    BY <2>2, <2>3, MaxIs
  <2> QED
    BY <1>1, <2>1, <2>2, <2>4 DEF Proposed, InProposal
<1> QED
  BY <1>2, <1>3

\* What is under one header stands before what is under a later one.
LEMMA UnderOrdered ==
    ASSUME NEW lines, Listed(lines), NEW i \in Heads(lines, Len(lines)),
           NEW j \in Heads(lines, Len(lines)), i < j,
           NEW p \in Under(lines, i), NEW q \in Under(lines, j)
    PROVE  p < q
<1>1. /\ Len(lines) \in Nat /\ DOMAIN lines = 1 .. Len(lines)
      /\ i \in 1 .. Len(lines) /\ j \in 1 .. Len(lines)
      /\ p \in 1 .. Len(lines) /\ q \in 1 .. Len(lines)
  BY ListFacts DEF Heads, Under
<1>2. /\ lines[p].kind = "op" /\ j < q
      /\ \A k \in i + 1 .. p - 1 : ~IsHeader(lines[k])
  BY DEF Under
<1>3. IsHeader(lines[j])
  BY DEF Heads, IsHeader
<1>4. p # j
  BY <1>2, <1>3 DEF IsHeader, AgentHeader, DirectiveHeader
<1>5. ~(j < p)
  <2> SUFFICES ASSUME j < p
               PROVE  FALSE
    OBVIOUS
  <2>1. j \in i + 1 .. p - 1
    BY <1>1
  <2> QED
    BY <1>2, <1>3, <2>1
<1> QED
  BY <1>1, <1>2, <1>4, <1>5

\* The ops of a reply are those in its proposals, in the order they are written.
LEMMA ProposedTaken ==
    ASSUME NEW lines, Listed(lines)
    PROVE  Taken(ProposedOps(lines), OpAt(lines), Proposed(lines))
<1> DEFINE blocks == agent_blocks(lines)
           n == Len(blocks)
           H == Heads(lines, Len(lines))
<1>1. Listed(blocks) /\ \E at : TakenAt(at, blocks, BlockAt(lines), H)
  BY BlocksTaken DEF Taken
<1>2. n \in Nat /\ DOMAIN blocks = 1 .. n
  BY <1>1, ListFacts
<1>3. PICK at : TakenAt(at, blocks, BlockAt(lines), H)
  BY <1>1
<1>4. H \in SUBSET Nat /\ H \subseteq DOMAIN lines
  BY ListFacts DEF Heads
<1>5. PICK h : Runs(h, "Extended", 0, <<>>, blocks, n) /\ h[n] = ProposedOps(lines)
  BY <1>2, ExtendedRuns DEF ProposedOps
<1> HIDE DEF blocks, n, H
<1>6. /\ at \in [1 .. n -> H]
      /\ \A j, k \in 1 .. n : j < k => at[j] < at[k]
      /\ \A i \in H : \E k \in 1 .. n : at[k] = i
      /\ \A k \in 1 .. n : blocks[k] = BlockAt(lines)[at[k]]
  BY <1>3 DEF TakenAt, n
<1>7. \A k \in 1 .. n : at[k] \in H /\ blocks[k] = Block(lines, at[k])
  BY <1>4, <1>6 DEF BlockAt
<1> DEFINE P(k) == UNION {Under(lines, at[j]) : j \in 1 .. k}
           Read(k) == Taken(h[k], OpAt(lines), P(k))
           good == {k \in 0 .. n : Read(k)}
<1>8. 0 \in good
  <2>1. P(0) = {} /\ h[0] = <<>>
    BY <1>5 DEF Runs
  <2>2. Taken(<<>>, OpAt(lines), {})
    BY TakenNone
  <2>3. Read(0)
    BY <2>1, <2>2
  <2> QED
    BY <1>2, <2>3
<1>9. ASSUME NEW k \in 1 .. n, k - 1 \in good
      PROVE  k \in good
  <2> DEFINE U == Under(lines, at[k])
  <2>1. h[k] = h[k - 1] \o Block(lines, at[k]).ops
    BY <1>5, <1>7 DEF Runs, Step, Extended
  <2>2. P(k) = P(k - 1) \cup U
    <3>1. k - 1 \in Nat /\ 1 .. k = (1 .. k - 1) \cup {k}
      BY <1>2
    <3> QED
      BY <3>1
  <2>3. Taken(Block(lines, at[k]).ops, OpAt(lines), U)
    BY <1>4, <1>7, BlockTaken
  <2>4. Taken(h[k - 1], OpAt(lines), P(k - 1))
    BY <1>9
  <2>5. \A p \in P(k - 1) : \A q \in U : p < q
    <3>1. ASSUME NEW j \in 1 .. k - 1, NEW p \in Under(lines, at[j]), NEW q \in U
          PROVE  p < q
      <4>1. at[j] \in H /\ at[k] \in H /\ at[j] < at[k]
        BY <1>2, <1>6, <1>7
      <4> QED
        BY <4>1, UnderOrdered DEF H
    <3> QED
      BY <3>1
  <2>6. \A i : Under(lines, i) \in SUBSET Nat
    BY ListFacts DEF Under
  <2>7. P(k - 1) \in SUBSET Nat /\ U \in SUBSET Nat
    BY <2>6
  <2> HIDE DEF P, U
  <2>8. Taken(h[k - 1] \o Block(lines, at[k]).ops, OpAt(lines), P(k - 1) \cup U)
    BY <2>3, <2>4, <2>5, <2>7, TakenConcat
  <2>9. Read(k)
    BY <2>1, <2>2, <2>8
  <2> QED
    BY <1>2, <2>9
<1>10. P(n) = Proposed(lines)
  <2>1. \A i \in H : \E j \in 1 .. n : at[j] = i
    BY <1>6
  <2>2. P(n) = UNION {Under(lines, i) : i \in H}
    BY <1>7, <2>1
  <2> QED
    BY <2>2, ProposedIsUnder DEF H
<1> HIDE DEF good, P
<1>11. \A k \in 0 .. n : k \in good
  BY <1>2, <1>8, <1>9, Induct
<1>12. n \in good
  BY <1>2, <1>11
<1> QED
  BY <1>5, <1>10, <1>12 DEF good

\* Normalising an op keeps its kind.
LEMMA ConvertedOp ==
    ASSUME NEW raw, IsOp(raw)
    PROVE  IsOp(Converted(raw))
BY DEF IsOp, Converted, OpKind

\* So the ops of a reply are a list of ops.
LEMMA ReplyOps ==
    ASSUME NEW role \in {"agent", "moderator"}, NEW lines \in Replies[role]
    PROVE  Listed(lines) /\ Ops(ProposedOps(lines))
<1>1. Listed(lines) /\ \A line \in ToSet(lines) : line.kind = "op" => IsOp(line.raw)
  BY RepliesAssumption DEF Listed
<1> DEFINE ops == ProposedOps(lines)
<1>2. Listed(ops) /\ \E at : TakenAt(at, ops, OpAt(lines), Proposed(lines))
  BY <1>1, ProposedTaken DEF Taken
<1>3. PICK at : TakenAt(at, ops, OpAt(lines), Proposed(lines))
  BY <1>2
<1> HIDE DEF ops
<1>4. ASSUME NEW o \in ToSet(ops)
      PROVE  IsOp(o)
  <2>1. PICK k \in 1 .. Len(ops) : o = ops[k]
    BY <1>2, ListFacts
  <2>2. at[k] \in Proposed(lines) /\ o = OpAt(lines)[at[k]]
    BY <1>3, <2>1 DEF TakenAt
  <2>3. at[k] \in DOMAIN lines /\ lines[at[k]].kind = "op"
    BY <2>2 DEF Proposed
  <2>4. at[k] \in Nat
    BY <1>1, <2>3, ListFacts
  <2>5. o = Converted(lines[at[k]].raw)
    BY <2>2, <2>4 DEF OpAt
  <2>6. IsOp(lines[at[k]].raw)
    BY <1>1, <2>3 DEF ToSet
  <2> QED
    BY <2>5, <2>6, ConvertedOp
<1> QED
  BY <1>1, <1>2, <1>4 DEF Ops, ops

\* The ops of an extraction, normalised, are one, too.
LEMMA ExtractedOps ==
    ASSUME NEW ops \in Extractions
    PROVE  Ops([i \in DOMAIN ops |-> Converted(ops[i])])
<1> DEFINE new == [i \in DOMAIN ops |-> Converted(ops[i])]
<1>1. Listed(ops) /\ \A o \in ToSet(ops) : IsOp(o)
  BY ExtractionsAssumption DEF Listed
<1>2. Len(ops) \in Nat /\ DOMAIN ops = 1 .. Len(ops)
  BY <1>1, ListFacts
<1>3. \A i \in 1 .. Len(ops) : IsOp(ops[i])
  BY <1>1, <1>2 DEF ToSet
<1>4. \A i \in 1 .. Len(ops) : IsOp(new[i])
  BY <1>2, <1>3, ConvertedOp
<1>5. new \in Seq(ToSet(new))
  BY <1>2 DEF ToSet
<1>6. \A o \in ToSet(new) : IsOp(o)
  BY <1>2, <1>4 DEF ToSet
<1> QED
  BY <1>5, <1>6 DEF Ops, Listed
-----------------------------------------------------------------------------
(* The graph and the proposals of a round. *)

\* Ops after ops are ops.
LEMMA OpsConcat ==
    ASSUME NEW s, Ops(s), NEW t, Ops(t)
    PROVE  Ops(s \o t)
<1>1. /\ Listed(s \o t) /\ Len(s \o t) = Len(s) + Len(t)
      /\ Len(s) \in Nat /\ Len(t) \in Nat
      /\ \A i \in 1 .. Len(s) : (s \o t)[i] = s[i]
      /\ \A i \in 1 .. Len(t) : (s \o t)[Len(s) + i] = t[i]
  BY ConcatListed, ListFacts DEF Ops
<1>2. /\ \A i \in 1 .. Len(s) : IsOp(s[i])
      /\ \A i \in 1 .. Len(t) : IsOp(t[i])
  <2>1. DOMAIN s = 1 .. Len(s) /\ DOMAIN t = 1 .. Len(t)
    BY ListFacts DEF Ops
  <2> QED
    BY <2>1 DEF Ops, ToSet
<1>3. ASSUME NEW o \in ToSet(s \o t)
      PROVE  IsOp(o)
  <2>1. PICK k \in 1 .. Len(s) + Len(t) : o = (s \o t)[k]
    BY <1>1, ListFacts
  <2>2. CASE k <= Len(s)
    BY <1>1, <1>2, <2>1, <2>2
  <2>3. CASE ~(k <= Len(s))
    <3>1. k - Len(s) \in 1 .. Len(t) /\ Len(s) + (k - Len(s)) = k
      BY <1>1, <2>1, <2>3
    <3> QED
      BY <1>1, <1>2, <2>1, <3>1
  <2> QED
    BY <2>2, <2>3
<1> QED
  BY <1>1, <1>3 DEF Ops

\* No ops.
LEMMA NoOps == Ops(<<>>) /\ Listed(<<>>) /\ Len(<<>>) = 0
BY DEF Ops, Listed, ToSet

\* The rounds work on a graph, on lists of ops and on a list of lines.
GraphInv ==
    /\ IsGraph(graph)
    /\ DOMAIN result = {"agent", "moderator", "close", "heard"}
    /\ Ops(result.agent) /\ Ops(result.moderator)
    /\ Listed(reply)

\* A round's two deltas leave a graph, and nothing of it is forgotten.
LEMMA MergedKeeps ==
    ASSUME GraphInv
    PROVE  IsGraph(Merged) /\ Grown(graph, Merged)
<1> DEFINE g == apply_delta(graph, proposals_to_delta(result.agent))
<1>1. IsGraph(g) /\ Grown(graph, g)
  BY DeltaKeeps DEF GraphInv
<1> HIDE DEF g
<1>2. /\ IsGraph(apply_delta(g, proposals_to_delta(result.moderator)))
      /\ Grown(g, apply_delta(g, proposals_to_delta(result.moderator)))
  BY <1>1, DeltaKeeps DEF GraphInv
<1>3. Merged = apply_delta(g, proposals_to_delta(result.moderator))
  BY DEF Merged, g
<1>4. IsGraph(graph)
  BY DEF GraphInv
<1> QED
  BY <1>1, <1>2, <1>3, <1>4, GrownTwice

\* So does the extraction's.
LEMMA ExtractedKeeps ==
    ASSUME GraphInv, NEW ops \in Extractions
    PROVE  IsGraph(Extracted(ops)) /\ Grown(graph, Extracted(ops))
<1> DEFINE new == [i \in DOMAIN ops |-> Converted(ops[i])]
<1>1. Ops(new)
  BY ExtractedOps
<1> HIDE DEF new
<1>2. /\ IsGraph(apply_delta(graph, proposals_to_delta(new)))
      /\ Grown(graph, apply_delta(graph, proposals_to_delta(new)))
  BY <1>1, DeltaKeeps DEF GraphInv
<1> QED
  BY <1>2 DEF Extracted, new

\* A session starts on a graph and with nothing proposed.
LEMMA GraphInit == Init => GraphInv
<1> SUFFICES ASSUME Init
             PROVE  GraphInv
  OBVIOUS
<1>1. IsGraph(NewGraph)
  BY DEF IsGraph, NewGraph, EmptyLayer, LayerKind, ToSet
<1>2. IsGraph(graph)
  BY <1>1, LoadedAssumption DEF Init
<1>3. reply = <<>> /\ result = NoResult
  BY DEF Init
<1> QED
  BY <1>2, <1>3, NoOps DEF GraphInv, NoResult

\* Who speaks is an agent or a moderator.
LEMMA RoleKnown == Role \in {"agent", "moderator"}
BY DEF Role

\* Every step keeps a graph, and only adds to it.
LEMMA GraphStep == GraphInv /\ [Next]_vars => GraphInv' /\ Grown(graph, graph')
<1> SUFFICES ASSUME GraphInv, [Next]_vars
             PROVE  GraphInv' /\ Grown(graph, graph')
  OBVIOUS
<1>1. Grown(graph, graph)
  <2>1. /\ Listed(graph.edges) /\ Listed(graph.vias) /\ graph.version \in Nat
    BY GraphLayers DEF GraphInv
  <2>2. IsPrefix(graph.edges, graph.edges) /\ IsPrefix(graph.vias, graph.vias)
    BY <2>1, ListFacts DEF IsPrefix
  <2> QED
    BY <2>1, <2>2 DEF Grown
<1>2. CASE graph' = graph /\ result' \in {result, NoResult} /\ reply' \in {reply, <<>>}
  BY <1>1, <1>2, NoOps DEF GraphInv, NoResult
<1>3. CASE StartRound \/ RoundsExhausted
  BY <1>2, <1>3 DEF StartRound, RoundsExhausted
<1>4. ASSUME NEW lines \in Replies[Role], NEW refused \in BOOLEAN, TurnAnswers(lines, refused)
      PROVE  GraphInv' /\ Grown(graph, graph')
  <2>1. Listed(lines) /\ Ops(ProposedOps(lines))
    BY RoleKnown, ReplyOps
  <2> DEFINE close == refused \/ Closes(lines)
  <2>2. result' = [result EXCEPT ![Role] = @ \o ProposedOps(lines), !.close = close,
                                 !.heard = TRUE]
    BY <1>4 DEF TurnAnswers
  <2> HIDE DEF close
  <2>3. DOMAIN result' = DOMAIN result
    BY <2>2
  <2>4. \A role \in {"agent", "moderator"} :
           result'[role] = IF role = Role THEN result[role] \o ProposedOps(lines)
                                          ELSE result[role]
    BY <2>2 DEF GraphInv
  <2>5. \A role \in {"agent", "moderator"} : Ops(result'[role])
    BY <2>1, <2>4, OpsConcat DEF GraphInv
  <2>6. graph' = graph /\ reply' = lines
    BY <1>4 DEF TurnAnswers
  <2> QED
    BY <1>1, <2>1, <2>3, <2>5, <2>6 DEF GraphInv
<1>5. CASE TurnFails \/ TurnsOver \/ SelectScope \/ Decide \/ Finished \/ UNCHANGED vars
  BY <1>2, <1>5 DEF TurnFails, TurnsOver, SelectScope, Decide, Finished, vars
<1>6. CASE ApplyProposals
  BY <1>6, MergedKeeps, NoOps DEF ApplyProposals, GraphInv
<1>7. CASE Extract
  <2>1. \/ graph' = graph
        \/ \E ops \in Extractions : graph' = Extracted(ops)
    BY <1>7 DEF Extract
  <2>2. IsGraph(graph') /\ Grown(graph, graph')
    BY <1>1, <2>1, ExtractedKeeps DEF GraphInv
  <2>3. result' = [NoResult EXCEPT !.close = result.close] /\ reply' = reply
    BY <1>7 DEF Extract
  <2> QED
    BY <2>2, <2>3, NoOps DEF GraphInv, NoResult
<1> QED
  BY <1>3, <1>4, <1>5, <1>6, <1>7 DEF Next
-----------------------------------------------------------------------------
(* Theorems. *)

\* A node's type tells its layer, whatever was proposed, extracted or loaded.
THEOREM LayersFollowTypes == Spec => []LayersByType
<1>1. GraphInv => LayersByType
  BY DEF GraphInv, IsGraph, LayersByType, Range
<1> QED
  BY <1>1, GraphInit, GraphStep, PTL DEF Spec

\* What is stored at the end of a session is again a graph to start one from:
\* what is assumed of the loaded graphs holds of the one that is left.
THEOREM GraphKept == Spec => []IsGraph(graph)
<1>1. GraphInv => IsGraph(graph)
  BY DEF GraphInv
<1> QED
  BY <1>1, GraphInit, GraphStep, PTL DEF Spec

\* Nothing of a graph is forgotten.
THEOREM NothingForgotten == Spec => GraphGrows
<1>1. GraphInv /\ [Next]_vars => [Grown(graph, graph')]_vars
  BY GraphStep
<1> QED
  BY <1>1, GraphInit, GraphStep, PTL DEF Spec, GraphGrows

\* A line is an op exactly if the nearest header above it opens a proposal.
THEOREM OpsInProposals == Spec => []OpsAttributed
<1>1. GraphInv => OpsAttributed
  <2> SUFFICES ASSUME GraphInv
               PROVE  OpsAttributed
    OBVIOUS
  <2> DEFINE ops == ProposedOps(reply)
  <2>1. Listed(reply) /\ Taken(ops, OpAt(reply), Proposed(reply))
    BY ProposedTaken DEF GraphInv
  <2>2. Listed(ops) /\ \E at : TakenAt(at, ops, OpAt(reply), Proposed(reply))
    BY <2>1 DEF Taken
  <2>3. DOMAIN ops = 1 .. Len(ops) /\ DOMAIN reply \subseteq Nat
    BY <2>1, <2>2, ListFacts
  <2>4. PICK at : TakenAt(at, ops, OpAt(reply), Proposed(reply))
    BY <2>2
  <2> HIDE DEF ops
  <2>5. /\ at \in [DOMAIN ops -> Proposed(reply)]
        /\ \A j, k \in DOMAIN at : j < k => at[j] < at[k]
        /\ \A i \in Proposed(reply) : \E k \in DOMAIN at : at[k] = i
        /\ \A k \in DOMAIN at : ops[k] = OpAt(reply)[at[k]]
    BY <2>3, <2>4 DEF TakenAt
  <2>6. /\ at \in [DOMAIN ops -> DOMAIN reply]
        /\ \A k \in DOMAIN at : ops[k] = Converted(reply[at[k]].raw)
    BY <2>3, <2>5 DEF Proposed, OpAt
  <2>7. Range(at) = Proposed(reply)
    BY <2>5 DEF Range
  <2> QED
    BY <2>5, <2>6, <2>7 DEF OpsAttributed, Proposed, ops
<1> QED
  BY <1>1, GraphInit, GraphStep, PTL DEF Spec
-----------------------------------------------------------------------------
(* Who prevails. *)

\* Before the extraction, the graph is what the moderator's delta left of some
\* graph: the one the agents' delta had left.
MergedInv ==
    pc = "extract" =>
        \E g : IsGraph(g) /\ graph = apply_delta(g, proposals_to_delta(result.moderator))

\* Only the round boundary leads there.
LEMMA MergedStep == GraphInv /\ MergedInv /\ [Next]_vars => MergedInv'
<1> SUFFICES ASSUME GraphInv, [Next]_vars, MergedInv, pc' = "extract"
             PROVE  \E g : /\ IsGraph(g)
                           /\ graph' = apply_delta(g, proposals_to_delta(result'.moderator))
  BY DEF MergedInv
<1>1. CASE ApplyProposals
  <2> DEFINE g == apply_delta(graph, proposals_to_delta(result.agent))
  <2>1. IsGraph(g)
    BY DeltaKeeps DEF GraphInv
  <2>2. graph' = apply_delta(g, proposals_to_delta(result'.moderator))
    BY <1>1 DEF ApplyProposals, Merged
  <2> HIDE DEF g
  <2> QED
    BY <2>1, <2>2
<1>2. CASE UNCHANGED vars
  BY <1>2 DEF MergedInv, vars
<1>3. CASE ~ApplyProposals /\ ~UNCHANGED vars
  BY <1>3 DEF Next, StartRound, RoundsExhausted, AtTurn, TurnAnswers, TurnFails, TurnsOver,
     Extract, SelectScope, Decide, Finished
<1> QED
  BY <1>1, <1>2, <1>3

\* The layer an op's type belongs to.
LEMMA LayerTells ==
    ASSUME NEW l \in {"causal", "semantic"}, NEW id, NEW o
    PROVE  Creates(o, id, l) <=> /\ o.op = "node" /\ o.id = id
                                 /\ (o.type = "supporting") <=> (l = "semantic")
BY DEF Creates, RightLayer

\* In each layer, where agents and the moderator propose for the same id, what the
\* moderator's last NEW in that layer and, where it is the first that holds the id,
\* its last update ask for is what the round leaves.
THEOREM ModeratorWins == Spec => []ModeratorPrevails
<1>1. GraphInv /\ MergedInv => ModeratorPrevails
  <2> SUFFICES ASSUME GraphInv, MergedInv, pc = "extract",
                      NEW l \in {"causal", "semantic"}, NEW id \in DOMAIN graph.layers[l]
               PROVE  LET n == graph.layers[l][id]
                          new == LastByModerator(LAMBDA o :
                                   /\ o.op = "node" /\ o.id = id
                                   /\ (o.type = "supporting") <=> (l = "semantic"))
                      IN  /\ new # 0 => n.type = result.moderator[new].type
                          /\ Asked(n.aw, "aw", id, l)
                          /\ Asked(n.ep, "ep", id, l)
    BY DEF ModeratorPrevails
  <2> DEFINE ops == result.moderator
             n == graph.layers[l][id]
             created == {i \in 1 .. Len(ops) : Creates(ops[i], id, l)}
             new == IF created # {} THEN Max(created) ELSE 0
             changed(f) == {i \in 1 .. Len(ops) : Changes(ops[i], f, id)}
             upd(f) == IF changed(f) # {} THEN Max(changed(f)) ELSE 0
  <2>1. PICK g : IsGraph(g) /\ graph = apply_delta(g, proposals_to_delta(ops))
    BY DEF MergedInv
  <2>2. Ops(ops) /\ Len(ops) \in Nat
    BY ListFacts DEF GraphInv, Ops
  <2>3. graph.layers = LayersAfter(g, proposals_to_delta(ops)) /\ l \in LayerKind
    BY <2>1 DEF apply_delta, LayerKind
  <2>4. LastByModerator(LAMBDA o : /\ o.op = "node" /\ o.id = id
                                   /\ (o.type = "supporting") <=> (l = "semantic")) = new
    <3>1. created = {i \in 1 .. Len(ops) :
                       /\ ops[i].op = "node" /\ ops[i].id = id
                       /\ (ops[i].type = "supporting") <=> (l = "semantic")}
      BY LayerTells
    <3> QED
      BY <3>1 DEF LastByModerator, SelectLastInSeq
  <2>5. \A f \in Weights :
          LastByModerator(LAMBDA o : o.op = "update" /\ o.id = id /\ o[f] # Keep) = upd(f)
    BY DEF LastByModerator, SelectLastInSeq, Changes, Asks
  <2>6. new # 0 => new \in 1 .. Len(ops) /\ LastToCreate(ops, new, id, l)
    <3>1. IsLast(new, created, Len(ops))
      BY <2>2, LastFound
    <3>2. \A k \in Nat \ {0} : k \in created <=> k <= Len(ops) /\ Creates(ops[k], id, l)
      BY <2>2
    <3>3. \A k \in created : k \in 1 .. Len(ops) /\ Creates(ops[k], id, l)
      OBVIOUS
    <3> HIDE DEF created, new
    <3> QED
      BY <2>2, <3>1, <3>2, <3>3 DEF IsLast, LastToCreate
  <2>7. ASSUME NEW f \in Weights
        PROVE  /\ upd(f) # 0 => upd(f) \in 1 .. Len(ops) /\ LastToChange(ops, upd(f), f, id)
               /\ upd(f) = 0 => NoneChanges(ops, f, id)
    <3>1. IsLast(upd(f), changed(f), Len(ops))
      BY <2>2, LastFound
    <3>2. \A k \in Nat \ {0} : k \in changed(f) <=> k <= Len(ops) /\ Changes(ops[k], f, id)
      BY <2>2
    <3>3. \A k \in changed(f) : k \in 1 .. Len(ops) /\ Changes(ops[k], f, id)
      OBVIOUS
    <3> HIDE DEF changed, upd
    <3> QED
      BY <2>2, <3>1, <3>2, <3>3 DEF IsLast, LastToChange, NoneChanges
  <2> HIDE DEF new, upd
  <2>8. \A i \in 1 .. Len(ops) : Prevails(graph.layers, ops, i, l, id)
    BY <2>1, <2>2, <2>3, DeltaPrevails
  <2>9. new # 0 => n.type = ops[new].type
    BY <2>6, <2>8 DEF Prevails
  <2>10. ASSUME NEW f \in Weights
         PROVE  LET u == upd(f)
                    updated == u # 0 /\ FirstHolder(graph.layers, id) = l
                IN  /\ updated => n[f] = ops[u][f]
                    /\ ~updated /\ new # 0 => n[f] = ops[new][f]
    <3> DEFINE u == upd(f)
    <3>1. /\ u # 0 => u \in 1 .. Len(ops) /\ LastToChange(ops, u, f, id)
          /\ u = 0 => NoneChanges(ops, f, id)
      BY <2>7
    <3> HIDE DEF u
    <3>2. ASSUME u # 0, FirstHolder(graph.layers, id) = l
          PROVE  n[f] = ops[u][f]
      <4>1. Prevails(graph.layers, ops, u, l, id)
        BY <2>8, <3>1, <3>2
      <4>2. l = FirstHolder(graph.layers, id) /\ LastToChange(ops, u, f, id)
        BY <3>1, <3>2
      <4> QED
        BY <4>1, <4>2 DEF Prevails
    <3>3. ASSUME u = 0 \/ FirstHolder(graph.layers, id) # l, new # 0
          PROVE  n[f] = ops[new][f]
      <4>1. Prevails(graph.layers, ops, new, l, id)
        BY <2>6, <2>8, <3>3
      <4>2. /\ LastToCreate(ops, new, id, l)
            /\ l # FirstHolder(graph.layers, id) \/ NoneChanges(ops, f, id)
        BY <2>6, <3>1, <3>3
      <4> QED
        BY <4>1, <4>2 DEF Prevails
    <3> QED
      BY <3>2, <3>3 DEF u
  <2>11. ASSUME NEW f \in Weights
         PROVE  Asked(n[f], f, id, l)
    BY <2>4, <2>5, <2>10 DEF Asked
  <2>12. Asked(n.aw, "aw", id, l) /\ Asked(n.ep, "ep", id, l)
    BY <2>11 DEF Weights
  <2> QED
    BY <2>4, <2>9, <2>12
<1>2. Init => MergedInv
  BY DEF Init, MergedInv
<1> QED
  BY <1>1, <1>2, GraphInit, GraphStep, MergedStep, PTL DEF Spec
-----------------------------------------------------------------------------
(* What the prompts share. *)

\* While the turns run, what they share is what the round began with.
ContextInv == pc = "turns" => context = SharedContext

\* Nothing of what it is made of changes before the last turn.
LEMMA ContextStep == ContextInv /\ [Next]_vars => ContextInv'
<1> SUFFICES ASSUME ContextInv, [Next]_vars
             PROVE  ContextInv'
  OBVIOUS
<1>1. CASE StartRound
  BY <1>1 DEF StartRound, ContextInv, SharedContext, FrontierScope
<1>2. ASSUME NEW lines \in Replies[Role], NEW refused \in BOOLEAN, TurnAnswers(lines, refused)
      PROVE  ContextInv'
  BY <1>2 DEF TurnAnswers, AtTurn, ContextInv, SharedContext, FrontierScope
<1>3. CASE TurnFails \/ UNCHANGED vars
  BY <1>3 DEF TurnFails, AtTurn, vars, ContextInv, SharedContext, FrontierScope
<1>4. CASE RoundsExhausted \/ TurnsOver \/ ApplyProposals \/ Extract \/ SelectScope
           \/ Decide \/ Finished
  <2>1. pc' # "turns"
    BY <1>4 DEF RoundsExhausted, TurnsOver, ApplyProposals, Extract, SelectScope, Decide,
                Finished, vars
  <2> QED
    BY <2>1 DEF ContextInv
<1> QED
  BY <1>1, <1>2, <1>3, <1>4 DEF Next

\* A session starts before its first turn.
LEMMA ContextInit == Init => ContextInv
BY DEF Init, ContextInv

\* The Frontier nodes of all layers are those of the causal one.
LEMMA FrontierIsCausal ==
    ASSUME GraphInv
    PROVE  /\ IdsWhere(graph, IsFrontier) = FrontierScope
           /\ FrontierScope \subseteq DOMAIN graph.layers["causal"]
<1>1. "causal" \in LayerKind
  BY DEF LayerKind
<1>2. \A l \in LayerKind : \A id \in DOMAIN graph.layers[l] :
         /\ graph.layers[l][id].id = id
         /\ IsFrontier(graph.layers[l][id]) => l = "causal"
  BY DEF GraphInv, IsGraph, IsFrontier
<1>3. IdsWhere(graph, IsFrontier) \subseteq FrontierScope
  BY <1>2 DEF IdsWhere, AllNodes, FrontierScope, Range
<1>4. FrontierScope \subseteq IdsWhere(graph, IsFrontier)
  BY <1>1 DEF IdsWhere, AllNodes, FrontierScope, Range
<1>5. FrontierScope \subseteq DOMAIN graph.layers["causal"]
  BY <1>1, <1>2 DEF FrontierScope, Range
<1> QED
  BY <1>3, <1>4, <1>5

\* No open thread is dropped: without a scope every Frontier node is named.
THEOREM FrontierKept == Spec => []FrontierShown
<1>1. GraphInv /\ ContextInv => FrontierShown
  <2> SUFFICES ASSUME GraphInv, context = SharedContext, scope = {}, graph.version > 0,
                      NEW id \in IdsWhere(graph, IsFrontier)
               PROVE  \E c \in context : id \in c.frontier \cap c.causal
    BY DEF FrontierShown, ContextInv
  <2>1. id \in FrontierScope /\ id \in DOMAIN graph.layers["causal"]
    BY FrontierIsCausal
  <2>2. graph.version # 0
    BY DEF GraphInv, IsGraph
  <2> DEFINE c == retrieve(graph, FrontierScope, 1)
  <2>3. context = {c}
    BY <2>1, <2>2 DEF SharedContext
  <2>4. id \in Retrieved(graph, FrontierScope, 1)
    BY <2>1 DEF Retrieved
  <2>5. id \in c.causal
    BY <2>1, <2>4 DEF retrieve, Shown
  <2>6. id \in c.frontier
    BY <2>4 DEF retrieve, Shown
  <2> QED
    BY <2>3, <2>5, <2>6
<1> QED
  BY <1>1, GraphInit, GraphStep, ContextInit, ContextStep, PTL DEF Spec

\* A context lists, of the nodes of its scope and those one edge or one strong via
\* away from it, every causal and every open one, and no others.
THEOREM ContextOneHop == Spec => []ContextIsOneHop
<1>1. GraphInv /\ ContextInv => ContextIsOneHop
  <2> SUFFICES ASSUME GraphInv, context = SharedContext, NEW c \in context
               PROVE  c.causal \cup c.open = {id \in Reached : Listable(id)}
    BY DEF ContextIsOneHop, ContextInv
  <2> DEFINE ids == IF scope # {} THEN scope ELSE FrontierScope
             Open == {n.id : n \in {m \in AllNodes(graph) : Below(m.ep, 80)}}
             Causal == DOMAIN graph.layers["causal"]
  <2>1. c = retrieve(graph, ids, 1)
    BY DEF SharedContext
  <2>2. ids = Start
    BY FrontierIsCausal DEF Start
  <2>3. Causal \subseteq NodeIds(graph) /\ Open \subseteq NodeIds(graph)
    <3>1. "causal" \in LayerKind
      BY DEF LayerKind
    <3>2. \A l \in LayerKind : \A id \in DOMAIN graph.layers[l] : graph.layers[l][id].id = id
      BY DEF GraphInv, IsGraph
    <3> QED
      BY <3>1, <3>2 DEF NodeIds, AllNodes, Range
  <2>4. \A id : Listable(id) <=> id \in Causal \cup Open
    BY DEF Listable
  <2> HIDE DEF ids, Open, Causal
  <2>5. c.causal = Retrieved(graph, ids, 1) \cap Causal
    BY <2>1 DEF retrieve, Shown, Causal
  <2>6. c.open = Retrieved(graph, ids, 1) \cap Open
    BY <2>1 DEF retrieve, Shown, IdsWhere, Open
  <2>7. Retrieved(graph, ids, 1) = ids \cup AlongEdges(graph, ids) \cup AlongVias(graph, ids)
    BY DEF Retrieved
  <2>8. ASSUME NEW id
        PROVE  id \in Retrieved(graph, ids, 1) <=> \E s \in ids : OneHop(s, id)
    <3>1. id \in AlongEdges(graph, ids)
            <=> \E s \in ids : \E e \in ToSet(graph.edges) :
                  e.from = s /\ e.to = id /\ Followed(e)
      BY DEF AlongEdges
    <3>2. id \in AlongVias(graph, ids)
            <=> \E s \in ids : \E v \in ToSet(graph.vias) :
                  v.from = s /\ v.to = id /\ Above(v.strength, 50)
      BY DEF AlongVias
    <3> QED
      BY <2>7, <3>1, <3>2 DEF OneHop
  <2>9. Reached = {id \in NodeIds(graph) : id \in Retrieved(graph, ids, 1)}
    BY <2>2, <2>8 DEF Reached
  <2> QED
    BY <2>3, <2>4, <2>5, <2>6, <2>9
<1> QED
  BY <1>1, GraphInit, GraphStep, ContextInit, ContextStep, PTL DEF Spec
-----------------------------------------------------------------------------
(* The summary. *)

\* Where the summary tells Frontier nodes, it tells whether a context is shared.
THEOREM SummaryTellsContext ==
    ASSUME "frontier" \in NodeKinds
    PROVE  Spec => []ContextAsSummarised
<1>1. GraphInv /\ ContextInv => ContextAsSummarised
  <2> SUFFICES ASSUME GraphInv, context = SharedContext
               PROVE  context # {} <=>
                        ContextKind(round, Summary(graph), scope # {}) # "none"
    BY DEF ContextAsSummarised, ContextInv
  <2>1. "frontier" \in Summary(graph).nodes <=> FrontierScope # {}
    BY DEF Summary, FrontierScope
  <2>2. Summary(graph).version = graph.version
    BY DEF Summary
  <2> QED
    BY <2>1, <2>2 DEF SharedContext, ContextKind
<1> QED
  BY <1>1, GraphInit, GraphStep, ContextInit, ContextStep, PTL DEF Spec

\* A fold over nothing changes nothing.
LEMMA EmptyFolds ==
    ASSUME NEW base
    PROVE  /\ FoldLeft(Inserted, base, <<>>) = base
           /\ FoldLeft(Updated, base, <<>>) = base
           /\ FoldLeft(Pushed, base, <<>>) = base
<1>1. 0 \in Nat /\ DOMAIN <<>> = 1 .. 0
  OBVIOUS
<1>2. FoldLeft(Inserted, base, <<>>) = base
  BY <1>1, InsertedRuns DEF Runs
<1>3. FoldLeft(Updated, base, <<>>) = base
  BY <1>1, UpdatedRuns DEF Runs
<1>4. FoldLeft(Pushed, base, <<>>) = base
  BY <1>1, PushedRuns DEF Runs
<1> QED
  BY <1>2, <1>3, <1>4

\* The summary takes the step of a delta: without ops it counts a version.
LEMMA SummaryDelta ==
    ASSUME NEW g, IsGraph(g), NEW ops, Ops(ops), NEW some \in BOOLEAN, ops # <<>> => some
    PROVE  Summary(apply_delta(g, proposals_to_delta(ops))) \in DeltaApplied(Summary(g), some)
<1> DEFINE h == apply_delta(g, proposals_to_delta(ops))
<1>1. h.version = g.version + 1 /\ h.layers = LayersAfter(g, proposals_to_delta(ops))
  BY DEF apply_delta
<1>2. Summary(h).nodes \subseteq NodeKinds
  BY DEF Summary
<1>3. Summary(h) = [version |-> Summary(g).version + 1, nodes |-> Summary(h).nodes]
  BY <1>1 DEF Summary
<1>4. CASE some
  BY <1>2, <1>3, <1>4 DEF DeltaApplied
<1>5. CASE ~some
  <2>1. ops = <<>>
    BY <1>5
  <2>2. proposals_to_delta(ops) = NoDelta
    BY <2>1, EmptyFolds DEF proposals_to_delta
  <2>3. h.layers = g.layers
    BY <1>1, <2>2, EmptyFolds DEF LayersAfter, NoDelta
  <2> HIDE DEF h
  <2>4. AllNodes(h) = AllNodes(g) /\ Range(h.layers["causal"]) = Range(g.layers["causal"])
    BY <2>3 DEF AllNodes
  <2>5. "frontier" \in Summary(h).nodes <=> "frontier" \in Summary(g).nodes
    BY <2>4 DEF Summary
  <2>6. "open" \in Summary(h).nodes <=> "open" \in Summary(g).nodes
    BY <2>4 DEF Summary
  <2>7. Summary(g).nodes \subseteq NodeKinds
    BY DEF Summary
  <2>8. \A k \in NodeKinds : k \in Summary(h).nodes <=> k \in Summary(g).nodes
    BY <2>5, <2>6, NodeKindsAssumption
  <2>9. Summary(h).nodes = Summary(g).nodes
    <3> DEFINE a == Summary(h).nodes
               b == Summary(g).nodes
    <3>1. a \subseteq NodeKinds /\ b \subseteq NodeKinds
      BY <1>2, <2>7 DEF h
    <3>2. \A k \in NodeKinds : k \in a <=> k \in b
      BY <2>8
    <3> HIDE DEF a, b
    <3>3. a = b
      BY <3>1, <3>2
    <3> QED
      BY <3>3 DEF a, b
  <2>10. Summary(h) = [version |-> Summary(g).version + 1, nodes |-> Summary(g).nodes]
    BY <1>3, <2>9 DEF h
  <2> QED
    BY <1>5, <2>10 DEF DeltaApplied, h
<1> QED
  BY <1>4, <1>5

\* The steps of the graph are those that the session's control takes on its
\* summary.
THEOREM SummaryFollows == Spec => AsSummarised
<1> DEFINE A == /\ pc = "apply" /\ pc' # "apply" =>
                     Summary(graph') \in ProposalsApplied(Summary(graph),
                         result.agent # <<>>, result.moderator # <<>>)
                /\ pc # "apply" /\ graph' # graph =>
                     Summary(graph') \in DeltaApplied(Summary(graph), TRUE)
<1>1. ASSUME GraphInv, [Next]_vars
      PROVE  [A]_vars
  <2>1. CASE pc = "apply" /\ pc' # "apply"
    <3>1. ApplyProposals
      BY <1>1, <2>1 DEF Next, vars, StartRound, RoundsExhausted, TurnAnswers, AtTurn, TurnFails,
             TurnsOver, Extract, SelectScope, Decide, Finished
    <3> DEFINE g == apply_delta(graph, proposals_to_delta(result.agent))
    <3>2. graph' = apply_delta(g, proposals_to_delta(result.moderator))
      BY <3>1 DEF ApplyProposals, Merged
    <3>3. IsGraph(g)
      BY <1>1, DeltaKeeps DEF GraphInv
    <3>4. Summary(g) \in DeltaApplied(Summary(graph), result.agent # <<>>)
      BY <1>1, SummaryDelta DEF GraphInv
    <3> HIDE DEF g
    <3>5. Summary(graph') \in DeltaApplied(Summary(g), result.moderator # <<>>)
      BY <1>1, <3>2, <3>3, SummaryDelta DEF GraphInv
    <3>6. Summary(graph') \in ProposalsApplied(Summary(graph),
                         result.agent # <<>>, result.moderator # <<>>)
      BY <3>4, <3>5 DEF ProposalsApplied
    <3> QED
      BY <2>1, <3>6
  <2>2. CASE pc # "apply" /\ graph' # graph
    <3>1. PICK ops \in Extractions : graph' = Extracted(ops)
      BY <1>1, <2>2 DEF Next, vars, StartRound, RoundsExhausted, TurnAnswers, TurnFails,
             TurnsOver, ApplyProposals, Extract, SelectScope, Decide, Finished
    <3> DEFINE new == [i \in DOMAIN ops |-> Converted(ops[i])]
    <3>2. Ops(new)
      BY ExtractedOps
    <3> HIDE DEF new
    <3>3. Summary(apply_delta(graph, proposals_to_delta(new)))
            \in DeltaApplied(Summary(graph), TRUE)
      BY <1>1, <3>2, SummaryDelta DEF GraphInv
    <3>4. graph' = apply_delta(graph, proposals_to_delta(new))
      BY <3>1 DEF Extracted, new
    <3> QED
      BY <2>2, <3>3, <3>4
  <2>3. CASE ~(pc = "apply" /\ pc' # "apply") /\ ~(pc # "apply" /\ graph' # graph)
    BY <2>3
  <2> QED
    BY <2>1, <2>2, <2>3
<1> QED
  BY <1>1, GraphInit, GraphStep, PTL DEF Spec, AsSummarised
=============================================================================
