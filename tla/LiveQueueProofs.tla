--------------------------- MODULE LiveQueueProofs ---------------------------
(***************************************************************************)
(* Theorems about LiveQueue, for any setups, any numbers of scenarios,     *)
(* retries, restarts and attempts, and any crashes, resumes and runs of    *)
(* the operator's own.                                                     *)
(***************************************************************************)
EXTENDS LiveQueue, FiniteSetTheorems, SequenceTheorems, TLAPS

Doc ==
    [phase : Phases, items : Nat, next : Nat, run : Nat, done : Seq(Nat),
     skipped : SUBSET Nat, retries : [Items -> 0..MaxRetries],
     restarts : [Items -> 0..MaxRestarts], attempts : 0..MaxAttempts, waiting : BOOLEAN]

InProgress(q) == q.phase \notin {"idle", "completed"}

\* What the queue is about.
WorldTyped ==
    /\ setup \in Setups /\ listed \in 1..setup.items
    /\ runs \in Seq(Runs)
    /\ starting \in 0..Len(runs) /\ current \in 0..Len(runs)
    /\ dirty \in BOOLEAN /\ manual \in BOOLEAN
    /\ resumes \in Nat /\ faults \in Nat /\ manuals \in Nat
    /\ current # 0 => runs[current].end # "orphan"
    /\ \A r \in DOMAIN runs : runs[r].job # "none" => runs[r].end \in {"accepted", "failed"}

\* The cursor is inside the list until the last scenario is settled, and only
\* scenarios up to it have been touched.
Cursor(q) ==
    /\ q.items <= listed /\ q.next <= q.items
    /\ InProgress(q) => q.next < q.items
    /\ q.skipped \subseteq 1..q.next
    /\ \A i \in Items : q.retries[i] + q.restarts[i] > 0 => i <= q.items
    /\ InProgress(q) => \A r \in DOMAIN runs : runs[r].item <= Item(q)

\* A run that is being captured has proven itself; before the injection of a
\* cycle there is no run.
PhaseFits(q) ==
    /\ q.run # 0 => InProgress(q)
    /\ q.phase \in {"cycle_cooldown", "waiting_capture"} => q.run # 0 /\ Proven(q.run)
    /\ q.phase \in {"cycle_reset", "cycle_normal", "cycle_buffer"} => q.run = 0
    /\ Cycle /\ q.phase = "running" => q.run # 0

\* The run in the file, and the one that is being started, are of the present
\* scenario.
OwnRun(q) ==
    /\ q.run \in 0..Len(runs)
    /\ q.run # 0 => runs[q.run].item = Item(q)
    /\ starting # 0 => /\ q.phase = IF Cycle THEN "cycle_buffer" ELSE "running"
                       /\ q.run = 0 /\ runs[starting].item = Item(q)

\* A run that may still come to a case, or that has.
Held(r) ==
    \/ runs[r].end \in {"going", "orphan"}
    \/ Proven(r) /\ runs[r].job \in {"pending", "completed"}

\* The queue lets go of such a run only with its scenario, or when the operator
\* resumes a cycle.
KeepsItsRun(q) ==
    InProgress(q) /\ (Cycle => resumes = 0) =>
        \A r \in DOMAIN runs :
            runs[r].kept /\ runs[r].item = Item(q) /\ Held(r) => q.run = r

\* What is behind the cursor.
SettledItems(q) == {runs[q.done[k]].item : k \in DOMAIN q.done}
Done(q) ==
    /\ \A k \in DOMAIN q.done :
         /\ q.done[k] \in DOMAIN runs /\ Proven(q.done[k])
         /\ Captures => runs[q.done[k]].job = "completed"
    /\ SettledItems(q) \cup q.skipped = 1..q.next
    /\ SettledItems(q) \cap q.skipped = {}
    /\ Cardinality(SettledItems(q)) = Len(q.done)

\* Every run but the one at hand has a reason.
RunsOf(i) == {r \in DOMAIN runs : runs[r].item = i}
Granted == IF Cycle THEN MaxRestarts + 1 ELSE 1
Spent(q, i) == q.retries[i] + q.restarts[i] + faults + resumes * Granted
AtHand(q) == IF q.run # 0 \/ starting # 0 THEN 1 ELSE 0
Accounted(q) ==
    /\ \A i \in Items : Cardinality(RunsOf(i)) <= 1 + Spent(q, i)
    /\ InProgress(q) => Cardinality(RunsOf(Item(q))) <= AtHand(q) + Spent(q, Item(q))

DocInv(q) ==
    /\ q \in Doc
    /\ Cursor(q) /\ PhaseFits(q) /\ OwnRun(q) /\ KeepsItsRun(q) /\ Done(q) /\ Accounted(q)

\* A marker belongs to a recorded run of the present scenario, and the snapshots
\* it leads to are listed or were given up with the run.
Marked ==
    /\ collecting \in BOOLEAN /\ bundle \in {"absent", "writing", "partial", "listed"}
    /\ setup.topology \/ (marked = {} /\ ~collecting)
    /\ lost \subseteq marked /\ marked \subseteq DOMAIN runs
    /\ \A r \in marked : runs[r].kept
    /\ InProgress(queue) => \A r \in marked : runs[r].item = Item(queue)
    /\ \A r \in lost : resumes > 0 \/ ~Held(r)
    /\ \A r \in marked \ lost : bundle \in {"listed", "writing"} \/ faults > 0
    /\ collecting => bundle # "partial" \/ faults > 0
    /\ collecting /\ starting # 0 => bundle # "absent"

QueueInv == WorldTyped /\ DocInv(queue) /\ Marked

-----------------------------------------------------------------------------
\* The facts of arithmetic and counting that the steps below keep needing.
LEMMA Constants ==
    /\ MaxItems \in Nat \ {0} /\ MaxAttempts \in Nat \ {0}
    /\ MaxRetries \in Nat /\ MaxRestarts \in Nat
    /\ Granted \in Nat \ {0}
    /\ \A n \in Nat : /\ n * Granted \in Nat
                      /\ (n + 1) * Granted = n * Granted + Granted
                      /\ \A m \in Nat : n <= m => n * Granted <= m * Granted
  <1>1. Granted \in Nat \ {0}
    BY QueueAssumption DEF Granted
  <1>2. ASSUME NEW g \in Nat, NEW n \in Nat
        PROVE  /\ n * g \in Nat /\ (n + 1) * g = n * g + g
               /\ \A m \in Nat : n <= m => n * g <= m * g
    OBVIOUS
  <1> QED
    BY <1>1, <1>2, QueueAssumption

LEMMA DocFields ==
    ASSUME NEW q \in Doc
    PROVE  /\ q.phase \in Phases /\ q.items \in Nat /\ q.next \in Nat /\ q.run \in Nat
           /\ q.skipped \subseteq Nat /\ q.attempts \in 0..MaxAttempts /\ q.waiting \in BOOLEAN
           /\ q.done \in Seq(Nat) /\ DOMAIN q.done = 1..Len(q.done) /\ Len(q.done) \in Nat
           /\ \A i \in Items : q.retries[i] \in Nat /\ q.restarts[i] \in Nat
  <1>1. /\ q.phase \in Phases /\ q.items \in Nat /\ q.next \in Nat /\ q.run \in Nat
        /\ q.skipped \subseteq Nat /\ q.attempts \in 0..MaxAttempts /\ q.waiting \in BOOLEAN
        /\ q.done \in Seq(Nat)
        /\ q.retries \in [Items -> 0..MaxRetries] /\ q.restarts \in [Items -> 0..MaxRestarts]
    BY DEF Doc
  <1>2. DOMAIN q.done = 1..Len(q.done) /\ Len(q.done) \in Nat
    BY <1>1, LenProperties
  <1>3. MaxRetries \in Nat /\ MaxRestarts \in Nat
    BY QueueAssumption
  <1> QED
    BY <1>1, <1>2, <1>3

LEMMA ListIsBounded ==
    ASSUME WorldTyped
    PROVE  /\ listed \in Nat /\ listed <= MaxItems
           /\ \A n \in 1..listed : n \in Items
  BY QueueAssumption DEF WorldTyped, Items

\* How often a scenario has been run.
LEMMA RunsAreCounted ==
    ASSUME WorldTyped, NEW i
    PROVE  IsFiniteSet(RunsOf(i)) /\ Cardinality(RunsOf(i)) \in Nat
  <1>1. DOMAIN runs = 1..Len(runs) /\ Len(runs) \in Nat
    BY LenProperties DEF WorldTyped
  <1>2. IsFiniteSet(1..Len(runs))
    BY <1>1, FS_Interval
  <1>3. RunsOf(i) \in SUBSET (1..Len(runs))
    BY <1>1 DEF RunsOf
  <1>4. IsFiniteSet(RunsOf(i))
    BY <1>2, <1>3, FS_Subset
  <1> QED
    BY <1>4, FS_CardinalityType

\* A scenario that has not been run.
LEMMA NoRunsYet ==
    ASSUME NEW i, \A r \in DOMAIN runs : runs[r].item # i
    PROVE  Cardinality(RunsOf(i)) = 0
  <1>1. RunsOf(i) = {}
    BY DEF RunsOf
  <1> QED
    BY <1>1, FS_EmptySet

LEMMA SpentIsNat ==
    ASSUME WorldTyped, NEW q \in Doc, NEW i \in Items
    PROVE  Spent(q, i) \in Nat
  <1>1. q.retries[i] \in Nat /\ q.restarts[i] \in Nat
    BY DocFields
  <1>2. faults \in Nat /\ resumes * Granted \in Nat
    BY Constants DEF WorldTyped
  <1> QED
    BY <1>1, <1>2 DEF Spent

-----------------------------------------------------------------------------
(* Steps of the document and of what it is about. *)

\* What the runner, the captures and a crash may do to the runs: a run that is
\* done stays done, and none comes back to life.
RunsGoOn ==
    /\ runs' \in Seq(Runs) /\ DOMAIN runs' = DOMAIN runs
    /\ \A r \in DOMAIN runs :
          /\ runs'[r].item = runs[r].item /\ runs'[r].kept = runs[r].kept
          /\ Proven(r) => Proven(r)'
          /\ Proven(r) /\ runs[r].job = "completed" => runs'[r].job = "completed"
          /\ Held(r)' => Held(r)

\* The document keeps its place in the list.  A run it lets go of is paid for.
LEMMA Keeps ==
    ASSUME NEW q, DocInv(q), WorldTyped, WorldTyped',
           UNCHANGED setup, RunsGoOn, resumes' >= resumes, listed' >= listed,
           queue' \in Doc, queue'.next = q.next, queue'.done = q.done,
           queue'.skipped = q.skipped,
           q.items <= queue'.items, queue'.items <= listed',
           InProgress(q) \/ ~InProgress(queue'),
           \A i \in Items : queue'.retries[i] + queue'.restarts[i] > 0
                             => q.retries[i] + q.restarts[i] > 0 \/ (InProgress(q) /\ i = Item(q)),
           PhaseFits(queue)',
           queue'.run \in {0, q.run},
           (starting' = starting /\ (starting # 0 => queue' = q)) \/ starting' = 0,
           \A i \in Items : Spent(q, i) <= Spent(queue, i)',
           InProgress(queue') /\ AtHand(q) > AtHand(queue)'
             => /\ Spent(q, Item(q)) + 1 <= Spent(queue, Item(q))'
                /\ q.run # 0 => ~Held(q.run) \/ (Cycle /\ resumes' > 0)
    PROVE  DocInv(queue)'
  <1> DEFINE d == queue'
  <1> USE DEF DocInv, InProgress, Item
  <1>1. /\ q \in Doc /\ d \in Doc /\ Cycle' = Cycle /\ Captures' = Captures /\ Granted' = Granted
        /\ InProgress(queue)' = InProgress(d) /\ Item(queue)' = Item(q) /\ Item(d) = Item(q)
        /\ Doc' = Doc
    BY DEF Cycle, Captures, Granted, Doc, Phases, ActivePhases
  <1>2. DOMAIN runs = 1..Len(runs) /\ Len(runs) \in Nat /\ Len(runs') = Len(runs)
    BY LenProperties DEF WorldTyped, RunsGoOn
  <1>3. listed \in Nat /\ listed' \in Nat /\ q.next \in Nat /\ q.items \in Nat /\ d.items \in Nat
    BY ListIsBounded DEF WorldTyped, Doc
  <1>4. Cursor(queue)'
    <2>1. d.next <= d.items /\ (InProgress(d) => d.next < d.items)
      BY <1>3 DEF Cursor
    <2>2. ASSUME NEW i \in Items, d.retries[i] + d.restarts[i] > 0
          PROVE  i <= d.items
      BY <1>3, <2>2 DEF Cursor, Items
    <2> QED
      BY <1>1, <2>1, <2>2 DEF Cursor, RunsGoOn
  <1>5. OwnRun(queue)'
    BY SMTT(30), <1>1, <1>2 DEF OwnRun, RunsGoOn, WorldTyped
  <1>6. KeepsItsRun(queue)'
    <2> SUFFICES ASSUME InProgress(d), Cycle => resumes' = 0, NEW r \in DOMAIN runs,
                        runs[r].kept, runs[r].item = Item(q), Held(r)
                 PROVE  d.run = r
      BY <1>1 DEF KeepsItsRun, RunsGoOn
    <2>1. Cycle => resumes = 0
      BY DEF WorldTyped
    <2>2. q.run = r /\ q.run # 0
      BY <1>2, <2>1 DEF KeepsItsRun
    <2> QED
      BY SMTT(30), <2>1, <2>2 DEF AtHand, WorldTyped
  <1>7. Done(queue)'
    <2>1. \A k \in DOMAIN q.done : runs'[q.done[k]].item = runs[q.done[k]].item
      BY DEF Done, RunsGoOn
    <2>2. SettledItems(queue)' = SettledItems(q)
      BY <2>1 DEF SettledItems
    <2> QED
      BY <1>1, <2>2 DEF Done, RunsGoOn
  <1>8. Accounted(queue)'
    <2>1. \A i : RunsOf(i)' = RunsOf(i)
      BY DEF RunsOf, RunsGoOn
    <2>2. \A i \in Items : /\ Spent(q, i) \in Nat /\ Spent(queue, i)' \in Nat
                            /\ Cardinality(RunsOf(i)) \in Nat
      <3>1. faults' \in Nat /\ resumes' * Granted \in Nat
        BY Constants DEF WorldTyped
      <3>2. \A i \in Items : d.retries[i] \in Nat /\ d.restarts[i] \in Nat
        BY <1>1, DocFields
      <3>3. \A i : Spent(queue, i)' = d.retries[i] + d.restarts[i] + faults' + resumes' * Granted
        BY <1>1 DEF Spent
      <3> HIDE DEF d
      <3>4. \A i \in Items : Spent(queue, i)' \in Nat
        BY <3>1, <3>2, <3>3
      <3> QED
        BY <1>1, <3>4, SpentIsNat, RunsAreCounted
    <2>3. ASSUME InProgress(d) PROVE Item(q) \in Items
      BY <1>3, <2>3, ListIsBounded DEF Cursor
    <2>4. AtHand(q) \in {0, 1} /\ AtHand(queue)' \in {0, 1}
      BY DEF AtHand
    <2> QED
      BY <1>1, <2>1, <2>2, <2>3, <2>4 DEF Accounted
  <1> QED
    BY <1>1, <1>4, <1>5, <1>6, <1>7, <1>8

\* The present scenario is settled, by its run or by being skipped.
LEMMA Settles ==
    ASSUME NEW q, DocInv(q), WorldTyped, WorldTyped', InProgress(q), starting = 0,
           UNCHANGED <<setup, listed, runs, starting, resumes, faults>>,
           queue' \in Doc, queue'.items = q.items, queue'.next = q.next + 1, queue'.run = 0,
           queue'.retries = q.retries, queue'.restarts = q.restarts,
           PhaseFits(queue)', q.next + 1 < q.items \/ ~InProgress(queue'),
           \/ /\ q.run # 0 /\ Proven(q.run) /\ (Captures => runs[q.run].job = "completed")
              /\ queue'.done = Append(q.done, q.run) /\ queue'.skipped = q.skipped
           \/ /\ queue'.skipped = q.skipped \cup {Item(q)} /\ queue'.done = q.done
    PROVE  DocInv(queue)'
  <1> DEFINE d == queue'
  <1> USE DEF DocInv, InProgress, Item
  <1>1. /\ q \in Doc /\ d \in Doc /\ Cycle' = Cycle /\ Captures' = Captures /\ Granted' = Granted
        /\ InProgress(queue)' = InProgress(d) /\ Item(queue)' = q.next + 2
        /\ Doc' = Doc
    BY DEF Cycle, Captures, Granted, Doc, Phases, ActivePhases
  <1>2. DOMAIN runs = 1..Len(runs) /\ Len(runs) \in Nat
    BY LenProperties DEF WorldTyped
  <1>3. /\ listed \in Nat /\ q.next \in Nat /\ q.items \in Nat /\ q.next < q.items
        /\ \A r \in DOMAIN runs : runs[r].item \in Items /\ runs[r].item <= q.next + 1
    <2>1. /\ listed \in Nat /\ q.next \in Nat /\ q.items \in Nat /\ q.next < q.items
      BY <1>1, ListIsBounded, DocFields DEF Cursor
    <2>2. \A r \in DOMAIN runs : runs[r] \in Runs
      BY <1>2, ElementOfSeq DEF WorldTyped
    <2> QED
      BY <2>1, <2>2 DEF Cursor, Runs
  <1>4. Cursor(queue)'
    BY <1>1, <1>3 DEF Cursor, Items
  <1>5. OwnRun(queue)'
    BY <1>2 DEF OwnRun
  <1>6. KeepsItsRun(queue)'
    BY <1>1, <1>3 DEF KeepsItsRun, Items
  <1>7. Done(queue)'
    <2>1. DOMAIN q.done = 1..Len(q.done) /\ Len(q.done) \in Nat /\ q.done \in Seq(Nat)
      BY <1>1, DocFields
    <2>2. /\ SettledItems(queue)' = {runs[d.done[k]].item : k \in DOMAIN d.done}
          /\ q.next + 1 \notin SettledItems(q) /\ q.next + 1 \notin q.skipped
      <3>1. q.next + 1 \notin 1..q.next
        BY <1>3
      <3> QED
        BY <1>1, <3>1 DEF SettledItems, Done
    <2>3. CASE d.done = q.done /\ d.skipped = q.skipped \cup {Item(q)}
      <3>1. SettledItems(queue)' = SettledItems(q)
        BY <2>2, <2>3 DEF SettledItems
      <3>2. 1..(q.next + 1) = (1..q.next) \cup {q.next + 1}
        BY <1>3
      <3>3. /\ \A r : Proven(r)' = Proven(r)
            /\ DOMAIN runs' = DOMAIN runs /\ runs' = runs
        BY DEF Proven
      <3>4. SettledItems(q) \cup d.skipped = 1..d.next /\ SettledItems(q) \cap d.skipped = {}
        BY <2>2, <2>3, <3>2 DEF Done
      <3> QED
        BY <1>1, <2>3, <3>1, <3>3, <3>4 DEF Done
    <2>4. CASE /\ q.run # 0 /\ Proven(q.run) /\ (Captures => runs[q.run].job = "completed")
               /\ d.done = Append(q.done, q.run) /\ d.skipped = q.skipped
      <3>1. q.run \in DOMAIN runs /\ runs[q.run].item = q.next + 1 /\ q.run \in Nat
        BY <1>1, <1>2, <2>4, DocFields DEF OwnRun
      <3>2. /\ DOMAIN d.done = 1..(Len(q.done) + 1) /\ Len(d.done) = Len(q.done) + 1
            /\ \A k \in 1..Len(q.done) : d.done[k] = q.done[k]
            /\ d.done[Len(q.done) + 1] = q.run
        BY <2>1, <2>4, <3>1, AppendProperties, LenProperties
      <3>3. SettledItems(queue)' = SettledItems(q) \cup {q.next + 1}
        <4>1. ASSUME NEW i \in SettledItems(queue)'
              PROVE  i \in SettledItems(q) \cup {q.next + 1}
          <5>1. PICK k \in 1..(Len(q.done) + 1) : i = runs[d.done[k]].item
            BY <2>2, <3>2, <4>1
          <5>2. CASE k = Len(q.done) + 1
            BY <3>1, <3>2, <5>1, <5>2
          <5>3. CASE k \in 1..Len(q.done)
            BY <2>1, <3>2, <5>1, <5>3 DEF SettledItems
          <5> QED
            BY <2>1, <5>1, <5>2, <5>3
        <4>2. \A k \in DOMAIN q.done : k \in DOMAIN d.done /\ d.done[k] = q.done[k]
          BY <2>1, <3>2
        <4>3. SettledItems(q) \subseteq SettledItems(queue)'
          BY <2>2, <4>2 DEF SettledItems
        <4>4. Len(q.done) + 1 \in DOMAIN d.done
          BY <2>1, <3>2
        <4>5. q.next + 1 \in SettledItems(queue)'
          BY <2>2, <3>1, <3>2, <4>4
        <4> QED
          BY <4>1, <4>3, <4>5
      <3>4. IsFiniteSet(SettledItems(q))
        <4>1. SettledItems(q) \subseteq 1..q.next
          BY DEF Done
        <4>2. IsFiniteSet(1..q.next)
          BY <1>3, FS_Interval
        <4> QED
          BY <4>1, <4>2, FS_Subset
      <3>5. Cardinality(SettledItems(queue)') = Len(d.done)
        <4>1. Cardinality(SettledItems(q)) = Len(q.done)
          BY DEF Done
        <4>2. Cardinality(SettledItems(q) \cup {q.next + 1}) = Cardinality(SettledItems(q)) + 1
          BY <2>2, <3>4, FS_AddElement
        <4> QED
          BY <3>2, <3>3, <4>1, <4>2
      <3>6. 1..(q.next + 1) = (1..q.next) \cup {q.next + 1}
        BY <1>3
      <3>7. \A k \in DOMAIN d.done :
               /\ d.done[k] \in DOMAIN runs /\ Proven(d.done[k])
               /\ Captures => runs[d.done[k]].job = "completed"
        BY <2>1, <2>4, <3>1, <3>2 DEF Done
      <3>8. SettledItems(queue)' \cup d.skipped = 1..d.next /\ SettledItems(queue)' \cap d.skipped = {}
        BY ZenonT(40), <2>2, <2>4, <3>3, <3>6 DEF Done
      <3>9. \A r : Proven(r)' = Proven(r)
        BY DEF Proven
      <3> QED
        BY <1>1, <3>5, <3>7, <3>8, <3>9 DEF Done
    <2> QED
      BY <2>3, <2>4
  <1>8. Accounted(queue)'
    <2>1. /\ \A i : RunsOf(i)' = RunsOf(i)
          /\ \A i \in Items : Spent(queue, i)' = Spent(q, i)
      BY <1>1 DEF RunsOf, Spent
    <2>2. \A i \in Items : Spent(q, i) \in Nat
      BY <1>1, SpentIsNat
    <2>3. ASSUME InProgress(d) PROVE q.next + 2 \in Items
      BY <1>3, <2>3, ListIsBounded DEF Cursor
    <2>4. Cardinality(RunsOf(q.next + 2)) = 0
      BY <1>3, NoRunsYet DEF Items
    <2>5. AtHand(queue)' \in {0, 1}
      BY DEF AtHand
    <2> QED
      BY <1>1, <2>1, <2>2, <2>3, <2>4, <2>5 DEF Accounted
  <1> QED
    BY <1>1, <1>4, <1>5, <1>6, <1>7, <1>8

\* A run of the present scenario starts when there is none at hand.
LEMMA RunStarts ==
    ASSUME NEW q, DocInv(q), WorldTyped, InProgress(q), starting = 0, q.run = 0,
           q.phase = (IF Cycle THEN "cycle_buffer" ELSE "running"),
           UNCHANGED <<setup, listed, resumes, faults, manuals>>, Starts(q)
    PROVE  WorldTyped' /\ DocInv(queue)'
  <1> DEFINE run == Len(runs) + 1
             new == [item |-> Item(q), end |-> "going", job |-> "none", kept |-> FALSE]
  <1> USE DEF DocInv, InProgress, Item
  <1>1. /\ q \in Doc /\ queue' = q /\ Cycle' = Cycle /\ Captures' = Captures /\ Granted' = Granted
        /\ InProgress(queue)' = InProgress(q) /\ Item(queue)' = Item(q)
        /\ Doc' = Doc
    BY DEF Cycle, Captures, Granted, Doc, Phases, ActivePhases, Starts
  <1>2. /\ DOMAIN runs = 1..Len(runs) /\ Len(runs) \in Nat /\ runs \in Seq(Runs)
        /\ \A r \in DOMAIN runs : runs[r] \in Runs
    BY LenProperties, ElementOfSeq DEF WorldTyped
  <1>3. /\ listed \in Nat /\ q.next \in Nat /\ q.items \in Nat /\ q.next < q.items
        /\ Item(q) \in Items
    BY <1>1, ListIsBounded, DocFields DEF Cursor
  <1>4. new \in Runs
    BY <1>3 DEF Runs
  <1>5. /\ runs' \in Seq(Runs) /\ DOMAIN runs' = 1..run /\ Len(runs') = run
        /\ \A r \in DOMAIN runs : runs'[r] = runs[r]
        /\ runs'[run] = new /\ starting' = run /\ current' = run
        /\ run \notin DOMAIN runs /\ DOMAIN runs' = DOMAIN runs \cup {run}
    <2>1. runs' = Append(runs, new) /\ starting' = Len(runs') /\ current' = starting'
      BY DEF Starts
    <2> HIDE DEF new
    <2>2. /\ Append(runs, new) \in Seq(Runs) /\ Len(Append(runs, new)) = run
          /\ \A r \in 1..Len(runs) : Append(runs, new)[r] = runs[r]
          /\ Append(runs, new)[run] = new
      BY <1>2, <1>4, AppendProperties
    <2>3. DOMAIN runs' = 1..run
      BY <2>1, <2>2, LenProperties
    <2>4. run \notin 1..Len(runs) /\ 1..run = (1..Len(runs)) \cup {run}
      BY <1>2
    <2> QED
      BY <1>2, <2>1, <2>2, <2>3, <2>4
  <1>6. WorldTyped'
    <2>1. runs'[current'].end # "orphan"
      BY <1>5
    <2>2. run \in 0..Len(runs')
      BY <1>2, <1>5
    <2> HIDE DEF run, new
    <2> QED
      BY <1>5, <2>1, <2>2 DEF WorldTyped, Starts
  <1>7. new.item = Item(q) /\ new.end = "going" /\ new.kept = FALSE
    OBVIOUS
  <1>8. run # 0 /\ run \in Nat
    BY <1>2
  <1> HIDE DEF run, new
  <1>9. Cursor(queue)'
    <2>1. \A r \in DOMAIN runs' : runs'[r].item <= Item(q)
      <3>1. \A r \in DOMAIN runs : runs'[r].item <= Item(q)
        BY <1>5 DEF Cursor
      <3>2. runs'[run].item <= Item(q)
        BY <1>3, <1>5, <1>7
      <3> QED
        BY <1>5, <3>1, <3>2
    <2> QED
      BY <1>1, <1>3, <2>1 DEF Cursor
  <1>10. PhaseFits(queue)' /\ OwnRun(queue)'
    BY <1>1, <1>5, <1>7 DEF PhaseFits, OwnRun, WorldTyped
  <1>11. KeepsItsRun(queue)'
    <2>1. \A r \in DOMAIN runs : Held(r)' = Held(r)
      BY <1>5 DEF Held, Proven
    <2> QED
      BY <1>1, <1>5, <1>7, <2>1 DEF KeepsItsRun
  <1>12. Done(queue)'
    <2>1. \A k \in DOMAIN q.done : /\ q.done[k] \in DOMAIN runs
                                   /\ runs'[q.done[k]] = runs[q.done[k]]
      BY <1>5 DEF Done
    <2>2. SettledItems(queue)' = SettledItems(q)
      BY <1>1, <2>1 DEF SettledItems
    <2>3. \A r \in DOMAIN runs : Proven(r)' = Proven(r)
      BY <1>5 DEF Proven
    <2> QED
      BY <1>1, <1>5, <2>1, <2>2, <2>3 DEF Done
  <1>13. Accounted(queue)'
    <2>1. RunsOf(Item(q))' = RunsOf(Item(q)) \cup {run}
      BY <1>5, <1>7 DEF RunsOf
    <2>2. \A i : i # Item(q) => RunsOf(i)' = RunsOf(i)
      BY <1>5, <1>7 DEF RunsOf
    <2>3. run \notin RunsOf(Item(q))
      BY <1>5 DEF RunsOf
    <2>4. \A i : IsFiniteSet(RunsOf(i)) /\ Cardinality(RunsOf(i)) \in Nat
      BY RunsAreCounted
    <2>5. Cardinality(RunsOf(Item(q))') = Cardinality(RunsOf(Item(q))) + 1
      BY <2>1, <2>3, <2>4, FS_AddElement
    <2>6. \A i \in Items : Spent(q, i) \in Nat /\ Spent(queue, i)' = Spent(q, i)
      BY <1>1, SpentIsNat DEF Spent
    <2>7. AtHand(q) = 0 /\ AtHand(queue)' = 1
      BY <1>5, <1>8 DEF AtHand
    <2> QED
      BY <1>1, <1>3, <2>2, <2>4, <2>5, <2>6, <2>7 DEF Accounted
  <1> QED
    BY <1>1, <1>6, <1>9, <1>10, <1>11, <1>12, <1>13

\* The run that has started goes into the file.
LEMMA RecordsKeep ==
    ASSUME QueueInv, Records
    PROVE  WorldTyped' /\ DocInv(queue)'
  <1> DEFINE q == queue
             d == [q EXCEPT !.phase = "running", !.run = starting, !.attempts = 0, !.waiting = FALSE]
  <1> USE DEF DocInv, InProgress, Item, QueueInv
  <1>1. /\ q \in Doc /\ queue' = d /\ Cycle' = Cycle /\ Captures' = Captures /\ Granted' = Granted
        /\ Doc' = Doc /\ starting # 0 /\ starting' = 0
        /\ UNCHANGED <<setup, listed, current, dirty, manual, resumes, faults, manuals>>
        /\ runs' = [runs EXCEPT ![starting].kept = TRUE]
    BY DEF Cycle, Captures, Granted, Doc, Phases, ActivePhases, Records, counters
  <1>2. /\ DOMAIN runs = 1..Len(runs) /\ Len(runs) \in Nat /\ runs \in Seq(Runs)
        /\ starting \in DOMAIN runs /\ starting \in Nat
    BY <1>1, LenProperties DEF WorldTyped
  <1>3. /\ q.phase = (IF Cycle THEN "cycle_buffer" ELSE "running")
        /\ q.run = 0 /\ runs[starting].item = Item(q) /\ InProgress(q)
    BY <1>1 DEF OwnRun
  <1>4. /\ d \in Doc /\ d.phase = "running" /\ d.run = starting /\ d.items = q.items
        /\ d.next = q.next /\ d.done = q.done /\ d.skipped = q.skipped
        /\ d.retries = q.retries /\ d.restarts = q.restarts
    <2>1. "running" \in Phases /\ 0 \in 0..MaxAttempts
      BY QueueAssumption DEF Phases, ActivePhases
    <2> QED
      BY <1>1, <1>2, <2>1 DEF Doc
  <1> HIDE DEF d
  <1>5. /\ runs' \in Seq(Runs) /\ DOMAIN runs' = DOMAIN runs /\ Len(runs') = Len(runs)
        /\ \A r \in DOMAIN runs : /\ runs'[r].item = runs[r].item /\ runs'[r].end = runs[r].end
                                  /\ runs'[r].job = runs[r].job
                                  /\ r # starting => runs'[r] = runs[r]
    <2>1. runs[starting] \in Runs
      BY <1>2, ElementOfSeq
    <2>2. [runs[starting] EXCEPT !.kept = TRUE] \in Runs
      BY <2>1 DEF Runs
    <2>3. runs' = [runs EXCEPT ![starting] = [runs[starting] EXCEPT !.kept = TRUE]]
      BY <1>1
    <2>4. runs' \in Seq(Runs) /\ Len(runs') = Len(runs)
      BY <1>2, <2>2, <2>3, ExceptSeq
    <2> QED
      BY <1>1, <1>2, <2>1, <2>4, LenProperties DEF Runs
  <1>6. \A r \in DOMAIN runs : Proven(r)' = Proven(r) /\ Held(r)' = Held(r)
    BY <1>5 DEF Proven, Held
  <1>7. WorldTyped'
    BY <1>1, <1>2, <1>5 DEF WorldTyped
  <1>8. Cursor(queue)'
    BY <1>1, <1>3, <1>4, <1>5 DEF Cursor
  <1>9. PhaseFits(queue)' /\ OwnRun(queue)'
    BY <1>1, <1>2, <1>3, <1>4, <1>5 DEF PhaseFits, OwnRun
  <1>10. KeepsItsRun(queue)'
    BY <1>1, <1>2, <1>3, <1>4, <1>5, <1>6 DEF KeepsItsRun
  <1>11. Done(queue)'
    <2>1. SettledItems(queue)' = SettledItems(q)
      <3>1. \A k \in DOMAIN q.done : runs'[q.done[k]].item = runs[q.done[k]].item
        BY <1>5 DEF Done
      <3> QED
        BY <1>1, <1>4, <3>1 DEF SettledItems
    <2> QED
      BY <1>1, <1>4, <1>5, <1>6, <2>1 DEF Done
  <1>12. Accounted(queue)'
    <2>1. \A i : RunsOf(i)' = RunsOf(i)
      BY <1>5 DEF RunsOf
    <2>2. \A i \in Items : Spent(queue, i)' = Spent(q, i)
      BY <1>1, <1>4 DEF Spent
    <2>3. AtHand(q) = 1 /\ AtHand(queue)' = 1 /\ Item(queue)' = Item(q)
      BY <1>1, <1>4 DEF AtHand
    <2>4. Item(q) \in Items
      <3>1. q.next \in Nat /\ q.items \in Nat /\ listed \in Nat
        BY <1>1, ListIsBounded, DocFields
      <3> QED
        BY <1>3, <3>1, ListIsBounded DEF Cursor
    <2> QED
      BY <1>1, <1>3, <2>1, <2>2, <2>3, <2>4 DEF Accounted
  <1> QED
    BY <1>1, <1>4, <1>7, <1>8, <1>9, <1>10, <1>11, <1>12

\* A new queue forgets the runs of the one before.
LEMMA StartKeeps ==
    ASSUME QueueInv, Start
    PROVE  WorldTyped' /\ DocInv(queue)'
  <1> USE DEF DocInv, InProgress, Item, QueueInv
  <1>1. /\ Cycle' = Cycle /\ Captures' = Captures /\ Granted' = Granted
        /\ UNCHANGED <<setup, listed, starting, dirty, manual, resumes, faults, manuals>>
        /\ runs' = <<>> /\ current' = 0
        /\ Doc' = Doc
    BY DEF Cycle, Captures, Granted, Doc, Phases, ActivePhases, Start, counters
  <1>2. starting = 0
    BY DEF OwnRun, Start
  <1>3. PICK n \in 1..listed :
          queue' = [NoQueue EXCEPT !.phase = IF Cycle THEN "cycle_reset" ELSE "running", !.items = n]
    <2>1. PICK n \in (IF Cycle THEN 1..listed ELSE {listed}) :
            queue' = [NoQueue EXCEPT !.phase = IF Cycle THEN "cycle_reset" ELSE "running", !.items = n]
      BY DEF Start
    <2>2. listed \in 1..listed
      BY ListIsBounded DEF WorldTyped
    <2> QED
      BY <2>1, <2>2
  <1>4. listed \in Nat /\ n \in Nat /\ 0 < n /\ n <= listed
    BY <1>3, ListIsBounded
  <1>5. /\ queue' \in Doc /\ queue'.phase = (IF Cycle THEN "cycle_reset" ELSE "running")
        /\ queue'.items = n /\ queue'.next = 0 /\ queue'.run = 0 /\ queue'.done = <<>>
        /\ queue'.skipped = {} /\ \A i \in Items : queue'.retries[i] = 0 /\ queue'.restarts[i] = 0
    <2>1. /\ (IF Cycle THEN "cycle_reset" ELSE "running") \in Phases
          /\ 0 \in 0..MaxAttempts /\ 0 \in 0..MaxRetries /\ 0 \in 0..MaxRestarts
      BY QueueAssumption DEF Phases, ActivePhases
    <2>2. <<>> \in Seq(Nat)
      OBVIOUS
    <2>3. [i \in Items |-> 0] \in [Items -> 0..MaxRetries] /\ [i \in Items |-> 0] \in [Items -> 0..MaxRestarts]
      BY <2>1
    <2> QED
      BY <1>3, <1>4, <2>1, <2>2, <2>3 DEF Doc, NoQueue
  <1>6. WorldTyped'
    <2>1. <<>> \in Seq(Runs) /\ Len(<<>>) = 0
      OBVIOUS
    <2> QED
      BY <1>1, <1>2, <2>1 DEF WorldTyped
  <1>7. Cursor(queue)' /\ KeepsItsRun(queue)' /\ OwnRun(queue)' /\ PhaseFits(queue)'
    <2>1. Len(runs') = 0 /\ DOMAIN runs' = {}
      BY <1>1
    <2> QED
      BY <1>1, <1>2, <1>4, <1>5, <2>1 DEF Cursor, KeepsItsRun, OwnRun, PhaseFits
  <1>8. Done(queue)'
    <2>1. DOMAIN queue'.done = {} /\ Len(queue'.done) = 0
      BY <1>5
    <2>2. SettledItems(queue)' = {}
      BY <2>1 DEF SettledItems
    <2>3. 1..0 = {}
      OBVIOUS
    <2> QED
      BY <1>5, <2>1, <2>2, <2>3, FS_EmptySet DEF Done
  <1>9. Accounted(queue)'
    <2>1. \A i : RunsOf(i)' = {}
      BY <1>1 DEF RunsOf
    <2>2. \A i \in Items : Spent(queue, i)' \in Nat
      <3>1. faults \in Nat /\ resumes * Granted \in Nat
        BY Constants DEF WorldTyped
      <3> QED
        BY <1>1, <1>5, <3>1 DEF Spent
    <2>3. Item(queue)' \in Items /\ AtHand(queue)' = 0
      BY <1>1, <1>2, <1>4, <1>5, ListIsBounded DEF AtHand
    <2> QED
      BY <2>1, <2>2, <2>3, FS_EmptySet DEF Accounted
  <1> QED
    BY <1>1, <1>5, <1>6, <1>7, <1>8, <1>9

-----------------------------------------------------------------------------
(* Ticks. *)

\* Nothing that is counted, and no run, changes in the step.
Steady == UNCHANGED <<setup, listed, starting, runs, current, dirty, manual, resumes, faults, manuals>>

LEMMA SteadyWorld ==
    ASSUME Steady, WorldTyped
    PROVE  /\ WorldTyped' /\ RunsGoOn /\ Cycle' = Cycle /\ Captures' = Captures
           /\ Granted' = Granted /\ Doc' = Doc /\ Phases' = Phases
           /\ \A r : Proven(r)' = Proven(r)
  <1>1. Cycle' = Cycle /\ Captures' = Captures /\ \A r : Proven(r)' = Proven(r)
    BY DEF Steady, Cycle, Captures, Proven
  <1>2. Granted' = Granted /\ Phases' = Phases /\ Doc' = Doc
    BY <1>1 DEF Granted, Phases, ActivePhases, Doc
  <1>3. \A r : Held(r)' = Held(r)
    BY <1>1 DEF Held, Steady
  <1> QED
    BY <1>1, <1>2, <1>3 DEF Steady, WorldTyped, RunsGoOn

\* The queue only goes to another phase.
LEMMA PhaseStep ==
    ASSUME NEW q, DocInv(q), WorldTyped, InProgress(q), starting = 0, Steady,
           queue' \in Doc, queue'.items = q.items, queue'.next = q.next,
           queue'.run = q.run, queue'.done = q.done, queue'.skipped = q.skipped,
           queue'.retries = q.retries, queue'.restarts = q.restarts,
           PhaseFits(queue')
    PROVE  WorldTyped' /\ DocInv(queue)'
  <1>1. PhaseFits(queue)'
    BY SteadyWorld DEF PhaseFits, InProgress
  <1>2. \A i \in Items : Spent(queue, i)' = Spent(q, i) /\ Spent(q, i) \in Nat
    BY SteadyWorld, SpentIsNat DEF Spent, Steady, DocInv
  <1>3. AtHand(queue)' = AtHand(q) /\ AtHand(q) \in Nat
    BY DEF AtHand, Steady
  <1>4. /\ listed' \in Nat /\ listed' = listed /\ resumes' \in Nat /\ resumes' = resumes
        /\ q.items \in Nat /\ q.items <= listed
    BY ListIsBounded, DocFields DEF Steady, WorldTyped, DocInv, Cursor
  <1>5. \A i \in Items : queue'.retries[i] + queue'.restarts[i] > 0
                           => q.retries[i] + q.restarts[i] > 0 \/ (InProgress(q) /\ i = Item(q))
    OBVIOUS
  <1>6. WorldTyped' /\ RunsGoOn /\ setup' = setup /\ starting' = 0
    BY SteadyWorld DEF Steady
  <1>7. DocInv(queue)'
    BY <1>1, <1>2, <1>3, <1>4, <1>5, <1>6, Keeps
  <1> QED
    BY <1>6, <1>7

\* The present scenario is begun again, and the count says so.
LEMMA CountedStep ==
    ASSUME NEW q, DocInv(q), WorldTyped, InProgress(q), starting = 0, Steady,
           queue' \in Doc, queue'.items = q.items, queue'.next = q.next,
           queue'.run = 0, queue'.done = q.done, queue'.skipped = q.skipped,
           \/ /\ queue'.restarts = q.restarts
              /\ queue'.retries = [q.retries EXCEPT ![Item(q)] = @ + 1]
           \/ /\ queue'.retries = q.retries
              /\ queue'.restarts = [q.restarts EXCEPT ![Item(q)] = @ + 1],
           q.run # 0 => ~Held(q.run),
           PhaseFits(queue')
    PROVE  WorldTyped' /\ DocInv(queue)'
  <1>1. PhaseFits(queue)'
    BY SteadyWorld DEF PhaseFits, InProgress
  <1>2. /\ listed' \in Nat /\ listed' = listed /\ resumes' \in Nat /\ resumes' = resumes
        /\ q.items \in Nat /\ q.items <= listed
    BY ListIsBounded, DocFields DEF Steady, WorldTyped, DocInv, Cursor
  <1>3. /\ q \in Doc /\ q.next \in Nat
        /\ q.retries \in [Items -> 0..MaxRetries] /\ q.restarts \in [Items -> 0..MaxRestarts]
    BY DEF DocInv, Doc
  <1>4. Item(q) \in Items
    BY <1>2, <1>3, ListIsBounded DEF DocInv, Cursor, Item
  <1>5. \A i \in Items : /\ q.retries[i] \in Nat /\ q.restarts[i] \in Nat
                         /\ i # Item(q) => /\ queue'.retries[i] = q.retries[i]
                                           /\ queue'.restarts[i] = q.restarts[i]
    BY <1>3, DocFields
  <1>6. queue'.retries[Item(q)] + queue'.restarts[Item(q)]
          = q.retries[Item(q)] + q.restarts[Item(q)] + 1
    BY <1>3, <1>4, <1>5
  <1>7. /\ faults \in Nat /\ resumes * Granted \in Nat
        /\ \A i : Spent(queue, i)' = queue'.retries[i] + queue'.restarts[i] + faults + resumes * Granted
    BY SteadyWorld, Constants DEF Spent, Steady, WorldTyped
  <1>8. \A i \in Items : Spent(q, i) <= Spent(queue, i)'
    BY <1>4, <1>5, <1>6, <1>7, SpentIsNat DEF Spent
  <1>9. Spent(q, Item(q)) + 1 <= Spent(queue, Item(q))'
    BY <1>4, <1>5, <1>6, <1>7 DEF Spent
  <1>10. \A i \in Items : queue'.retries[i] + queue'.restarts[i] > 0
                           => q.retries[i] + q.restarts[i] > 0 \/ (InProgress(q) /\ i = Item(q))
    BY <1>5
  <1>11. WorldTyped' /\ RunsGoOn /\ setup' = setup /\ starting' = 0
    BY SteadyWorld DEF Steady
  <1>12. DocInv(queue)'
    BY <1>1, <1>2, <1>8, <1>9, <1>10, <1>11, Keeps
  <1> QED
    BY <1>11, <1>12

\* What a tick may rely on.
Ticking(q) ==
    /\ DocInv(q) /\ WorldTyped /\ starting = 0
    /\ UNCHANGED <<setup, listed, counters>>

LEMMA StaysSteady ==
    ASSUME Stays, UNCHANGED <<setup, listed, counters>>
    PROVE  Steady
  BY DEF Stays, world, counters, Steady

\* A run that is no longer going has come to something.
LEMMA RunIsOver ==
    ASSUME NEW q, DocInv(q), WorldTyped, q.run # 0, ~StillGoing(q)
    PROVE  q.run \in DOMAIN runs /\ runs[q.run].end \notin {"going", "orphan"}
  <1>1. q.run \in DOMAIN runs
    <2>1. DOMAIN runs = 1..Len(runs) /\ Len(runs) \in Nat
      BY LenProperties DEF WorldTyped
    <2> QED
      BY <2>1 DEF DocInv, OwnRun
  <1> QED
    BY <1>1 DEF WorldTyped, StillGoing, Reported, Leased, Live

LEMMA PausesKeeps ==
    ASSUME NEW q, Ticking(q), InProgress(q), Pauses(q)
    PROVE  WorldTyped' /\ DocInv(queue)'
  <1>1. /\ queue' \in Doc /\ queue'.phase = "paused" /\ queue'.items = q.items
        /\ queue'.next = q.next /\ queue'.run = q.run /\ queue'.done = q.done
        /\ queue'.skipped = q.skipped /\ queue'.retries = q.retries
        /\ queue'.restarts = q.restarts
    BY DEF Ticking, DocInv, Pauses, Doc, Phases
  <1>2. PhaseFits(queue') /\ Steady
    BY <1>1, StaysSteady DEF PhaseFits, InProgress, Pauses, Ticking
  <1> QED
    BY <1>1, <1>2, PhaseStep DEF Ticking

LEMMA WaitsKeeps ==
    ASSUME NEW q, Ticking(q), InProgress(q), Waits(q)
    PROVE  WorldTyped' /\ DocInv(queue)'
  <1>1. queue' = q /\ Steady
    BY StaysSteady DEF Waits, Ticking
  <1> QED
    BY <1>1, PhaseStep DEF Ticking, DocInv

\* The list goes on or is at its end.
LEMMA SettledKeeps ==
    ASSUME NEW q, NEW d \in Doc, Ticking(q), InProgress(q), Settled(q, d),
           d.items = q.items, d.next = q.next + 1, d.run = 0,
           d.retries = q.retries, d.restarts = q.restarts,
           PhaseFits(d),
           \/ /\ q.run # 0 /\ Proven(q.run) /\ (Captures => runs[q.run].job = "completed")
              /\ d.done = Append(q.done, q.run) /\ d.skipped = q.skipped
           \/ /\ d.skipped = q.skipped \cup {Item(q)} /\ d.done = q.done
    PROVE  WorldTyped' /\ DocInv(queue)'
  <1>1. Steady
    BY StaysSteady DEF Settled, Completes, Ticking
  <1>2. /\ queue' \in Doc /\ queue'.items = d.items /\ queue'.next = d.next /\ queue'.run = 0
        /\ queue'.done = d.done /\ queue'.skipped = d.skipped
        /\ queue'.retries = d.retries /\ queue'.restarts = d.restarts
        /\ queue'.phase = d.phase \/ queue'.phase = "completed"
        /\ q.next + 1 < q.items \/ queue'.phase = "completed"
    <2>1. CASE q.next + 1 >= q.items
      BY ZenonT(40), <2>1 DEF Settled, Completes, Doc, Phases
    <2>2. CASE ~(q.next + 1 >= q.items)
      <3>1. q.next + 1 < q.items
        BY <2>2, DocFields DEF Ticking, DocInv
      <3> QED
        BY <2>2, <3>1 DEF Settled
    <2> QED
      BY <2>1, <2>2
  <1>3. PhaseFits(queue)'
    BY <1>1, <1>2, SteadyWorld DEF PhaseFits, Ticking, InProgress
  <1>4. WorldTyped'
    BY <1>1, SteadyWorld DEF Ticking
  <1>5. UNCHANGED <<setup, listed, runs, starting, resumes, faults>>
    BY <1>1 DEF Steady
  <1>6. q.next + 1 < q.items \/ ~InProgress(queue')
    BY <1>2 DEF InProgress
  <1>7. \/ /\ q.run # 0 /\ Proven(q.run) /\ (Captures => runs[q.run].job = "completed")
           /\ queue'.done = Append(q.done, q.run) /\ queue'.skipped = q.skipped
        \/ /\ queue'.skipped = q.skipped \cup {Item(q)} /\ queue'.done = q.done
    BY <1>2
  <1>8. queue' \in Doc /\ queue'.items = q.items /\ queue'.next = q.next + 1 /\ queue'.run = 0
        /\ queue'.retries = q.retries /\ queue'.restarts = q.restarts
    BY <1>2
  <1>9. DocInv(queue)'
    BY <1>3, <1>4, <1>5, <1>6, <1>7, <1>8, Settles DEF Ticking
  <1> QED
    BY <1>4, <1>9

\* The v2 queue.
LEMMA TickStartsKeeps ==
    ASSUME NEW q, Ticking(q), ~Cycle, TickStarts(q)
    PROVE  WorldTyped' /\ DocInv(queue)'
  <1>1. /\ InProgress(q) /\ q.next < q.items /\ q.run = 0 /\ q \in Doc
        /\ q.next \in Nat /\ q.items \in Nat
    BY DocFields DEF TickStarts, InProgress, Ticking, DocInv, Cursor
  <1>2. CASE Waits(q)
    BY <1>1, <1>2, WaitsKeeps
  <1>3. CASE Pauses(q)
    BY <1>1, <1>3, PausesKeeps
  <1>4. CASE Starts(q)
    <2>1. q.phase = "running"
      BY DEF TickStarts
    <2> QED
      BY <1>1, <1>4, <2>1, RunStarts DEF Ticking, counters
  <1>5. CASE Recheck(q) /\ ~LastAttempt(q)
    <2>1. q.attempts + 1 \in 0..MaxAttempts
      BY <1>1, <1>5, DocFields, QueueAssumption DEF LastAttempt
    <2>2. /\ queue' \in Doc /\ queue'.phase = q.phase /\ queue'.items = q.items
          /\ queue'.next = q.next /\ queue'.run = q.run /\ queue'.done = q.done
          /\ queue'.skipped = q.skipped /\ queue'.retries = q.retries
          /\ queue'.restarts = q.restarts
      BY <1>1, <1>5, <2>1 DEF Recheck, Doc
    <2>3. PhaseFits(queue') /\ Steady
      BY <1>5, <2>2, StaysSteady DEF PhaseFits, InProgress, Recheck, Ticking, DocInv
    <2> QED
      BY <1>1, <2>2, <2>3, PhaseStep DEF Ticking
  <1>6. CASE Settled(q, Skipped(q))
    <2> DEFINE d == Skipped(q)
    <2>1. /\ d \in Doc /\ d.phase = "running" /\ d.items = q.items /\ d.next = q.next + 1
          /\ d.run = 0 /\ d.done = q.done /\ d.skipped = q.skipped \cup {Item(q)}
          /\ d.retries = q.retries /\ d.restarts = q.restarts
      <3>1. q.phase = "running"
        BY DEF TickStarts
      <3>2. Item(q) \in Nat /\ q.next + 1 \in Nat /\ 0 \in 0..MaxAttempts
        BY <1>1, QueueAssumption DEF Item
      <3> QED
        BY <1>1, <3>1, <3>2 DEF Skipped, Doc
    <2>2. PhaseFits(d)
      BY <2>1 DEF PhaseFits
    <2> HIDE DEF d
    <2>3. Settled(q, d)
      BY <1>6 DEF d
    <2> QED
      BY <1>1, <2>1, <2>2, <2>3, SettledKeeps
  <1>7. ~(q.next >= q.items)
    BY <1>1
  <1> QED
    BY <1>2, <1>3, <1>4, <1>5, <1>6, <1>7 DEF TickStarts, GateIsDirty, GateRaises, GateIsClean

LEMMA TickFollowsKeeps ==
    ASSUME NEW q, Ticking(q), ~Cycle, TickFollows(q)
    PROVE  WorldTyped' /\ DocInv(queue)'
  <1>1. InProgress(q) /\ q.run # 0 /\ q \in Doc
    BY DEF TickFollows, InProgress, Ticking, DocInv
  <1>2. CASE Waits(q)
    BY <1>1, <1>2, WaitsKeeps
  <1>3. CASE Pauses(q)
    BY <1>1, <1>3, PausesKeeps
  <1>4. CASE runs[q.run].end = "transient" /\ RetriesLeft(q) /\ Retried(q) /\ Stays
    <2>1. /\ q.next \in Nat /\ q.next < q.items /\ q.items \in Nat /\ q.items <= listed
          /\ listed \in Nat
      BY <1>1, DocFields, ListIsBounded DEF Ticking, DocInv, Cursor
    <2>2. Item(q) \in Items
      BY <2>1, ListIsBounded DEF Ticking, Item
    <2>3. [q.retries EXCEPT ![Item(q)] = @ + 1] \in [Items -> 0..MaxRetries]
      <3>1. q.retries \in [Items -> 0..MaxRetries] /\ q.retries[Item(q)] < MaxRetries
        BY <1>1, <1>4 DEF Doc, RetriesLeft
      <3>2. q.retries[Item(q)] + 1 \in 0..MaxRetries
        BY <2>2, <3>1, QueueAssumption
      <3> QED
        BY <3>1, <3>2
    <2>4. PICK early \in BOOLEAN :
            queue' = [q EXCEPT !.phase = "waiting_clean_window", !.run = 0,
                               !.retries[Item(q)] = @ + 1, !.waiting = early]
      BY <1>4 DEF Retried
    <2>5. /\ queue'.retries = [q.retries EXCEPT ![Item(q)] = @ + 1]
          /\ queue'.phase = "waiting_clean_window" /\ queue'.items = q.items
          /\ queue'.next = q.next /\ queue'.run = 0 /\ queue'.done = q.done
          /\ queue'.skipped = q.skipped /\ queue'.restarts = q.restarts
      BY <1>1, <2>4 DEF Doc
    <2>6. queue' \in Doc
      <3>1. "waiting_clean_window" \in Phases /\ 0 \in Nat
        BY DEF Phases, ActivePhases
      <3>2. queue' = [q EXCEPT !.phase = "waiting_clean_window", !.run = 0,
                               !.retries = [q.retries EXCEPT ![Item(q)] = @ + 1], !.waiting = early]
        BY <1>1, <2>4 DEF Doc
      <3> HIDE DEF Item
      <3> QED
        BY <1>1, <2>3, <2>4, <3>1, <3>2 DEF Doc
    <2>7. PhaseFits(queue') /\ Steady
      BY <1>4, <2>5, StaysSteady DEF PhaseFits, Ticking
    <2>8. ~Held(q.run)
      BY <1>4 DEF Held, Proven
    <2> QED
      BY <1>1, <2>5, <2>6, <2>7, <2>8, CountedStep DEF Ticking
  <1>5. CASE /\ Proven(q.run)
             /\ queue' = [q EXCEPT !.phase = "waiting_capture"] /\ Stays
    <2>1. /\ queue' \in Doc /\ queue'.phase = "waiting_capture" /\ queue'.items = q.items
          /\ queue'.next = q.next /\ queue'.run = q.run /\ queue'.done = q.done
          /\ queue'.skipped = q.skipped /\ queue'.retries = q.retries
          /\ queue'.restarts = q.restarts
      BY <1>1, <1>5 DEF Doc, Phases, ActivePhases
    <2>2. PhaseFits(queue') /\ Steady
      BY <1>1, <1>5, <2>1, StaysSteady DEF PhaseFits, InProgress, Ticking
    <2> QED
      BY <1>1, <2>1, <2>2, PhaseStep DEF Ticking
  <1> QED
    BY <1>2, <1>3, <1>4, <1>5 DEF TickFollows

LEMMA TickCaptureKeeps ==
    ASSUME NEW q, Ticking(q), ~Cycle, TickCapture(q)
    PROVE  WorldTyped' /\ DocInv(queue)'
  <1>1. InProgress(q) /\ q \in Doc /\ q.run # 0 /\ Proven(q.run) /\ q.run \in Nat
    BY DocFields DEF TickCapture, InProgress, Ticking, DocInv, PhaseFits
  <1>2. CASE Waits(q)
    BY <1>1, <1>2, WaitsKeeps
  <1>3. CASE Pauses(q)
    BY <1>1, <1>3, PausesKeeps
  <1>4. ASSUME Captured(q), NEW early \in BOOLEAN,
               Settled(q, [q EXCEPT !.phase = "waiting_clean_window", !.run = 0,
                                    !.next = @ + 1, !.done = Append(@, q.run),
                                    !.waiting = early])
        PROVE  WorldTyped' /\ DocInv(queue)'
    <2> DEFINE d == [q EXCEPT !.phase = "waiting_clean_window", !.run = 0, !.next = @ + 1,
                              !.done = Append(@, q.run), !.waiting = early]
    <2>1. /\ d \in Doc /\ d.phase = "waiting_clean_window" /\ d.items = q.items
          /\ d.next = q.next + 1 /\ d.run = 0 /\ d.done = Append(q.done, q.run)
          /\ d.skipped = q.skipped /\ d.retries = q.retries /\ d.restarts = q.restarts
      <3>1. Append(q.done, q.run) \in Seq(Nat)
        BY <1>1, DocFields, AppendProperties
      <3>2. q.next + 1 \in Nat
        BY <1>1, DocFields
      <3>3. "waiting_clean_window" \in Phases
        BY DEF Phases, ActivePhases
      <3> QED
        BY <1>1, <3>1, <3>2, <3>3 DEF Doc
    <2>2. PhaseFits(d)
      BY <2>1 DEF PhaseFits
    <2> HIDE DEF d
    <2>3. Settled(q, d)
      BY <1>4 DEF d
    <2> QED
      BY <1>1, <1>4, <2>1, <2>2, <2>3, SettledKeeps DEF Captured
  <1> QED
    BY <1>2, <1>3, <1>4 DEF TickCapture

LEMMA TickCleanWindowKeeps ==
    ASSUME NEW q, Ticking(q), ~Cycle, TickCleanWindow(q)
    PROVE  WorldTyped' /\ DocInv(queue)'
  <1>1. InProgress(q) /\ q \in Doc
    BY DEF TickCleanWindow, InProgress, Ticking, DocInv
  <1>2. CASE Waits(q)
    BY <1>1, <1>2, WaitsKeeps
  <1>3. CASE Pauses(q)
    BY <1>1, <1>3, PausesKeeps
  <1>4. CASE queue' = [q EXCEPT !.phase = "running"] /\ Stays
    <2>1. /\ queue' \in Doc /\ queue'.phase = "running" /\ queue'.items = q.items
          /\ queue'.next = q.next /\ queue'.run = q.run /\ queue'.done = q.done
          /\ queue'.skipped = q.skipped /\ queue'.retries = q.retries
          /\ queue'.restarts = q.restarts
      BY <1>1, <1>4 DEF Doc, Phases, ActivePhases
    <2>2. PhaseFits(queue') /\ Steady
      BY <1>1, <1>4, <2>1, StaysSteady DEF PhaseFits, InProgress, Ticking, DocInv
    <2> QED
      BY <1>1, <2>1, <2>2, PhaseStep DEF Ticking
  <1> QED
    BY <1>2, <1>3, <1>4 DEF TickCleanWindow

\* The cycle queue.
LEMMA RestartsKeeps ==
    ASSUME NEW q, Ticking(q), InProgress(q), Cycle, Restarts(q), q.run # 0 => ~Held(q.run)
    PROVE  WorldTyped' /\ DocInv(queue)'
  <1>1. q \in Doc
    BY DEF Ticking, DocInv
  <1>2. CASE Pauses(q)
    BY <1>2, PausesKeeps
  <1>3. CASE /\ ~(q.restarts[Item(q)] >= MaxRestarts)
             /\ queue' = [Rewound(q) EXCEPT !.restarts[Item(q)] = @ + 1] /\ Stays
    <2>1. /\ q.next \in Nat /\ q.next < q.items /\ q.items \in Nat /\ q.items <= listed
          /\ listed \in Nat
      BY <1>1, DocFields, ListIsBounded DEF Ticking, DocInv, Cursor
    <2>2. Item(q) \in Items
      BY <2>1, ListIsBounded DEF Ticking, Item
    <2>3. [q.restarts EXCEPT ![Item(q)] = @ + 1] \in [Items -> 0..MaxRestarts]
      <3>1. q.restarts \in [Items -> 0..MaxRestarts]
        BY <1>1 DEF Doc
      <3>2. q.restarts[Item(q)] + 1 \in 0..MaxRestarts
        BY <1>3, <2>2, <3>1, QueueAssumption
      <3> QED
        BY <3>1, <3>2
    <2>4. queue' = [q EXCEPT !.phase = "cycle_reset", !.run = 0, !.waiting = FALSE,
                             !.restarts = [q.restarts EXCEPT ![Item(q)] = @ + 1]]
      BY <1>1, <1>3 DEF Doc, Rewound
    <2>5. /\ queue'.restarts = [q.restarts EXCEPT ![Item(q)] = @ + 1]
          /\ queue'.phase = "cycle_reset" /\ queue'.items = q.items
          /\ queue'.next = q.next /\ queue'.run = 0 /\ queue'.done = q.done
          /\ queue'.skipped = q.skipped /\ queue'.retries = q.retries
      BY <1>1, <2>4 DEF Doc
    <2>6. queue' \in Doc
      <3>1. "cycle_reset" \in Phases /\ 0 \in Nat
        BY DEF Phases, ActivePhases
      <3> HIDE DEF Item
      <3> QED
        BY <1>1, <2>3, <2>4, <3>1 DEF Doc
    <2>7. PhaseFits(queue') /\ Steady
      BY <1>3, <2>5, StaysSteady DEF PhaseFits, Ticking
    <2> QED
      BY <1>1, <2>5, <2>6, <2>7, CountedStep DEF Ticking
  <1> QED
    BY <1>2, <1>3 DEF Restarts

\* A tick that only moves a cycle on.
LEMMA CycleMoves ==
    ASSUME NEW q, Ticking(q), InProgress(q), Cycle, Stays, NEW p \in Phases, NEW n, NEW w \in BOOLEAN,
           n = 0 \/ n = q.attempts,
           queue' = [q EXCEPT !.phase = p, !.attempts = n, !.waiting = w],
           p \in {"cycle_cooldown", "waiting_capture"} => q.run # 0 /\ Proven(q.run),
           p \in {"cycle_normal", "cycle_buffer"} => q.run = 0,
           p \in {"cycle_cooldown", "waiting_capture", "cycle_normal", "cycle_buffer"}
    PROVE  WorldTyped' /\ DocInv(queue)'
  <1>1. q \in Doc
    BY DEF Ticking, DocInv
  <1>2. /\ queue' \in Doc /\ queue'.phase = p /\ queue'.items = q.items
        /\ queue'.next = q.next /\ queue'.run = q.run /\ queue'.done = q.done
        /\ queue'.skipped = q.skipped /\ queue'.retries = q.retries
        /\ queue'.restarts = q.restarts
    <2>1. n \in 0..MaxAttempts
      BY <1>1, DocFields, QueueAssumption
    <2> QED
      BY <1>1, <2>1 DEF Doc
  <1>3. PhaseFits(queue') /\ Steady
    BY <1>2, StaysSteady DEF PhaseFits, InProgress, Ticking
  <1> QED
    BY <1>2, <1>3, PhaseStep DEF Ticking

LEMMA TickBeforeRunKeeps ==
    ASSUME NEW q, Ticking(q), Cycle, TickReset(q) \/ TickNormal(q) \/ TickBuffer(q)
    PROVE  WorldTyped' /\ DocInv(queue)'
  <1>1. InProgress(q) /\ q \in Doc /\ q.run = 0
    BY DEF TickReset, TickNormal, TickBuffer, InProgress, Ticking, DocInv, PhaseFits
  <1>2. CASE Waits(q)
    BY <1>1, <1>2, WaitsKeeps
  <1>3. CASE Pauses(q)
    BY <1>1, <1>3, PausesKeeps
  <1>4. CASE Restarts(q)
    BY <1>1, <1>4, RestartsKeeps
  <1>5. CASE TickBuffer(q) /\ Starts(q)
    BY <1>1, <1>5, RunStarts DEF Ticking, counters, TickBuffer
  <1>6. CASE queue' = [q EXCEPT !.phase = "cycle_normal", !.run = 0, !.waiting = TRUE] /\ Stays
    <2>1. queue' = [q EXCEPT !.phase = "cycle_normal", !.attempts = q.attempts, !.waiting = TRUE]
      BY <1>1, <1>6 DEF Doc
    <2>2. "cycle_normal" \in Phases
      BY DEF Phases, ActivePhases
    <2> QED
      BY <1>1, <1>6, <2>1, <2>2, CycleMoves
  <1>7. CASE queue' = [q EXCEPT !.phase = "cycle_buffer", !.attempts = 0, !.waiting = TRUE] /\ Stays
    <2>1. "cycle_buffer" \in Phases
      BY DEF Phases, ActivePhases
    <2> QED
      BY <1>1, <1>7, <2>1, CycleMoves
  <1>8. ~(q.next >= q.items)
    BY <1>1, DocFields DEF Ticking, DocInv, Cursor
  <1> QED
    BY <1>2, <1>3, <1>4, <1>5, <1>6, <1>7, <1>8 DEF TickReset, TickNormal, TickBuffer

LEMMA TickAfterRunKeeps ==
    ASSUME NEW q, Ticking(q), Cycle, TickCycleRunning(q) \/ TickCooldown(q)
    PROVE  WorldTyped' /\ DocInv(queue)'
  <1>1. InProgress(q) /\ q \in Doc /\ q.run # 0
    BY DEF TickCycleRunning, TickCooldown, InProgress, Ticking, DocInv, PhaseFits
  <1>2. CASE Waits(q)
    BY <1>1, <1>2, WaitsKeeps
  <1>3. CASE Pauses(q)
    BY <1>1, <1>3, PausesKeeps
  <1>4. CASE ~StillGoing(q) /\ (ReportedBad(q) \/ ~Proven(q.run)) /\ Restarts(q)
    <2>1. ~Held(q.run)
      BY <1>1, <1>4, RunIsOver DEF Ticking, ReportedBad, Held, Proven
    <2> QED
      BY <1>1, <1>4, <2>1, RestartsKeeps
  <1>5. ASSUME Proven(q.run), NEW early \in BOOLEAN, Stays,
               queue' = [q EXCEPT !.phase = "cycle_cooldown", !.waiting = early]
        PROVE  WorldTyped' /\ DocInv(queue)'
    <2>1. queue' = [q EXCEPT !.phase = "cycle_cooldown", !.attempts = q.attempts, !.waiting = early]
      BY <1>1, <1>5 DEF Doc
    <2>2. "cycle_cooldown" \in Phases
      BY DEF Phases, ActivePhases
    <2> QED
      BY <1>1, <1>5, <2>1, <2>2, CycleMoves
  <1>6. CASE TickCooldown(q) /\ queue' = [q EXCEPT !.phase = "waiting_capture"] /\ Stays
    <2>1. PICK w \in BOOLEAN :
            queue' = [q EXCEPT !.phase = "waiting_capture", !.attempts = q.attempts, !.waiting = w]
      <3>1. /\ q.waiting \in BOOLEAN
            /\ queue' = [q EXCEPT !.phase = "waiting_capture", !.attempts = q.attempts,
                                  !.waiting = q.waiting]
        BY <1>1, <1>6, DocFields DEF Doc
      <3> QED
        BY <3>1
    <2>2. "waiting_capture" \in Phases
      BY DEF Phases, ActivePhases
    <2>3. Proven(q.run)
      BY <1>6 DEF TickCooldown, Ticking, DocInv, PhaseFits
    <2> QED
      BY <1>1, <1>6, <2>1, <2>2, <2>3, CycleMoves
  <1> QED
    BY <1>2, <1>3, <1>4, <1>5, <1>6 DEF TickCycleRunning, TickCooldown

LEMMA TickCycleCaptureKeeps ==
    ASSUME NEW q, Ticking(q), Cycle, TickCycleCapture(q)
    PROVE  WorldTyped' /\ DocInv(queue)'
  <1>1. InProgress(q) /\ q \in Doc /\ q.run # 0 /\ Proven(q.run) /\ q.run \in Nat
    BY DocFields DEF TickCycleCapture, InProgress, Ticking, DocInv, PhaseFits
  <1>2. CASE Waits(q)
    BY <1>1, <1>2, WaitsKeeps
  <1>3. CASE Pauses(q)
    BY <1>1, <1>3, PausesKeeps
  <1>4. CASE /\ Captured(q)
             /\ Settled(q, [Rewound(q) EXCEPT !.next = @ + 1, !.done = Append(@, q.run)])
    <2> DEFINE d == [Rewound(q) EXCEPT !.next = @ + 1, !.done = Append(@, q.run)]
    <2>1. /\ d \in Doc /\ d.phase = "cycle_reset" /\ d.items = q.items
          /\ d.next = q.next + 1 /\ d.run = 0 /\ d.done = Append(q.done, q.run)
          /\ d.skipped = q.skipped /\ d.retries = q.retries /\ d.restarts = q.restarts
      <3>1. Append(q.done, q.run) \in Seq(Nat)
        BY <1>1, DocFields, AppendProperties
      <3>2. q.next + 1 \in Nat
        BY <1>1, DocFields
      <3>3. "cycle_reset" \in Phases
        BY DEF Phases, ActivePhases
      <3> QED
        BY <1>1, <3>1, <3>2, <3>3 DEF Doc, Rewound
    <2>2. PhaseFits(d)
      BY <2>1 DEF PhaseFits
    <2> HIDE DEF d
    <2>3. Settled(q, d)
      BY <1>4 DEF d
    <2> QED
      BY <1>1, <1>4, <2>1, <2>2, <2>3, SettledKeeps DEF Captured
  <1> QED
    BY <1>2, <1>3, <1>4 DEF TickCycleCapture

\* The list is taken over from the registry.
LEMMA RefreshedKeeps ==
    ASSUME QueueInv, InProgress(queue), NEW q \in Refreshed
    PROVE  /\ DocInv(q) /\ InProgress(q)
           /\ q.phase = queue.phase /\ q.next = queue.next /\ q.run = queue.run
           /\ q.done = queue.done /\ q.skipped = queue.skipped
           /\ queue.items <= q.items /\ q.items <= listed /\ (Cycle => q = queue)
  <1> USE DEF QueueInv, DocInv
  <1>1. queue \in Doc /\ listed \in Nat /\ queue.items \in Nat /\ queue.next \in Nat
    BY ListIsBounded, DocFields
  <1>2. CASE q = queue
    BY <1>1, <1>2 DEF Cursor
  <1>3. CASE ~Cycle /\ q = [queue EXCEPT !.items = listed]
    <2>1. /\ q \in Doc /\ q.items = listed
          /\ q.phase = queue.phase /\ q.next = queue.next /\ q.run = queue.run
          /\ q.done = queue.done /\ q.skipped = queue.skipped
          /\ q.retries = queue.retries /\ q.restarts = queue.restarts
      BY <1>1, <1>3 DEF Doc
    <2>2. \A i : Spent(q, i) = Spent(queue, i)
      BY <2>1 DEF Spent
    <2>3. AtHand(q) = AtHand(queue) /\ SettledItems(q) = SettledItems(queue)
      BY <2>1 DEF AtHand, SettledItems
    <2>4. Cursor(q)
      BY <1>1, <2>1 DEF Cursor, InProgress, Item, Items
    <2>5. PhaseFits(q) /\ OwnRun(q) /\ KeepsItsRun(q)
      BY <2>1 DEF PhaseFits, OwnRun, KeepsItsRun, InProgress, Item
    <2>6. Done(q) /\ Accounted(q)
      BY <2>1, <2>2, <2>3 DEF Done, Accounted, InProgress, Item
    <2> QED
      BY <1>1, <1>3, <2>1, <2>4, <2>5, <2>6 DEF Cursor, InProgress
  <1> QED
    BY <1>2, <1>3 DEF Refreshed

\* Active phases are phases of a queue in progress.
LEMMA ActiveIsInProgress ==
    ASSUME Active PROVE InProgress(queue)
  BY DEF Active, ActivePhases, InProgress

LEMMA TickKeeps ==
    ASSUME QueueInv, Tick
    PROVE  WorldTyped' /\ DocInv(queue)'
  <1>1. InProgress(queue) /\ UNCHANGED <<setup, listed, counters>> /\ starting = 0
    BY ActiveIsInProgress DEF Tick
  <1>2. CASE Pauses(queue)
    BY <1>1, <1>2, PausesKeeps DEF Ticking, QueueInv
  <1>3. ASSUME NEW q \in Refreshed, IF Cycle THEN TickCycle(q) ELSE TickV2(q)
        PROVE  WorldTyped' /\ DocInv(queue)'
    <2>1. Ticking(q)
      BY <1>1, RefreshedKeeps DEF Ticking, QueueInv
    <2>2. CASE Cycle
      BY <1>3, <2>1, <2>2, TickBeforeRunKeeps, TickAfterRunKeeps, TickCycleCaptureKeeps
      DEF TickCycle
    <2>3. CASE ~Cycle
      BY <1>3, <2>1, <2>3, TickStartsKeeps, TickFollowsKeeps, TickCaptureKeeps, TickCleanWindowKeeps
      DEF TickV2
    <2> QED
      BY <2>2, <2>3
  <1> QED
    BY <1>2, <1>3 DEF Tick

-----------------------------------------------------------------------------
(* The other steps. *)

\* What the runner or a capture does to one run.
LEMMA RunChanges ==
    ASSUME WorldTyped, NEW r \in DOMAIN runs, NEW new \in Runs,
           runs' = [runs EXCEPT ![r] = new],
           new.item = runs[r].item, new.kept = runs[r].kept, Held(r) \/ new.end = "failed",
           Proven(r) => new.end = "accepted" /\ runs[r].job # "completed"
    PROVE  RunsGoOn
  <1>1. /\ DOMAIN runs = 1..Len(runs) /\ Len(runs) \in Nat /\ runs \in Seq(Runs)
    BY LenProperties DEF WorldTyped
  <1>2. runs' \in Seq(Runs) /\ DOMAIN runs' = DOMAIN runs
    BY <1>1, ExceptSeq, LenProperties
  <1>3. /\ runs'[r] = new
        /\ \A s \in DOMAIN runs : s # r => runs'[s] = runs[s]
    BY <1>1
  <1>4. ASSUME NEW s \in DOMAIN runs
        PROVE  /\ runs'[s].item = runs[s].item /\ runs'[s].kept = runs[s].kept
               /\ Proven(s) => Proven(s)'
               /\ Proven(s) /\ runs[s].job = "completed" => runs'[s].job = "completed"
               /\ Held(s)' => Held(s)
    BY <1>3 DEF Proven, Held
  <1> QED
    BY <1>2, <1>4 DEF RunsGoOn

\* The file stays as it is.
LEMMA ElsewhereKeeps ==
    ASSUME QueueInv, WorldTyped', queue' = queue, UNCHANGED <<setup, resumes>>, RunsGoOn,
           listed' >= listed,
           \/ starting' = starting /\ faults' >= faults
           \/ starting' = 0 /\ faults' = faults + 1
    PROVE  DocInv(queue)'
  <1> USE DEF QueueInv, DocInv
  <1>1. /\ queue \in Doc /\ listed \in Nat /\ listed' \in Nat /\ resumes \in Nat /\ faults \in Nat
        /\ faults' \in Nat /\ queue.items \in Nat /\ queue.items <= listed
        /\ queue.next \in Nat
    BY ListIsBounded, DocFields DEF WorldTyped, Cursor
  <1>2. Cycle' = Cycle /\ Granted' = Granted /\ Doc' = Doc
    BY DEF Cycle, Granted, Doc, Phases, ActivePhases
  <1>3. PhaseFits(queue)'
    <2>1. queue.run \in 0..Len(runs) /\ DOMAIN runs = 1..Len(runs) /\ Len(runs) \in Nat
      BY LenProperties DEF OwnRun, WorldTyped
    <2> QED
      BY <1>2, <2>1 DEF PhaseFits, InProgress, RunsGoOn
  <1>4. \A i \in Items : /\ Spent(queue, i) \in Nat
                         /\ Spent(queue, i)' = Spent(queue, i) + (faults' - faults)
    <2>1. \A i \in Items : queue.retries[i] \in Nat /\ queue.restarts[i] \in Nat
      BY <1>1, DocFields
    <2>2. resumes * Granted \in Nat
      BY <1>1, Constants
    <2>3. \A i : Spent(queue, i)' = queue.retries[i] + queue.restarts[i] + faults' + resumes * Granted
      BY <1>2 DEF Spent
    <2> QED
      BY <1>1, <2>1, <2>2, <2>3, SpentIsNat DEF Spent
  <1>5. InProgress(queue) => Item(queue) \in Items
    BY <1>1, ListIsBounded DEF Cursor, Item
  <1>6. ASSUME InProgress(queue'), AtHand(queue) > AtHand(queue)'
        PROVE  /\ Spent(queue, Item(queue)) + 1 <= Spent(queue, Item(queue))'
               /\ queue.run # 0 => ~Held(queue.run) \/ (Cycle /\ resumes' > 0)
    <2>1. starting # 0 /\ queue.run = 0 /\ starting' = 0
      BY <1>6 DEF AtHand, OwnRun
    <2>2. faults' = faults + 1 /\ InProgress(queue) /\ Item(queue)' = Item(queue)
      BY <1>6, <2>1 DEF InProgress, Item
    <2>3. /\ Spent(queue, Item(queue)) \in Nat
          /\ Spent(queue, Item(queue))' = Spent(queue, Item(queue)) + (faults' - faults)
      BY <1>4, <1>5, <2>2
    <2> QED
      BY <1>1, <2>1, <2>2, <2>3
  <1>7. (starting' = starting /\ (starting # 0 => queue' = queue)) \/ starting' = 0
    OBVIOUS
  <1>8. \A i \in Items : Spent(queue, i) <= Spent(queue, i)'
    BY <1>1, <1>4
  <1>9. /\ UNCHANGED setup /\ resumes' >= resumes /\ queue' \in Doc
        /\ queue'.next = queue.next /\ queue'.done = queue.done /\ queue'.skipped = queue.skipped
        /\ queue.items <= queue'.items /\ queue'.items <= listed'
        /\ InProgress(queue) \/ ~InProgress(queue')
        /\ queue'.run \in {0, queue.run}
        /\ \A i \in Items : queue'.retries[i] + queue'.restarts[i] > 0
                              => queue.retries[i] + queue.restarts[i] > 0
    BY <1>1
  <1> QED
    BY <1>3, <1>6, <1>7, <1>8, <1>9, Keeps

LEMMA RunnerKeeps ==
    ASSUME QueueInv, NEW r \in DOMAIN runs, RunEnds(r) \/ OrphanEnds(r) \/ JobEnds(r)
    PROVE  WorldTyped' /\ DocInv(queue)' /\ RunsGoOn
  <1> USE DEF QueueInv
  <1>1. /\ DOMAIN runs = 1..Len(runs) /\ Len(runs) \in Nat /\ runs[r] \in Runs
    BY LenProperties, ElementOfSeq DEF WorldTyped
  <1>2. /\ UNCHANGED <<setup, listed, queue, starting, current, manual, resumes, manuals>>
        /\ dirty' \in BOOLEAN /\ faults' \in {faults, faults + 1}
    BY DEF RunEnds, OrphanEnds, JobEnds, EndsAs, counters, WorldTyped
  <1>3. PICK new \in Runs :
          /\ runs' = [runs EXCEPT ![r] = new] /\ new.item = runs[r].item
          /\ new.kept = runs[r].kept /\ new.end # "orphan"
          /\ new.job # "none" => new.end \in {"accepted", "failed"}
          /\ Held(r) \/ new.end = "failed"
          /\ (Proven(r) => new.end = "accepted" /\ runs[r].job # "completed")
    <2>1. ASSUME NEW end \in {"accepted", "transient", "failed", "dirty"},
                 NEW job \in {"pending", "none"}, EndsAs(r, end, job),
                 job = "pending" => end \in {"accepted", "failed"}, runs[r].end \in {"going", "orphan"}
          PROVE  \E new \in Runs :
                   /\ runs' = [runs EXCEPT ![r] = new] /\ new.item = runs[r].item
                   /\ new.kept = runs[r].kept /\ new.end # "orphan"
                   /\ new.job # "none" => new.end \in {"accepted", "failed"}
                   /\ Held(r) \/ new.end = "failed"
                   /\ (Proven(r) => new.end = "accepted" /\ runs[r].job # "completed")
      <3> DEFINE new == [runs[r] EXCEPT !.end = end, !.job = job]
      <3>1. /\ new \in Runs /\ new.item = runs[r].item /\ new.kept = runs[r].kept
            /\ new.end = end /\ new.job = job
        BY <1>1, <2>1 DEF Runs
      <3>2. runs' = [runs EXCEPT ![r] = new]
        BY <1>1, <2>1 DEF EndsAs, Runs
      <3> HIDE DEF new
      <3> QED
        BY <2>1, <3>1, <3>2 DEF Held, Proven
    <2>2. CASE JobEnds(r)
      <3>1. PICK job \in {"completed", "failed"} : runs' = [runs EXCEPT ![r].job = job]
        BY <2>2 DEF JobEnds
      <3> DEFINE new == [runs[r] EXCEPT !.job = job]
      <3>2. runs[r].end \in {"accepted", "failed"} /\ runs[r].job = "pending"
        BY <2>2 DEF JobEnds, WorldTyped
      <3>3. /\ new \in Runs /\ new.item = runs[r].item /\ new.kept = runs[r].kept
            /\ new.end = runs[r].end
        BY <1>1, <3>2 DEF Runs
      <3>4. runs' = [runs EXCEPT ![r] = new]
        BY <3>1
      <3> HIDE DEF new
      <3> QED
        BY <3>2, <3>3, <3>4 DEF Held, Proven
    <2> QED
      BY <2>1, <2>2 DEF RunEnds, OrphanEnds
  <1>4. /\ runs' \in Seq(Runs) /\ Len(runs') = Len(runs) /\ DOMAIN runs' = DOMAIN runs
        /\ runs'[r] = new /\ \A s \in DOMAIN runs : s # r => runs'[s] = runs[s]
    BY <1>1, <1>3, ExceptSeq, LenProperties DEF WorldTyped
  <1>7. listed' >= listed /\ faults' >= faults /\ faults' \in Nat
    BY <1>2, ListIsBounded DEF WorldTyped
  <1>5. WorldTyped'
    BY <1>1, <1>2, <1>3, <1>4, <1>7 DEF WorldTyped
  <1>6. RunsGoOn
    BY <1>3, RunChanges
  <1> QED
    BY <1>2, <1>5, <1>6, <1>7, ElsewhereKeeps

\* The process dies.
LEMMA CrashKeeps ==
    ASSUME QueueInv, Crash
    PROVE  WorldTyped' /\ DocInv(queue)' /\ RunsGoOn
  <1> USE DEF QueueInv
  <1>1. /\ DOMAIN runs = 1..Len(runs) /\ Len(runs) \in Nat
        /\ \A r \in DOMAIN runs : runs[r] \in Runs
    BY LenProperties, ElementOfSeq DEF WorldTyped
  <1>2. /\ UNCHANGED <<setup, listed, queue, dirty, manual, resumes, manuals>>
        /\ starting' = 0 /\ current' = 0 /\ faults' = faults + 1
        /\ runs' = [r \in DOMAIN runs |->
                     IF runs[r].end = "going" THEN [runs[r] EXCEPT !.end = "orphan"] ELSE runs[r]]
    BY DEF Crash
  <1>3. ASSUME NEW r \in DOMAIN runs
        PROVE  /\ runs'[r] \in Runs /\ runs'[r].item = runs[r].item /\ runs'[r].kept = runs[r].kept
               /\ runs'[r].job = runs[r].job
               /\ runs[r].end = "accepted" <=> runs'[r].end = "accepted"
               /\ runs'[r].end \in {"going", "orphan"} <=> runs[r].end \in {"going", "orphan"}
    BY <1>1, <1>2 DEF Runs
  <1>4. runs' \in Seq(Runs) /\ DOMAIN runs' = DOMAIN runs /\ Len(runs') = Len(runs)
    <2>1. DOMAIN runs' = 1..Len(runs) /\ runs' \in [1..Len(runs) -> Runs]
      BY <1>1, <1>2, <1>3
    <2> QED
      BY <1>1, <2>1, SeqDef, LenProperties
  <1>5. WorldTyped'
    BY <1>1, <1>2, <1>3, <1>4 DEF WorldTyped
  <1>6. RunsGoOn
    BY <1>3, <1>4 DEF RunsGoOn, Held, Proven
  <1>7. listed' >= listed
    BY <1>2, ListIsBounded DEF WorldTyped
  <1> QED
    BY <1>2, <1>5, <1>6, <1>7, ElsewhereKeeps

\* The registry, the operator's own runs and the collector do not touch the queue.
LEMMA OutsideKeeps ==
    ASSUME QueueInv,
           \/ Promote \/ ManualStarts \/ ManualEnds \/ DirtyCleaned
           \/ Collects \/ CollectRaises \/ UNCHANGED queueVars
    PROVE  WorldTyped' /\ DocInv(queue)' /\ RunsGoOn
  <1> USE DEF QueueInv
  <1>1. /\ UNCHANGED <<setup, queue, starting, runs, resumes>>
        /\ faults' \in {faults, faults + 1} /\ manuals' \in {manuals, manuals + 1}
        /\ current' \in {0, current} /\ dirty' \in BOOLEAN /\ manual' \in BOOLEAN
        /\ listed' = listed \/ (listed < setup.items /\ listed' = listed + 1)
    BY DEF Promote, ManualStarts, ManualEnds, DirtyCleaned, Collects, CollectRaises, queueVars,
           world, counters, WorldTyped
  <1>2. /\ listed \in Nat /\ setup.items \in Nat /\ listed \in 1..setup.items
        /\ faults \in Nat /\ manuals \in Nat
    BY ListIsBounded, QueueAssumption DEF WorldTyped
  <1>3. listed' \in 1..setup.items /\ listed' >= listed /\ faults' >= faults
        /\ faults' \in Nat /\ manuals' \in Nat
    BY <1>1, <1>2
  <1>4. WorldTyped'
    BY <1>1, <1>3 DEF WorldTyped
  <1>5. RunsGoOn
    BY <1>1 DEF RunsGoOn, WorldTyped, Held, Proven
  <1> QED
    BY <1>1, <1>3, <1>4, <1>5, ElsewhereKeeps

\* A tick raises: the run it may have started is forgotten.
LEMMA TickRaisesKeeps ==
    ASSUME QueueInv, TickRaises
    PROVE  WorldTyped' /\ DocInv(queue)' /\ RunsGoOn
  <1> USE DEF QueueInv, DocInv
  <1>1. /\ UNCHANGED <<setup, listed, runs, current, dirty, manual, resumes, manuals>>
        /\ starting' = 0 /\ faults' = faults + 1
        /\ InProgress(queue)
    BY ActiveIsInProgress DEF TickRaises, world
  <1>2. /\ queue \in Doc /\ listed \in Nat /\ resumes \in Nat /\ faults \in Nat
        /\ queue.items \in Nat /\ queue.items <= listed /\ queue.next \in Nat /\ queue.run \in Nat
        /\ Item(queue) \in Items
    <2>1. /\ queue \in Doc /\ listed \in Nat /\ resumes \in Nat /\ faults \in Nat
          /\ queue.items \in Nat /\ queue.items <= listed /\ queue.next \in Nat /\ queue.run \in Nat
      BY ListIsBounded, DocFields DEF WorldTyped, Cursor
    <2> QED
      BY <1>1, <2>1, ListIsBounded DEF Cursor, Item
  <1>3. /\ queue' \in Doc /\ queue'.phase \in {"paused", queue.phase} /\ queue'.items = queue.items
        /\ queue'.next = queue.next /\ queue'.run = queue.run /\ queue'.done = queue.done
        /\ queue'.skipped = queue.skipped /\ queue'.retries = queue.retries
        /\ queue'.restarts = queue.restarts
    BY <1>1, <1>2 DEF TickRaises, Doc, Phases
  <1>4. WorldTyped'
    BY <1>1, <1>2 DEF WorldTyped
  <1>5. RunsGoOn
    BY <1>1 DEF RunsGoOn, WorldTyped, Held, Proven
  <1>6. PhaseFits(queue)'
    <2>1. Cycle' = Cycle /\ \A r : Proven(r)' = Proven(r)
      BY <1>1 DEF Cycle, Proven
    <2>2. PhaseFits(queue)
      OBVIOUS
    <2> QED
      BY <1>1, <1>3, <2>1, <2>2 DEF PhaseFits, InProgress
  <1>7. \A i \in Items : Spent(queue, i) \in Nat /\ Spent(queue, i)' = Spent(queue, i) + 1
    <2>1. \A i \in Items : queue.retries[i] \in Nat /\ queue.restarts[i] \in Nat
      BY <1>2, DocFields
    <2>2. resumes * Granted \in Nat
      BY <1>2, Constants
    <2>3. Granted' = Granted
      BY <1>1 DEF Granted, Cycle
    <2>4. ASSUME NEW i \in Items
          PROVE  Spent(queue, i) \in Nat /\ Spent(queue, i)' = Spent(queue, i) + 1
      <3>1. Spent(queue, i)' = queue.retries[i] + queue.restarts[i] + (faults + 1) + resumes * Granted
        BY <1>1, <1>3, <2>3 DEF Spent
      <3>2. Spent(queue, i) = queue.retries[i] + queue.restarts[i] + faults + resumes * Granted
        BY DEF Spent
      <3> QED
        BY <1>2, <2>1, <2>2, <3>1, <3>2
    <2> QED
      BY <2>4
  <1>8. ASSUME AtHand(queue) > AtHand(queue)'
        PROVE  /\ Spent(queue, Item(queue)) + 1 <= Spent(queue, Item(queue))'
               /\ queue.run # 0 => ~Held(queue.run) \/ (Cycle /\ resumes' > 0)
    <2>1. queue.run = 0
      BY <1>3, <1>8 DEF AtHand
    <2>2. Item(queue)' = Item(queue)
      BY <1>3 DEF Item
    <2>3. /\ Spent(queue, Item(queue)) \in Nat
          /\ Spent(queue, Item(queue))' = Spent(queue, Item(queue)) + 1
      BY <1>2, <1>7, <2>2
    <2> QED
      BY <2>1, <2>3
  <1>9. /\ UNCHANGED setup /\ resumes' >= resumes /\ listed' >= listed
        /\ queue.items <= queue'.items /\ queue'.items <= listed'
        /\ queue'.run \in {0, queue.run}
        /\ \A i \in Items : queue'.retries[i] + queue'.restarts[i] > 0
                              => queue.retries[i] + queue.restarts[i] > 0
        /\ \A i \in Items : Spent(queue, i) <= Spent(queue, i)'
    BY <1>1, <1>2, <1>3, <1>7
  <1>10. DocInv(queue)'
    <2>1. \A i \in Items : queue'.retries[i] + queue'.restarts[i] > 0
                => queue.retries[i] + queue.restarts[i] > 0 \/ (InProgress(queue) /\ i = Item(queue))
      BY <1>9
    <2>2. \A i \in Items : Spent(queue, i) <= Spent(queue, i)'
      BY <1>9
    <2>3. UNCHANGED setup /\ resumes' >= resumes /\ listed' >= listed /\ starting' = 0
      BY <1>1, <1>9
    <2>4. /\ queue.items <= queue'.items /\ queue'.items <= listed'
          /\ queue'.run \in {0, queue.run}
      BY <1>9
    <2>5. Item(queue)' = Item(queue)
      BY <1>3 DEF Item
    <2> QED
      BY <1>1, <1>3, <1>4, <1>5, <1>6, <1>8, <2>1, <2>2, <2>3, <2>4, <2>5, Keeps
  <1> QED
    BY <1>4, <1>5, <1>10

\* The operator ends the queue, takes the list over from the registry, or the
\* deadline of a phase comes.
LEMMA FileOnlyKeeps ==
    ASSUME QueueInv, Cancel \/ AppendPromoted \/ TimePasses
    PROVE  WorldTyped' /\ DocInv(queue)' /\ RunsGoOn
  <1> USE DEF QueueInv, DocInv
  <1>1. Steady /\ starting = 0
    BY DEF Cancel, Completes, AppendPromoted, TimePasses, Stays, world, counters, Steady, OwnRun
  <1>2. WorldTyped' /\ RunsGoOn
    BY <1>1, SteadyWorld
  <1>3. /\ queue \in Doc /\ listed \in Nat /\ resumes \in Nat
        /\ queue.items \in Nat /\ queue.items <= listed /\ queue.next \in Nat
    BY ListIsBounded, DocFields DEF WorldTyped, Cursor
  <1>4. /\ queue' \in Doc /\ queue'.next = queue.next /\ queue'.done = queue.done
        /\ queue'.skipped = queue.skipped /\ queue'.retries = queue.retries
        /\ queue'.restarts = queue.restarts
        /\ queue.items <= queue'.items /\ queue'.items <= listed
        /\ \/ queue'.phase = queue.phase /\ queue'.run = queue.run
           \/ queue'.phase = "completed" /\ queue'.run = 0
    <2>1. CASE Cancel
      <3>1. queue' = [queue EXCEPT !.phase = "completed", !.run = 0, !.waiting = FALSE]
        BY <2>1 DEF Cancel, Completes
      <3>2. queue' \in Doc
        <4>1. "completed" \in Phases /\ 0 \in Nat
          BY DEF Phases
        <4> QED
          BY <1>3, <3>1, <4>1 DEF Doc
      <3> QED
        BY <1>3, <3>1, <3>2 DEF Doc
    <2>2. CASE AppendPromoted
      <3>1. queue' = [queue EXCEPT !.items = listed]
        BY <2>2 DEF AppendPromoted
      <3>2. queue' \in Doc
        BY <1>3, <3>1 DEF Doc
      <3>3. queue'.items = listed
        BY <1>3, <3>1 DEF Doc
      <3>4. queue.items <= queue'.items /\ queue'.items <= listed
        BY <1>3, <3>3
      <3> QED
        BY <1>3, <3>1, <3>2, <3>4 DEF Doc
    <2>3. CASE TimePasses
      <3>1. queue' = [queue EXCEPT !.waiting = FALSE]
        BY <2>3 DEF TimePasses
      <3>2. queue' \in Doc
        BY <1>3, <3>1 DEF Doc
      <3>3. /\ queue'.items = queue.items /\ queue'.phase = queue.phase /\ queue'.run = queue.run
            /\ queue'.next = queue.next /\ queue'.done = queue.done
            /\ queue'.skipped = queue.skipped /\ queue'.retries = queue.retries
            /\ queue'.restarts = queue.restarts
        BY <1>3, <3>1 DEF Doc
      <3> QED
        BY <1>3, <3>2, <3>3
    <2> QED
      BY <2>1, <2>2, <2>3
  <1>5. PhaseFits(queue)'
    BY <1>1, <1>4, SteadyWorld DEF PhaseFits, InProgress
  <1>6. \A i \in Items : Spent(queue, i)' = Spent(queue, i) /\ Spent(queue, i) \in Nat
    BY <1>1, <1>3, <1>4, SteadyWorld, SpentIsNat DEF Spent, Steady
  <1>7. InProgress(queue') => ~(AtHand(queue) > AtHand(queue)')
    BY <1>1, <1>4 DEF AtHand, Steady, InProgress
  <1>8. /\ UNCHANGED setup /\ resumes' >= resumes /\ listed' >= listed /\ starting' = 0
        /\ queue'.items <= listed'
        /\ queue'.run \in {0, queue.run}
        /\ InProgress(queue) \/ ~InProgress(queue')
        /\ \A i \in Items : queue'.retries[i] + queue'.restarts[i] > 0
                              => queue.retries[i] + queue.restarts[i] > 0
        /\ \A i \in Items : Spent(queue, i) <= Spent(queue, i)'
    BY <1>1, <1>3, <1>4, <1>6 DEF Steady, InProgress
  <1>9. DocInv(queue)'
    BY <1>2, <1>4, <1>5, <1>7, <1>8, Keeps
  <1> QED
    BY <1>2, <1>9

\* The operator resumes: the run of the scenario, if it is let go of, is over
\* and comes to nothing, and the resume pays for the next one.
LEMMA ResumeKeeps ==
    ASSUME QueueInv, Resume
    PROVE  WorldTyped' /\ DocInv(queue)' /\ RunsGoOn
  <1> USE DEF QueueInv, DocInv
  <1>1. /\ UNCHANGED <<setup, listed, starting, runs, current, dirty, manual, faults, manuals>>
        /\ resumes' = resumes + 1 /\ queue.phase = "paused" /\ queue' \in Resumed /\ ~Leased
        /\ InProgress(queue)
    BY DEF Resume, world, Ready, InProgress
  <1>2. /\ queue \in Doc /\ listed \in Nat /\ resumes \in Nat /\ faults \in Nat
        /\ queue.items \in Nat /\ queue.items <= listed /\ queue.next \in Nat /\ queue.run \in Nat
        /\ Item(queue) \in Items
    <2>1. /\ queue \in Doc /\ listed \in Nat /\ resumes \in Nat /\ faults \in Nat
          /\ queue.items \in Nat /\ queue.items <= listed /\ queue.next \in Nat /\ queue.run \in Nat
      BY ListIsBounded, DocFields DEF WorldTyped, Cursor
    <2> QED
      BY <1>1, <2>1, ListIsBounded DEF Cursor, Item
  <1>3. starting = 0
    BY <1>1 DEF OwnRun
  <1>4. WorldTyped'
    BY <1>1, <1>2 DEF WorldTyped
  <1>5. RunsGoOn /\ Cycle' = Cycle /\ Granted' = Granted
    BY <1>1 DEF RunsGoOn, WorldTyped, Held, Proven, Cycle, Granted
  <1>6. ASSUME queue.run # 0 PROVE Held(queue.run) => CaptureCanResume(queue.run)
    <2>1. queue.run \in DOMAIN runs
      <3>1. DOMAIN runs = 1..Len(runs) /\ Len(runs) \in Nat
        BY LenProperties DEF WorldTyped
      <3> QED
        BY <1>6, <3>1 DEF OwnRun
    <2> QED
      BY <1>1, <1>6, <2>1 DEF Held, CaptureCanResume, Leased, Live
  <1>7. /\ queue' \in Doc /\ queue'.items = queue.items
        /\ queue'.next = queue.next /\ queue'.done = queue.done
        /\ queue'.skipped = queue.skipped /\ queue'.retries = queue.retries
        /\ \/ /\ Cycle /\ queue'.phase = "cycle_reset" /\ queue'.run = 0
              /\ queue'.restarts = [i \in Items |-> 0]
           \/ /\ ~Cycle /\ queue'.phase = "waiting_capture" /\ queue'.run = queue.run
              /\ queue'.restarts = queue.restarts /\ CaptureCanResume(queue.run)
           \/ /\ ~Cycle /\ queue'.phase \in {"running", "waiting_clean_window"} /\ queue'.run = 0
              /\ queue'.restarts = queue.restarts /\ ~CaptureCanResume(queue.run)
    <2>1. CASE Cycle
      <3>1. queue' = [Rewound(queue) EXCEPT !.restarts = [i \in Items |-> 0]]
        BY <1>1, <2>1 DEF Resumed
      <3>2. "cycle_reset" \in Phases /\ [i \in Items |-> 0] \in [Items -> 0..MaxRestarts]
        BY <2>1, QueueAssumption DEF Phases, ActivePhases
      <3> QED
        BY <1>2, <2>1, <3>1, <3>2 DEF Rewound, Doc
    <2>2. CASE ~Cycle /\ CaptureCanResume(queue.run)
      <3>1. queue' = [queue EXCEPT !.phase = "waiting_capture"]
        BY <1>1, <2>2 DEF Resumed
      <3>2. "waiting_capture" \in Phases
        BY <2>2 DEF Phases, ActivePhases
      <3> QED
        BY <1>2, <2>2, <3>1, <3>2 DEF Doc
    <2>3. CASE ~Cycle /\ ~CaptureCanResume(queue.run)
      <3> DEFINE again == [queue EXCEPT !.phase = "running", !.run = 0,
                                        !.waiting = @ /\ queue.run = 0 /\ queue.attempts > 0]
      <3>1. {"running", "waiting_clean_window"} \subseteq Phases
        BY <2>3 DEF Phases, ActivePhases
      <3>2. queue.waiting \in BOOLEAN
        BY <1>2, DocFields
      <3>3. PICK w \in BOOLEAN, p \in {"running", "waiting_clean_window"} :
              queue' = [queue EXCEPT !.phase = p, !.run = 0, !.waiting = w]
        <4>1. CASE queue' = again
          <5>1. again = [queue EXCEPT !.phase = "running", !.run = 0,
                            !.waiting = (queue.waiting /\ queue.run = 0 /\ queue.attempts > 0)]
            BY <1>2 DEF Doc
          <5>2. (queue.waiting /\ queue.run = 0 /\ queue.attempts > 0) \in BOOLEAN
            OBVIOUS
          <5> HIDE DEF again
          <5> QED
            BY <4>1, <5>1, <5>2
        <4>2. ASSUME NEW early \in BOOLEAN,
                     queue' = [again EXCEPT !.phase = "waiting_clean_window", !.waiting = early]
              PROVE  queue' = [queue EXCEPT !.phase = "waiting_clean_window", !.run = 0, !.waiting = early]
          BY <1>2, <4>2 DEF Doc
        <4> QED
          BY <1>1, <2>3, <4>1, <4>2 DEF Resumed
      <3> QED
        BY <1>2, <2>3, <3>1, <3>3 DEF Doc
    <2> QED
      BY <2>1, <2>2, <2>3
  <1>8. PhaseFits(queue)'
    BY <1>1, <1>5, <1>7 DEF PhaseFits, InProgress, CaptureCanResume, Proven
  <1>9. \A i \in Items : Spent(queue, i) + 1 <= Spent(queue, i)'
    <2>1. ASSUME NEW i \in Items
          PROVE  /\ queue.retries[i] \in Nat /\ queue.restarts[i] \in Nat
                 /\ queue'.retries[i] = queue.retries[i] /\ queue'.restarts[i] \in Nat
                 /\ queue.restarts[i] + 1 <= queue'.restarts[i] + Granted
      <3>1. queue.restarts[i] \in 0..MaxRestarts
        BY <1>2 DEF Doc
      <3>2. Granted = IF Cycle THEN MaxRestarts + 1 ELSE 1
        BY DEF Granted
      <3>3. queue.retries[i] \in Nat /\ MaxRestarts \in Nat
        BY <1>2, DocFields, QueueAssumption
      <3> QED
        BY <1>7, <3>1, <3>2, <3>3
    <2>2. /\ resumes * Granted \in Nat /\ Granted \in Nat
          /\ (resumes + 1) * Granted = resumes * Granted + Granted
      BY <1>2, Constants
    <2>3. \A i : Spent(queue, i)' = queue'.retries[i] + queue'.restarts[i] + faults
                                      + (resumes * Granted + Granted)
      BY <1>1, <1>5, <2>2 DEF Spent
    <2>4. ASSUME NEW i \in Items PROVE Spent(queue, i) + 1 <= Spent(queue, i)'
      <3>1. Spent(queue, i) = queue.retries[i] + queue.restarts[i] + faults + resumes * Granted
        BY DEF Spent
      <3> QED
        BY <1>2, <2>1, <2>2, <2>3, <3>1
    <2> QED
      BY <2>4
  <1>10. Item(queue)' = Item(queue)
    BY <1>7 DEF Item
  <1>11. ASSUME AtHand(queue) > AtHand(queue)'
         PROVE  /\ Spent(queue, Item(queue)) + 1 <= Spent(queue, Item(queue))'
                /\ queue.run # 0 => ~Held(queue.run) \/ (Cycle /\ resumes' > 0)
    <2>1. Spent(queue, Item(queue)) + 1 <= Spent(queue, Item(queue))'
      BY <1>2, <1>9, <1>10
    <2>2. ASSUME queue.run # 0, ~Cycle PROVE ~CaptureCanResume(queue.run)
      BY <1>7, <1>11, <2>2 DEF AtHand
    <2> QED
      BY <1>1, <1>2, <1>6, <2>1, <2>2
  <1>12. /\ UNCHANGED setup /\ resumes' >= resumes /\ listed' >= listed /\ starting' = 0
         /\ queue.items <= queue'.items /\ queue'.items <= listed'
         /\ queue'.run \in {0, queue.run}
         /\ \A i \in Items : queue'.retries[i] + queue'.restarts[i] > 0
                               => queue.retries[i] + queue.restarts[i] > 0
    <2>1. \A i \in Items : queue.retries[i] \in Nat /\ queue.restarts[i] \in Nat
      BY <1>2, DocFields
    <2> QED
      BY <1>1, <1>2, <1>3, <1>7, <2>1
  <1>13. \A i \in Items : Spent(queue, i) <= Spent(queue, i)'
    <2>1. \A i \in Items : Spent(queue, i) \in Nat
      BY <1>2, SpentIsNat
    <2>2. \A i \in Items : Spent(queue, i)' \in Nat
      <3>1. /\ faults' \in Nat /\ resumes' * Granted \in Nat
        BY <1>1, <1>2, Constants
      <3>2. queue' \in Doc
        BY <1>7
      <3>3. \A i \in Items : queue'.retries[i] \in Nat /\ queue'.restarts[i] \in Nat
        BY <3>2, DocFields
      <3> QED
        BY <1>5, <3>1, <3>3 DEF Spent
    <2> QED
      BY <1>9, <2>1, <2>2
  <1>14. DocInv(queue)'
    <2>1. \A i \in Items : queue'.retries[i] + queue'.restarts[i] > 0
                => queue.retries[i] + queue.restarts[i] > 0 \/ (InProgress(queue) /\ i = Item(queue))
      BY <1>12
    <2>2. UNCHANGED setup /\ resumes' >= resumes /\ listed' >= listed /\ starting' = 0
      BY <1>12
    <2>3. /\ queue.items <= queue'.items /\ queue'.items <= listed'
          /\ queue'.run \in {0, queue.run}
      BY <1>12
    <2>4. /\ queue' \in Doc /\ queue'.next = queue.next /\ queue'.done = queue.done
          /\ queue'.skipped = queue.skipped
      BY <1>7
    <2> QED
      BY <1>1, <1>4, <1>5, <1>8, <1>10, <1>11, <1>13, <2>1, <2>2, <2>3, <2>4, Keeps
  <1> QED
    BY <1>4, <1>5, <1>14

-----------------------------------------------------------------------------
(* The collector and the markers. *)

\* No marker is written or given up, and the snapshots are not wiped.
LEMMA MarkersStay ==
    ASSUME QueueInv, RunsGoOn, setup' = setup, marked' = marked, lost' = lost,
           resumes' \in Nat, resumes' >= resumes, faults' \in Nat, faults' >= faults,
           starting' \in {0, starting}, collecting' \in {FALSE, collecting},
           InProgress(queue') => InProgress(queue) /\ queue'.next = queue.next,
           bundle' = bundle \/ bundle' \in {"listed", "writing"} \/ (bundle' = "partial" /\ faults' > 0)
    PROVE  Marked'
  <1> USE DEF QueueInv
  <1>1. faults \in Nat /\ resumes \in Nat
    BY DEF WorldTyped
  <1>2. collecting' \in BOOLEAN /\ (collecting' => collecting)
    <2>1. CASE collecting' = FALSE
      BY <2>1
    <2>2. CASE collecting' = collecting
      BY <2>2, Zenon DEF Marked
    <2> QED
      BY <2>1, <2>2
  <1>3. /\ bundle' \in {"absent", "writing", "partial", "listed"}
        /\ setup'.topology \/ (marked' = {} /\ ~collecting')
        /\ lost' \subseteq marked' /\ marked' \subseteq DOMAIN runs'
        /\ \A r \in marked' : runs'[r].kept
    <2>1. setup'.topology \/ (marked' = {} /\ ~collecting')
      BY <1>2, Zenon DEF Marked
    <2> QED
      BY <2>1 DEF Marked, RunsGoOn
  <1>4. InProgress(queue') => \A r \in marked' : runs'[r].item = Item(queue')
    BY DEF Marked, RunsGoOn, Item
  <1>5. \A r \in lost' : resumes' > 0 \/ ~Held(r)'
    BY <1>1 DEF Marked, RunsGoOn
  <1>6. \A r \in marked' \ lost' : bundle' \in {"listed", "writing"} \/ faults' > 0
    BY <1>1 DEF Marked
  <1>7. /\ collecting' => bundle' # "partial" \/ faults' > 0
        /\ collecting' /\ starting' # 0 => bundle' # "absent"
    BY <1>1, <1>2 DEF Marked
  <1> QED
    BY <1>2, <1>3, <1>4, <1>5, <1>6, <1>7 DEF Marked, InProgress, Item

\* Another scenario, or another queue.
LEMMA MarkersForgotten ==
    ASSUME QueueInv, CollectorMovesOn
    PROVE  Marked'
  BY DEF CollectorMovesOn, Marked

\* The run that has started gets its marker.
LEMMA RecordsMarks ==
    ASSUME QueueInv, Records
    PROVE  Marked'
  <1> USE DEF QueueInv
  <1>1. /\ UNCHANGED <<setup, resumes, faults, collecting, bundle, lost>>
        /\ marked' = (IF collecting THEN marked \cup {starting} ELSE marked)
        /\ starting # 0 /\ starting' = 0 /\ runs' = [runs EXCEPT ![starting].kept = TRUE]
        /\ queue' = [queue EXCEPT !.phase = "running", !.run = starting,
                                  !.attempts = 0, !.waiting = FALSE]
    BY DEF Records, Marks, counters
  <1>2. DOMAIN runs = 1..Len(runs) /\ Len(runs) \in Nat /\ \A r \in DOMAIN runs : runs[r] \in Runs
    BY LenProperties, ElementOfSeq DEF WorldTyped
  <1>3. starting \in DOMAIN runs
    BY <1>1, <1>2 DEF WorldTyped
  <1>4. /\ DOMAIN runs' = DOMAIN runs /\ runs'[starting].kept
        /\ \A r \in DOMAIN runs : /\ runs'[r].item = runs[r].item /\ Held(r)' = Held(r)
                                  /\ runs[r].kept => runs'[r].kept
    <2>1. \A r \in DOMAIN runs :
            /\ runs'[r].item = runs[r].item /\ runs'[r].end = runs[r].end
            /\ runs'[r].job = runs[r].job /\ (runs[r].kept => runs'[r].kept)
      BY <1>1, <1>2, <1>3 DEF Runs
    <2> QED
      BY <1>1, <1>2, <1>3, <2>1 DEF Held, Proven, Runs
  <1>5. InProgress(queue) /\ Item(queue') = Item(queue) /\ runs[starting].item = Item(queue)
    BY <1>1 DEF DocInv, OwnRun, InProgress, Item, Doc
  <1>6. /\ lost' \subseteq marked' /\ marked' \subseteq DOMAIN runs'
        /\ setup'.topology \/ (marked' = {} /\ ~collecting')
        /\ \A r \in marked' : runs'[r].kept
    BY <1>1, <1>3, <1>4 DEF Marked
  <1>7. \A r \in marked' : runs'[r].item = Item(queue')
    BY <1>1, <1>3, <1>4, <1>5 DEF Marked
  <1>8. \A r \in lost' : resumes' > 0 \/ ~Held(r)'
    BY <1>1, <1>4 DEF Marked
  <1>9. \A r \in marked' \ lost' : bundle' \in {"listed", "writing"} \/ faults' > 0
    BY <1>1 DEF Marked
  <1> QED
    BY <1>1, <1>6, <1>7, <1>8, <1>9 DEF Marked, InProgress, Item

\* A tick starts a run, or leaves the runs alone; it settles one scenario at most.
LEMMA TickRuns ==
    ASSUME QueueInv, Tick
    PROVE  /\ \/ UNCHANGED <<world, starting>>
              \/ \E q \in Refreshed : /\ Starts(q) /\ q.run = 0
                                      /\ q.phase = (IF Cycle THEN "cycle_buffer" ELSE "running")
           /\ queue'.next \in {queue.next, queue.next + 1}
  <1> USE DEF QueueInv
  <1>1. InProgress(queue) /\ queue \in Doc
    BY ActiveIsInProgress DEF Tick, DocInv
  <1>2. CASE Pauses(queue)
    BY <1>1, <1>2 DEF Pauses, Stays, Doc
  <1>3. ASSUME NEW q \in Refreshed, IF Cycle THEN TickCycle(q) ELSE TickV2(q)
        PROVE  /\ \/ UNCHANGED <<world, starting>>
                  \/ /\ Starts(q) /\ q.run = 0
                     /\ q.phase = (IF Cycle THEN "cycle_buffer" ELSE "running")
               /\ queue'.next \in {q.next, q.next + 1}
    <2>1. q \in Doc /\ (q.phase = "cycle_buffer" => q.run = 0)
      BY <1>1, RefreshedKeeps DEF DocInv, PhaseFits
    <2>2. ASSUME Pauses(q) \/ Waits(q) \/ Completes(q) \/ Recheck(q)
          PROVE  UNCHANGED <<world, starting>> /\ queue'.next = q.next
      BY <2>1, <2>2 DEF Pauses, Waits, Completes, Recheck, Stays, Doc
    <2>3. ASSUME NEW d \in Doc, Settled(q, d), d.next = q.next + 1
          PROVE  UNCHANGED <<world, starting>> /\ queue'.next = q.next + 1
      BY <2>3 DEF Settled, Completes, Stays, Doc
    <2>4. ASSUME Starts(q) PROVE queue'.next = q.next
      BY <2>4 DEF Starts
    <2>5. ASSUME Restarts(q)
          PROVE  UNCHANGED <<world, starting>> /\ queue'.next = q.next
      BY <2>1, <2>2, <2>5 DEF Restarts, Rewound, Stays, Doc
    <2>6. CASE Cycle
      <3>1. CASE TickReset(q)
        BY <2>1, <2>2, <3>1 DEF TickReset, Stays, Doc
      <3>2. CASE TickNormal(q)
        BY <2>1, <2>2, <2>5, <3>2 DEF TickNormal, Stays, Doc
      <3>3. CASE TickBuffer(q)
        BY <2>1, <2>2, <2>4, <2>5, <2>6, <3>3 DEF TickBuffer
      <3>4. CASE TickCycleRunning(q)
        BY <2>1, <2>2, <2>5, <3>4 DEF TickCycleRunning, Stays, Doc
      <3>5. CASE TickCooldown(q)
        BY <2>1, <2>2, <3>5 DEF TickCooldown, Stays, Doc
      <3>6. CASE TickCycleCapture(q)
        BY <2>1, <2>2, <3>6 DEF TickCycleCapture, Settled, Completes, Rewound, Stays, Doc
      <3> QED
        BY <1>3, <2>6, <3>1, <3>2, <3>3, <3>4, <3>5, <3>6 DEF TickCycle
    <2>7. CASE ~Cycle
      <3>1. CASE TickStarts(q)
        BY ZenonT(40), <2>1, <2>2, <2>4, <2>7, <3>1
        DEF TickStarts, GateIsDirty, GateRaises, GateIsClean, Settled, Skipped, Completes, Stays, Doc
      <3>2. CASE TickFollows(q)
        BY <2>1, <2>2, <3>2 DEF TickFollows, Retried, Stays, Doc
      <3>3. CASE TickCapture(q)
        BY ZenonT(40), <2>1, <2>2, <3>3 DEF TickCapture, Settled, Completes, Stays, Doc
      <3>4. CASE TickCleanWindow(q)
        BY <2>1, <2>2, <3>4 DEF TickCleanWindow, Stays, Doc
      <3> QED
        BY <1>3, <2>7, <3>1, <3>2, <3>3, <3>4 DEF TickV2
    <2> QED
      BY <2>6, <2>7
  <1> QED
    BY <1>1, <1>2, <1>3, RefreshedKeeps DEF Tick

\* A cycle begins again only when there is no run of its scenario to be captured,
\* or when the operator has resumed one.
LEMMA TickMarks ==
    ASSUME QueueInv, Tick
    PROVE  Marked'
  <1> USE DEF QueueInv
  <1>1. /\ InProgress(queue) /\ queue \in Doc /\ queue.next \in Nat /\ starting = 0
        /\ UNCHANGED <<setup, listed, resumes, faults, manuals>> /\ CollectorHasRun
        /\ resumes \in Nat /\ faults \in Nat /\ Cycle' = Cycle
    BY ActiveIsInProgress, DocFields DEF Tick, DocInv, counters, Cycle, WorldTyped
  <1>2. CASE CollectorMovesOn
    BY <1>2, MarkersForgotten
  <1>3. CASE /\ queue.phase = "cycle_reset" /\ queue'.phase = "cycle_normal"
             /\ ~(queue'.next > queue.next) /\ setup.topology
             /\ CollectorStarts({r \in DOMAIN runs : runs[r].item = Item(queue)})
    <2>1. Cycle /\ queue.run = 0
      BY <1>1, <1>3 DEF Doc, Phases, ActivePhases, DocInv, PhaseFits
    <2>2. UNCHANGED <<world, starting>>
      <3>1. queue'.phase # "cycle_reset" /\ \A q \in Refreshed : q.phase # "cycle_buffer"
        BY <1>1, <1>3, <2>1 DEF Refreshed
      <3> QED
        BY <2>1, <3>1, TickRuns
    <2>3. queue'.next = queue.next
      BY <1>1, <1>3, TickRuns
    <2>4. lost' = marked /\ marked' = marked
      BY <1>1, <1>3 DEF CollectorStarts, Marked
    <2>5. \A r \in marked : resumes > 0 \/ ~Held(r)
      <3>1. \A r \in marked : /\ r \in DOMAIN runs /\ r # 0 /\ runs[r].kept
                              /\ runs[r].item = Item(queue)
        <4>1. DOMAIN runs = 1..Len(runs) /\ Len(runs) \in Nat
          BY LenProperties DEF WorldTyped
        <4> QED
          BY <1>1, <4>1 DEF Marked
      <3> QED
        BY <1>1, <2>1, <3>1 DEF DocInv, KeepsItsRun
    <2>6. \A r : Held(r)' = Held(r)
      BY <2>2 DEF Held, Proven, world
    <2>7. /\ collecting' \in BOOLEAN /\ bundle' \in {"absent", "partial"}
          /\ collecting' => bundle' = "absent"
      BY <1>3 DEF CollectorStarts
    <2>8. Item(queue') = Item(queue) /\ runs' = runs /\ starting' = 0
      BY <1>1, <2>2, <2>3 DEF Item, world
    <2>9. /\ lost' \subseteq marked' /\ marked' \subseteq DOMAIN runs' /\ setup'.topology
          /\ \A r \in marked' : runs'[r].kept /\ runs'[r].item = Item(queue')
      BY <1>1, <1>3, <2>4, <2>8 DEF Marked
    <2>10. \A r \in lost' : resumes' > 0 \/ ~Held(r)'
      BY <1>1, <2>4, <2>5, <2>6
    <2>11. marked' \ lost' = {}
      BY <2>4
    <2> QED
      BY <2>7, <2>8, <2>9, <2>10, <2>11 DEF Marked, InProgress, Item
  <1>4. CASE /\ collecting' \in {FALSE, collecting} /\ UNCHANGED <<bundle, marked, lost>>
             /\ ~setup.topology \/ ~(queue'.next > queue.next)
    <2>1. setup.topology => queue'.next = queue.next
      BY <1>1, <1>4, TickRuns
    <2>2. CASE UNCHANGED <<world, starting>> /\ setup.topology
      <3>1. RunsGoOn
        BY <2>2 DEF RunsGoOn, world, WorldTyped, Held, Proven
      <3>2. /\ setup' = setup /\ marked' = marked /\ lost' = lost /\ bundle' = bundle
            /\ resumes' \in Nat /\ resumes' >= resumes /\ faults' \in Nat /\ faults' >= faults
            /\ starting' \in {0, starting}
        BY <1>1, <1>4, <2>2
      <3>3. InProgress(queue') => InProgress(queue) /\ queue'.next = queue.next
        BY <1>1, <2>1, <2>2
      <3> QED
        BY <1>4, <3>1, <3>2, <3>3, MarkersStay
    <2>3. ASSUME NEW q \in Refreshed, Starts(q), setup.topology PROVE Marked'
      <3>1. /\ DOMAIN runs = 1..Len(runs) /\ Len(runs) \in Nat
            /\ \A r \in DOMAIN runs : r \in DOMAIN runs' /\ runs'[r] = runs[r]
        <4>1. runs' = Append(runs, [item |-> Item(q), end |-> "going", job |-> "none", kept |-> FALSE])
          BY <2>3 DEF Starts
        <4>2. DOMAIN runs = 1..Len(runs) /\ Len(runs) \in Nat
          BY LenProperties DEF WorldTyped
        <4>3. DOMAIN runs' = 1..(Len(runs) + 1) /\ \A r \in 1..Len(runs) : runs'[r] = runs[r]
          BY <4>1, <4>2 DEF WorldTyped
        <4> QED
          BY <4>2, <4>3
      <3>2. \A r \in DOMAIN runs : Held(r)' = Held(r)
        BY <3>1 DEF Held, Proven
      <3>3. Item(queue') = Item(queue)
        BY <2>1, <2>3 DEF Item
      <3>4. /\ lost' \subseteq marked' /\ marked' \subseteq DOMAIN runs' /\ setup'.topology
            /\ \A r \in marked' : runs'[r].kept /\ runs'[r].item = Item(queue')
        BY <1>1, <1>4, <2>3, <3>1, <3>3 DEF Marked
      <3>5. \A r \in lost' : resumes' > 0 \/ ~Held(r)'
        BY <1>1, <1>4, <3>2 DEF Marked
      <3>6. collecting' \in BOOLEAN /\ (collecting' => collecting)
        <4>1. CASE collecting' = FALSE
          BY <4>1
        <4>2. CASE collecting' = collecting
          BY <4>2, Zenon DEF Marked
        <4> QED
          BY <1>4, <4>1, <4>2
      <3>7. /\ bundle' \in {"absent", "writing", "partial", "listed"}
            /\ \A r \in marked' \ lost' : bundle' \in {"listed", "writing"} \/ faults' > 0
            /\ collecting' => bundle' # "partial" \/ faults' > 0
            /\ collecting' /\ starting' # 0 => bundle' # "absent"
        BY <1>1, <1>4, <3>6 DEF Marked, CollectorHasRun
      <3> QED
        BY <3>4, <3>5, <3>6, <3>7 DEF Marked, InProgress, Item
    <2>4. CASE ~setup.topology
      <3>1. marked' = {} /\ lost' = {} /\ ~collecting
        BY <1>4, <2>4 DEF Marked
      <3>2. collecting' = FALSE
        BY <1>4, <3>1, <2>4 DEF Marked
      <3> QED
        BY <1>1, <1>4, <3>1, <3>2 DEF Marked
    <2> QED
      BY <2>2, <2>3, <2>4, TickRuns
  <1> QED
    BY <1>2, <1>3, <1>4 DEF Tick, CollectorFollows, CollectorStops, topologyVars

\* Whatever the operator, the runner, the registry and the collector do.
LEMMA OthersMark ==
    ASSUME QueueInv, RunsGoOn,
           \/ TickRaises \/ Collects \/ CollectRaises \/ Crash \/ Resume \/ Cancel \/ AppendPromoted
           \/ Promote \/ ManualStarts \/ ManualEnds \/ DirtyCleaned \/ TimePasses
           \/ (\E r \in DOMAIN runs : RunEnds(r) \/ OrphanEnds(r) \/ JobEnds(r))
           \/ UNCHANGED queueVars
    PROVE  Marked'
  <1> USE DEF QueueInv
  <1>1. /\ resumes \in Nat /\ faults \in Nat /\ queue \in Doc
        /\ (resumes' = resumes \/ resumes' = resumes + 1) /\ (faults' = faults \/ faults' = faults + 1)
        /\ setup' = setup /\ starting' \in {0, starting}
    BY DEF WorldTyped, DocInv, TickRaises, Collects, CollectRaises, Crash, Resume, Cancel,
           AppendPromoted, Completes, Stays,
           Promote, ManualStarts, ManualEnds, DirtyCleaned, TimePasses, RunEnds, OrphanEnds,
           JobEnds, EndsAs, queueVars, counters, world
  <1>2. InProgress(queue') => InProgress(queue) /\ queue'.next = queue.next
    <2>1. CASE TickRaises
      BY <1>1, <2>1, ActiveIsInProgress DEF TickRaises, Doc
    <2>2. CASE Resume
      BY <1>1, <2>2 DEF Resume, Resumed, Rewound, InProgress, Doc
    <2>3. CASE Cancel
      BY <1>1, <2>3 DEF Cancel, Completes, InProgress, Doc
    <2>4. CASE AppendPromoted
      BY <1>1, <2>4 DEF AppendPromoted, InProgress, Doc
    <2>5. CASE TimePasses
      BY <1>1, <2>5 DEF TimePasses, InProgress, Doc
    <2>6. CASE queue' = queue
      BY <2>6 DEF InProgress
    <2> QED
      BY <2>1, <2>2, <2>3, <2>4, <2>5, <2>6
      DEF Collects, CollectRaises, Crash, Promote, ManualStarts, ManualEnds, DirtyCleaned,
          RunEnds, OrphanEnds, JobEnds, EndsAs, queueVars
  <1>3. /\ marked' = marked /\ lost' = lost
        /\ collecting' \in {FALSE, collecting}
        /\ bundle' = bundle \/ bundle' \in {"listed", "writing"} \/ (bundle' = "partial" /\ faults' > 0)
    <2>1. CASE Collects
      BY <1>1, <2>1 DEF Collects, CollectionBegins, CollectionEnds, counters, Marked
    <2>2. CASE CollectRaises
      BY <1>1, <2>2 DEF CollectRaises, CollectionFails
    <2>3. CASE TickRaises
      BY <1>1, <2>3 DEF TickRaises, CollectorStops, topologyVars
    <2>4. CASE Crash
      <3>1. marked' = marked /\ lost' = lost /\ collecting' = FALSE /\ faults' = faults + 1
        BY <2>4 DEF Crash, CollectorDies
      <3>2. bundle' = bundle \/ bundle' = "partial"
        BY <2>4 DEF Crash, CollectorDies
      <3>3. collecting' \in {FALSE, collecting}
        BY <3>1
      <3>4. faults' > 0
        BY <1>1, <3>1
      <3> QED
        BY <3>1, <3>2, <3>3, <3>4
    <2>5. CASE UNCHANGED topologyVars
      BY <2>5 DEF topologyVars
    <2> QED
      BY <2>1, <2>2, <2>3, <2>4, <2>5
      DEF Resume, Cancel, AppendPromoted, Promote, ManualStarts, ManualEnds, DirtyCleaned,
          TimePasses, RunEnds, OrphanEnds, JobEnds, EndsAs, queueVars
  <1>4. resumes' \in Nat /\ resumes' >= resumes /\ faults' \in Nat /\ faults' >= faults
    BY <1>1
  <1> QED
    BY <1>1, <1>2, <1>3, <1>4, MarkersStay

-----------------------------------------------------------------------------
(* The theorems. *)

LEMMA QueueInvStarts ==
    ASSUME Init
    PROVE  QueueInv
  <1>1. /\ setup \in Setups /\ listed = 1 /\ queue = NoQueue /\ starting = 0 /\ runs = <<>>
        /\ current = 0 /\ dirty = FALSE /\ manual = FALSE /\ resumes = 0 /\ faults = 0 /\ manuals = 0
        /\ collecting = FALSE /\ bundle = "absent" /\ marked = {} /\ lost = {}
    BY DEF Init, TopologyInit
  <1>2. WorldTyped
    <2>1. setup.items \in Nat /\ 1 <= setup.items
      BY <1>1, QueueAssumption
    <2>2. <<>> \in Seq(Runs) /\ Len(<<>>) = 0 /\ DOMAIN <<>> = {}
      OBVIOUS
    <2>3. 1 \in 1..setup.items /\ 0 \in 0..0 /\ 0 \in Nat
      BY <2>1
    <2>4. starting \in 0..Len(runs) /\ current \in 0..Len(runs) /\ runs \in Seq(Runs)
      BY <1>1, <2>2, <2>3
    <2> QED
      BY <1>1, <2>2, <2>3, <2>4 DEF WorldTyped
  <1>3. /\ queue \in Doc /\ queue.phase = "idle" /\ queue.items = 0 /\ queue.next = 0
        /\ queue.run = 0 /\ queue.done = <<>> /\ queue.skipped = {}
        /\ \A i \in Items : queue.retries[i] = 0 /\ queue.restarts[i] = 0
    <2>1. "idle" \in Phases /\ 0 \in 0..MaxAttempts /\ 0 \in 0..MaxRetries /\ 0 \in 0..MaxRestarts
      BY QueueAssumption DEF Phases
    <2>2. <<>> \in Seq(Nat)
      OBVIOUS
    <2>3. [i \in Items |-> 0] \in [Items -> 0..MaxRetries] /\ [i \in Items |-> 0] \in [Items -> 0..MaxRestarts]
      BY <2>1
    <2> QED
      BY <1>1, <2>1, <2>2, <2>3 DEF Doc, NoQueue
  <1>4. ~InProgress(queue) /\ DOMAIN runs = {} /\ Len(runs) = 0
    BY <1>1, <1>3 DEF InProgress
  <1>5. Cursor(queue) /\ PhaseFits(queue) /\ OwnRun(queue) /\ KeepsItsRun(queue)
    BY <1>1, <1>3, <1>4 DEF Cursor, PhaseFits, OwnRun, KeepsItsRun, InProgress
  <1>6. Done(queue)
    <2>1. DOMAIN queue.done = {} /\ Len(queue.done) = 0
      BY <1>3
    <2>2. SettledItems(queue) = {}
      BY <2>1 DEF SettledItems
    <2>3. 1..0 = {}
      OBVIOUS
    <2> QED
      BY <1>3, <2>1, <2>2, <2>3, FS_EmptySet DEF Done
  <1>7. Accounted(queue)
    <2>1. \A i : RunsOf(i) = {}
      BY <1>4 DEF RunsOf
    <2>2. \A i \in Items : Spent(queue, i) \in Nat
      BY <1>2, <1>3, SpentIsNat
    <2>3. \A i : Cardinality(RunsOf(i)) = 0
      BY <2>1, FS_EmptySet
    <2>4. \A i \in Items : Cardinality(RunsOf(i)) <= 1 + Spent(queue, i)
      BY <2>2, <2>3
    <2> QED
      BY <1>4, <2>4 DEF Accounted
  <1>8. Marked
    BY <1>1 DEF Marked
  <1> QED
    BY <1>2, <1>3, <1>5, <1>6, <1>7, <1>8 DEF QueueInv, DocInv

\* All steps but those that start a queue or a run, or record one.
RunsOnly ==
    \/ TickRaises \/ Collects \/ CollectRaises \/ Crash \/ Resume \/ Cancel \/ AppendPromoted
    \/ Promote \/ ManualStarts \/ ManualEnds \/ DirtyCleaned \/ TimePasses
    \/ (\E r \in DOMAIN runs : RunEnds(r) \/ OrphanEnds(r) \/ JobEnds(r))
    \/ UNCHANGED queueVars

LEMMA StepsOfQueue ==
    ASSUME [Next]_queueVars
    PROVE  Tick \/ Start \/ Records \/ RunsOnly
  BY DEF Next, Operator, Runner, RunsOnly

LEMMA RunsOnlyKeeps ==
    ASSUME QueueInv, RunsOnly
    PROVE  WorldTyped' /\ DocInv(queue)' /\ RunsGoOn
  BY TickRaisesKeeps, OutsideKeeps, CrashKeeps, ResumeKeeps, FileOnlyKeeps, RunnerKeeps DEF RunsOnly

LEMMA QueueInvKept ==
    ASSUME QueueInv, [Next]_queueVars
    PROVE  QueueInv'
  <1>1. CASE Tick
    BY <1>1, TickKeeps, TickMarks DEF QueueInv
  <1>2. CASE Start
    BY <1>2, StartKeeps, MarkersForgotten DEF QueueInv, Start
  <1>3. CASE Records
    BY <1>3, RecordsKeep, RecordsMarks DEF QueueInv
  <1>4. CASE RunsOnly
    BY <1>4, RunsOnlyKeeps, OthersMark DEF QueueInv, RunsOnly
  <1> QED
    BY <1>1, <1>2, <1>3, <1>4, StepsOfQueue

\* The invariant the other theorems rest on: what the file says, what has become
\* of the runs and what the collector has left fit together after every step of
\* the worker, the operator, the runner and a crash.
THEOREM QueueSafety == Spec => []QueueInv
  <1>1. Init => QueueInv
    BY QueueInvStarts
  <1>2. QueueInv /\ [Next]_queueVars => QueueInv'
    BY QueueInvKept
  <1> QED
    BY <1>1, <1>2, PTL DEF Spec

\* Every document the queue writes is one LiveQueueState reads back: the cursor
\* is inside the list, no count exceeds its limit, at most one run per settled
\* scenario is listed as done.
THEOREM QueueTypes == Spec => []TypeOK
  <1>1. QueueInv /\ worker \in BOOLEAN => TypeOK
    <2> SUFFICES ASSUME QueueInv, worker \in BOOLEAN PROVE TypeOK
      OBVIOUS
    <2> USE DEF QueueInv, DocInv
    <2>1. /\ queue \in Doc /\ listed \in Nat /\ listed <= MaxItems /\ MaxItems \in Nat
          /\ queue.items \in Nat /\ queue.next \in Nat
      BY ListIsBounded, DocFields, QueueAssumption
    <2>2. queue.items \in 0..MaxItems /\ queue.next \in 0..queue.items
      BY <2>1 DEF Cursor
    <2>3. queue.run \in 0..Len(runs) /\ starting \in 0..Len(runs) /\ current \in 0..Len(runs)
      BY DEF OwnRun, WorldTyped
    <2>4. \A r \in DOMAIN runs : runs[r] \in Runs
      BY ElementOfSeq, LenProperties DEF WorldTyped
    <2>5. queue.skipped \subseteq 1..queue.items
      BY <2>1, <2>2 DEF Cursor
    <2>6. Len(queue.done) <= queue.next
      <3>1. SettledItems(queue) \subseteq 1..queue.next
        BY DEF Done
      <3>2. IsFiniteSet(1..queue.next) /\ Cardinality(1..queue.next) = queue.next
        <4> DEFINE n == queue.next
        <4>1. n \in Nat
          BY <2>1
        <4> HIDE DEF n
        <4>2. /\ IsFiniteSet(1..n)
              /\ Cardinality(1..n) = IF 1 > n THEN 0 ELSE n - 1 + 1
          BY <4>1, FS_Interval
        <4>3. Cardinality(1..n) = n
          BY <4>1, <4>2
        <4> QED
          BY <4>2, <4>3 DEF n
      <3>3. Cardinality(SettledItems(queue)) <= Cardinality(1..queue.next)
        BY <3>1, <3>2, FS_Subset
      <3> QED
        BY <3>2, <3>3 DEF Done
    <2>7. {i \in Items : queue.retries[i] + queue.restarts[i] > 0} \subseteq 1..queue.items
      BY <2>1 DEF Cursor, Items
    <2>8. /\ queue.phase \in Phases /\ queue.attempts \in 0..MaxAttempts
          /\ queue.retries \in [Items -> 0..MaxRetries]
          /\ queue.restarts \in [Items -> 0..MaxRestarts] /\ queue.waiting \in BOOLEAN
      BY <2>1 DEF Doc
    <2>9. {queue.waiting, worker, dirty, manual, collecting} \subseteq BOOLEAN
      BY <2>8, Zenon DEF WorldTyped, Marked
    <2> QED
      BY <2>2, <2>3, <2>4, <2>5, <2>6, <2>7, <2>8, <2>9 DEF TypeOK, Marked
  <1>2. Init => worker \in BOOLEAN
    BY DEF Init
  <1>3. worker \in BOOLEAN /\ [Next]_queueVars => (worker \in BOOLEAN)'
    <2> SUFFICES ASSUME worker \in BOOLEAN, [Next]_queueVars PROVE worker' \in {worker, TRUE, FALSE}
      OBVIOUS
    <2>1. CASE Tick \/ Start \/ Records
      BY <2>1 DEF Tick, Start, Records, EnsuresWorker
    <2>2. CASE RunsOnly
      BY <2>2 DEF RunsOnly, TickRaises, Collects, CollectRaises, Crash, Resume, Cancel,
         AppendPromoted, EnsuresWorker, Promote, ManualStarts, ManualEnds, DirtyCleaned,
         TimePasses, RunEnds, OrphanEnds, JobEnds, EndsAs, queueVars
    <2> QED
      BY <2>1, <2>2, StepsOfQueue
  <1> QED
    BY <1>1, <1>2, <1>3, QueueSafety, PTL DEF Spec

\* Whatever is retried, restarted, resumed or lost: each scenario behind the
\* cursor was either skipped or is done by one run of its own, accepted and, in
\* a pass that captures, with its capture complete.
THEOREM DoneRunsAreProven == Spec => []OnlyProvenRunsAreDone
  <1>1. QueueInv => OnlyProvenRunsAreDone
    BY DEF QueueInv, DocInv, Done, SettledItems, OnlyProvenRunsAreDone
  <1> QED
    BY <1>1, QueueSafety, PTL

\* No scenario is injected more often than its retries and restarts on file, the
\* operator's resumes and the faults of the process account for.
THEOREM ReRunsAreCounted == Spec => []ReRunsAreAccountedFor
  <1>1. QueueInv => ReRunsAreAccountedFor
    <2> SUFFICES ASSUME QueueInv, NEW i \in Items
                 PROVE  Cardinality({r \in DOMAIN runs : runs[r].item = i}) <=
                          1 + queue.retries[i] + queue.restarts[i] + faults
                            + resumes * (IF Cycle THEN MaxRestarts + 1 ELSE 1)
      BY DEF ReRunsAreAccountedFor
    <2>1. Cardinality(RunsOf(i)) <= 1 + Spent(queue, i)
      BY DEF QueueInv, DocInv, Accounted
    <2>2. /\ queue.retries[i] \in Nat /\ queue.restarts[i] \in Nat /\ faults \in Nat
          /\ resumes * Granted \in Nat /\ Cardinality(RunsOf(i)) \in Nat
      BY DocFields, Constants, RunsAreCounted DEF QueueInv, DocInv, WorldTyped
    <2>3. Cardinality(RunsOf(i)) <= 1 + queue.retries[i] + queue.restarts[i] + faults + resumes * Granted
      BY <2>1, <2>2 DEF Spent
    <2> QED
      BY <2>3 DEF RunsOf, Granted
  <1> QED
    BY <1>1, QueueSafety, PTL

\* The v2 queue starts no second run of a scenario while a recorded run of it is
\* accepted and being captured, or captured.
THEOREM AcceptedRunsStand == Spec => AcceptedRunIsNotRepeated
  <1>1. QueueInv /\ [Next]_queueVars =>
          [ ~Cycle /\ Len(runs') > Len(runs) =>
              \A r \in DOMAIN runs :
                  runs[r].item = runs'[Len(runs')].item /\ runs[r].kept /\ Proven(r) =>
                      runs[r].job \in {"none", "failed"} ]_queueVars
    <2> SUFFICES ASSUME QueueInv, [Next]_queueVars, ~Cycle, Len(runs') > Len(runs),
                        NEW r \in DOMAIN runs, runs[r].item = runs'[Len(runs')].item,
                        runs[r].kept, Proven(r)
                 PROVE  runs[r].job \in {"none", "failed"}
      OBVIOUS
    <2> USE DEF QueueInv
    <2>1. /\ runs \in Seq(Runs) /\ DOMAIN runs = 1..Len(runs) /\ Len(runs) \in Nat
          /\ runs[r] \in Runs /\ r # 0
      <3>1. runs \in Seq(Runs) /\ DOMAIN runs = 1..Len(runs) /\ Len(runs) \in Nat
        BY LenProperties DEF WorldTyped
      <3> QED
        BY <3>1, ElementOfSeq
    <2>2. ASSUME RunsOnly PROVE FALSE
      <3>1. RunsGoOn
        BY <2>2, RunsOnlyKeeps
      <3>2. DOMAIN runs' = 1..Len(runs') /\ Len(runs') \in Nat
        BY <3>1, LenProperties DEF RunsGoOn
      <3>3. 1..Len(runs') = 1..Len(runs)
        BY <2>1, <3>1, <3>2 DEF RunsGoOn
      <3>4. Len(runs') \in 1..Len(runs')
        BY <2>1, <3>2
      <3>5. Len(runs') \in 1..Len(runs)
        BY <3>3, <3>4
      <3> QED
        BY <2>1, <3>2, <3>5
    <2>3. ASSUME Start PROVE FALSE
      <3>1. Len(runs') = 0
        BY <2>3 DEF Start
      <3> QED
        BY <2>1, <3>1
    <2>4. ASSUME Records PROVE FALSE
      <3>1. DOMAIN runs' = DOMAIN runs /\ Len(runs') = Len(runs)
        BY <2>1, <2>4 DEF Records
      <3> QED
        BY <2>1, <3>1
    <2>5. CASE Tick
      <3>1. ~UNCHANGED <<world, starting>>
        BY <2>1 DEF world
      <3>2. PICK q \in Refreshed : Starts(q) /\ q.run = 0
        BY <2>5, <3>1, TickRuns
      <3>3. DocInv(q) /\ InProgress(q)
        BY <2>5, ActiveIsInProgress, RefreshedKeeps DEF Tick
      <3>4. runs'[Len(runs')].item = Item(q)
        <4> DEFINE new == [item |-> Item(q), end |-> "going", job |-> "none", kept |-> FALSE]
        <4>1. runs' = Append(runs, new)
          BY <3>2 DEF Starts
        <4>2. new.item = Item(q)
          OBVIOUS
        <4> HIDE DEF new
        <4>3. Append(runs, new)[Len(Append(runs, new))] = new
          BY <2>1
        <4> QED
          BY <4>1, <4>2, <4>3
      <3>5. ~Held(r)
        BY <2>1, <3>2, <3>3, <3>4 DEF DocInv, KeepsItsRun
      <3> QED
        BY <2>1, <3>5 DEF Held, Runs
    <2> QED
      BY <2>2, <2>3, <2>4, <2>5, StepsOfQueue
  <1> QED
    BY <1>1, QueueSafety, PTL DEF Spec, AcceptedRunIsNotRepeated

\* The case of a good run has the snapshots of its own cycle unless the operator
\* resumed, and the manifest of any case describes its snapshots, but for those of
\* a collection that is going on, unless a fault struck: for any number of
\* restarts, with collections and exports in any order.
THEOREM CasesHaveTheirTopology == Spec => CaseHasItsTopology
  <1>1. QueueInv /\ [Next]_queueVars =>
          [ \A r \in DOMAIN runs \cap DOMAIN runs' :
              /\ runs[r].job = "pending" /\ runs'[r].job = "completed"
              /\ r \in marked
              => IF r \in lost THEN resumes > 0 \/ ~Proven(r)
                 ELSE bundle \in {"listed", "writing"} \/ faults > 0 ]_queueVars
    BY DEF QueueInv, Marked, Held, Proven, WorldTyped
  <1> QED
    BY <1>1, QueueSafety, PTL DEF Spec, CaseHasItsTopology

-----------------------------------------------------------------------------
(* The queue implements the sequence of scenarios it promises. *)

\* The abstract state, as the refinement mapping has it.
Standing == CASE Active -> "active"
              [] queue.phase = "completed" -> "closed"
              [] OTHER -> queue.phase
Outcomes == [k \in 1..queue.next |-> IF k \in queue.skipped THEN "skipped" ELSE "done"]

LEMMA StandingIs ==
    /\ queue.phase \in ActivePhases => Standing = "active"
    /\ queue.phase = "completed" => Standing = "closed"
    /\ queue.phase = "paused" => Standing = "paused"
    /\ queue.phase = "idle" => Standing = "idle"
  BY DEF Standing, Active, ActivePhases

LEMMA OutcomesAre ==
    ASSUME queue.next \in Nat
    PROVE  /\ Outcomes \in Seq({"done", "skipped"}) /\ Len(Outcomes) = queue.next
           /\ DOMAIN Outcomes = 1..queue.next
  <1>1. Outcomes \in [1..queue.next -> {"done", "skipped"}]
    BY DEF Outcomes
  <1>2. \A n \in Nat : [1..n -> {"done", "skipped"}] \subseteq Seq({"done", "skipped"})
    BY SeqDef
  <1>3. Outcomes \in Seq({"done", "skipped"}) /\ DOMAIN Outcomes = 1..queue.next
    BY <1>1, <1>2
  <1>4. \A n \in Nat, s \in Seq({"done", "skipped"}) : DOMAIN s = 1..n => Len(s) = n
    BY LenProperties
  <1> QED
    BY <1>3, <1>4

\* How a tick leaves the list.
LEMMA TickSettles ==
    ASSUME QueueInv, Tick
    PROVE  /\ queue'.items \in Nat /\ queue.items <= queue'.items
           /\ \/ /\ queue'.next = queue.next /\ queue'.skipped = queue.skipped
                 /\ queue'.phase \in ActivePhases \cup {"paused"}
              \/ /\ queue'.next = queue.next + 1
                 /\ queue'.skipped \in {queue.skipped, queue.skipped \cup {Item(queue)}}
                 /\ IF queue.next + 1 >= queue'.items THEN queue'.phase = "completed"
                    ELSE queue'.phase \in ActivePhases
  <1> USE DEF QueueInv
  <1>1. InProgress(queue) /\ queue \in Doc /\ queue.items \in Nat
    BY ActiveIsInProgress, DocFields DEF Tick, DocInv
  <1>2. CASE Pauses(queue)
    BY <1>1, <1>2 DEF Pauses, Doc
  <1>3. ASSUME NEW q \in Refreshed, IF Cycle THEN TickCycle(q) ELSE TickV2(q)
        PROVE  /\ queue'.items = q.items
               /\ \/ /\ queue'.next = q.next /\ queue'.skipped = q.skipped
                     /\ queue'.phase \in ActivePhases \cup {"paused"}
                  \/ /\ queue'.next = q.next + 1
                     /\ queue'.skipped \in {q.skipped, q.skipped \cup {Item(q)}}
                     /\ IF q.next + 1 >= q.items THEN queue'.phase = "completed"
                        ELSE queue'.phase \in ActivePhases
    <2> DEFINE Same == /\ queue'.items = q.items
                       /\ queue'.next = q.next /\ queue'.skipped = q.skipped
                       /\ queue'.phase \in ActivePhases \cup {"paused"}
               Onward == /\ queue'.items = q.items /\ queue'.next = q.next + 1
                         /\ queue'.skipped \in {q.skipped, q.skipped \cup {Item(q)}}
                         /\ IF q.next + 1 >= q.items THEN queue'.phase = "completed"
                            ELSE queue'.phase \in ActivePhases
    <2>1. q \in Doc /\ q.phase \in ActivePhases /\ ~(q.next >= q.items)
      <3>1. DocInv(q) /\ InProgress(q) /\ q.phase = queue.phase
        BY <1>1, RefreshedKeeps
      <3>2. q.next \in Nat /\ q.items \in Nat
        BY <3>1, DocFields DEF DocInv
      <3> QED
        BY <3>1, <3>2 DEF DocInv, Cursor, Tick, Active
    <2>2. ASSUME Pauses(q) \/ Waits(q) \/ Recheck(q) PROVE Same
      BY <2>1, <2>2 DEF Pauses, Waits, Recheck, Doc
    <2>3. ASSUME NEW d \in Doc, Settled(q, d), d.next = q.next + 1, d.items = q.items,
                 d.skipped \in {q.skipped, q.skipped \cup {Item(q)}}, d.phase \in ActivePhases
          PROVE  Onward
      BY <2>3 DEF Settled, Completes, Doc
    <2>4. ASSUME Starts(q) PROVE Same
      BY <2>1, <2>4 DEF Starts
    <2>5. ASSUME Cycle, Restarts(q) PROVE Same
      BY <2>1, <2>2, <2>5 DEF Restarts, Rewound, Doc, ActivePhases
    <2> HIDE DEF Same, Onward
    <2>6. CASE Cycle
      <3>1. CASE TickReset(q)
        BY <2>1, <2>2, <2>6, <3>1 DEF TickReset, Doc, Same, ActivePhases
      <3>2. CASE TickNormal(q)
        BY <2>1, <2>2, <2>5, <2>6, <3>2 DEF TickNormal, Doc, Same, ActivePhases
      <3>3. CASE TickBuffer(q)
        BY <2>1, <2>2, <2>4, <2>5, <2>6, <3>3 DEF TickBuffer, Same
      <3>4. CASE TickCycleRunning(q)
        BY <2>1, <2>2, <2>5, <2>6, <3>4 DEF TickCycleRunning, Doc, Same, ActivePhases
      <3>5. CASE TickCooldown(q)
        BY <2>1, <2>2, <2>6, <3>5 DEF TickCooldown, Doc, Same, ActivePhases
      <3>6. CASE TickCycleCapture(q)
        BY ZenonT(60), <2>1, <2>2, <2>6, <3>6
        DEF TickCycleCapture, Settled, Completes, Rewound, Doc, Same, Onward, ActivePhases
      <3> QED
        BY <1>3, <2>6, <3>1, <3>2, <3>3, <3>4, <3>5, <3>6 DEF TickCycle, Same, Onward
    <2>7. CASE ~Cycle
      <3>1. CASE TickStarts(q)
        <4>1. ASSUME Settled(q, Skipped(q)) PROVE Onward
          BY <2>1, <4>1 DEF Settled, Skipped, Completes, Doc, Onward
        <4> QED
          BY <2>1, <2>2, <2>4, <3>1, <4>1
          DEF TickStarts, GateIsDirty, GateRaises, GateIsClean, Same, Onward
      <3>2. CASE TickFollows(q)
        BY ZenonT(40), <2>1, <2>2, <2>7, <3>2 DEF TickFollows, Retried, Doc, Same, ActivePhases
      <3>3. CASE TickCapture(q)
        BY ZenonT(40), <2>1, <2>2, <2>7, <3>3 DEF TickCapture, Settled, Completes, Doc, Same, Onward, ActivePhases
      <3>4. CASE TickCleanWindow(q)
        BY <2>1, <2>2, <2>7, <3>4 DEF TickCleanWindow, Doc, Same, ActivePhases
      <3> QED
        BY <1>3, <2>7, <3>1, <3>2, <3>3, <3>4 DEF TickV2, Same, Onward
    <2> QED
      BY <2>6, <2>7
  <1>4. ASSUME NEW q \in Refreshed
        PROVE  /\ q.next = queue.next /\ q.skipped = queue.skipped /\ Item(q) = Item(queue)
               /\ q.items \in Nat /\ queue.items <= q.items
    BY <1>1, RefreshedKeeps, DocFields DEF DocInv, Item
  <1> QED
    BY <1>1, <1>2, <1>3, <1>4 DEF Tick

\* One more scenario is settled.
LEMMA OutcomeAppended ==
    ASSUME queue.next \in Nat, queue'.next = queue.next + 1, queue.skipped \subseteq 1..queue.next,
           queue'.skipped \in {queue.skipped, queue.skipped \cup {Item(queue)}}
    PROVE  /\ Len(Outcomes') = queue.next + 1
           /\ \E outcome \in {"done", "skipped"} : Outcomes' = Append(Outcomes, outcome)
  <1> DEFINE n == queue.next
             o == IF n + 1 \in queue'.skipped THEN "skipped" ELSE "done"
             t == Append(Outcomes, o)
  <1>1. o \in {"done", "skipped"}
    OBVIOUS
  <1>2. /\ Outcomes \in Seq({"done", "skipped"}) /\ Len(Outcomes) = n
        /\ \A k \in 1..n : Outcomes[k] = IF k \in queue.skipped THEN "skipped" ELSE "done"
    BY OutcomesAre DEF Outcomes
  <1>3. /\ Outcomes' \in Seq({"done", "skipped"}) /\ Len(Outcomes') = n + 1
        /\ \A k \in 1..(n + 1) :
             Outcomes'[k] = IF k \in queue'.skipped THEN "skipped" ELSE "done"
    <2>1. /\ Outcomes' \in Seq({"done", "skipped"}) /\ Len(Outcomes') = queue'.next
      <3>1. queue'.next \in Nat
        OBVIOUS
      <3>2. Outcomes' \in [1..queue'.next -> {"done", "skipped"}]
        BY DEF Outcomes
      <3>3. \A m \in Nat : [1..m -> {"done", "skipped"}] \subseteq Seq({"done", "skipped"})
        BY SeqDef
      <3>4. \A m \in Nat, s \in Seq({"done", "skipped"}) : DOMAIN s = 1..m => Len(s) = m
        BY LenProperties
      <3>5. Outcomes' \in Seq({"done", "skipped"}) /\ DOMAIN Outcomes' = 1..queue'.next
        BY <3>1, <3>2, <3>3
      <3> QED
        BY <3>1, <3>4, <3>5
    <2> QED
      BY <2>1 DEF Outcomes
  <1>4. \A k \in 1..n : k \in queue'.skipped <=> k \in queue.skipped
    BY DEF Item
  <1> HIDE DEF o
  <1>5. /\ t \in Seq({"done", "skipped"}) /\ Len(t) = n + 1 /\ t[n + 1] = o
        /\ \A k \in 1..n : t[k] = Outcomes[k]
    BY <1>1, <1>2, AppendProperties
  <1>6. \A k \in 1..(n + 1) : Outcomes'[k] = t[k]
    <2>1. ASSUME NEW k \in 1..n PROVE Outcomes'[k] = t[k]
      <3>1. k \in 1..(n + 1)
        OBVIOUS
      <3>2. Outcomes'[k] = IF k \in queue.skipped THEN "skipped" ELSE "done"
        BY <1>3, <1>4, <3>1
      <3> QED
        BY <1>2, <1>5, <3>2
    <2>2. Outcomes'[n + 1] = t[n + 1]
      BY <1>3, <1>5 DEF o
    <2>3. \A k \in 1..(n + 1) : k \in 1..n \/ k = n + 1
      OBVIOUS
    <2> QED
      BY <2>1, <2>2, <2>3
  <1> HIDE DEF t
  <1>7. Outcomes' = t
    BY <1>3, <1>5, <1>6, SeqEqual
  <1> QED
    BY <1>1, <1>3, <1>7 DEF t

\* A step that settles nothing leaves the outcomes as they are.
LEMMA OutcomesStay ==
    ASSUME queue'.next = queue.next, queue'.skipped = queue.skipped
    PROVE  Outcomes' = Outcomes
  BY DEF Outcomes

LEMMA QueueStartsSequence ==
    ASSUME Init
    PROVE  Sequence!Init
  <1>1. queue.phase = "idle" /\ queue.items = 0 /\ queue.next = 0
    BY DEF Init, NoQueue
  <1>2. Standing = "idle"
    BY <1>1, StandingIs
  <1>3. Outcomes = <<>>
    <2>1. Outcomes \in Seq({"done", "skipped"}) /\ Len(Outcomes) = 0
      BY <1>1, OutcomesAre
    <2> QED
      BY <2>1, EmptySeq
  <1> QED
    BY <1>1, <1>2, <1>3 DEF Sequence!Init, Standing, Outcomes

\* The abstract steps in the terms of the queue.
SettlesNext ==
    /\ Standing = "active" /\ queue'.items \in Nat /\ queue'.items >= queue.items
    /\ \E outcome \in {"done", "skipped"} : Outcomes' = Append(Outcomes, outcome)
    /\ Len(Outcomes') <= queue'.items
    /\ Standing' = IF Len(Outcomes') = queue'.items THEN "closed" ELSE "active"
GrowsOrPauses ==
    /\ Standing \notin {"idle", "closed"} /\ queue'.items \in Nat /\ queue'.items >= queue.items
    /\ Standing' = Standing \/ (Standing = "active" /\ Standing' = "paused")
    /\ Outcomes' = Outcomes
Stutters == Standing' = Standing /\ queue'.items = queue.items /\ Outcomes' = Outcomes

LEMMA AbstractSteps ==
    /\ SettlesNext => Sequence!Settle
    /\ GrowsOrPauses => Sequence!Extend \/ Sequence!Pause
    /\ Stutters => UNCHANGED Sequence!vars
  <1>1. SettlesNext => Sequence!Settle
    BY DEF SettlesNext, Sequence!Settle, Sequence!Grow, Standing, Outcomes
  <1>2. GrowsOrPauses => Sequence!Extend \/ Sequence!Pause
    BY DEF GrowsOrPauses, Sequence!Extend, Sequence!Pause, Sequence!Grow, Standing, Outcomes
  <1>3. Stutters => UNCHANGED Sequence!vars
    BY DEF Stutters, Sequence!vars, Standing, Outcomes
  <1> QED
    BY <1>1, <1>2, <1>3

LEMMA QueueStepsSequence ==
    ASSUME QueueInv, [Next]_queueVars
    PROVE  [Sequence!Next]_(Sequence!vars)
  <1> USE DEF QueueInv, DocInv
  <1>1. /\ queue \in Doc /\ queue.next \in Nat /\ queue.items \in Nat /\ queue.items <= listed
        /\ listed \in Nat /\ queue.skipped \subseteq 1..queue.next
    BY ListIsBounded, DocFields DEF Cursor
  <1>2. setup' = setup /\ ActivePhases' = ActivePhases
    <2>1. setup' = setup
      BY StepsOfQueue
      DEF RunsOnly, Tick, Start, Records, TickRaises, Collects, CollectRaises, Crash, Resume, Cancel,
          AppendPromoted, Promote, ManualStarts, ManualEnds, DirtyCleaned, TimePasses, RunEnds,
          OrphanEnds, JobEnds, EndsAs, queueVars
    <2> QED
      BY SMTT(30), <2>1 DEF ActivePhases, Cycle
  <1>3. /\ queue'.phase \in ActivePhases => Standing' = "active"
        /\ queue'.phase = "completed" => Standing' = "closed"
        /\ queue'.phase = "paused" => Standing' = "paused"
        /\ queue'.phase = "idle" => Standing' = "idle"
    BY <1>2 DEF Standing, Active, ActivePhases
  <1>4. CASE Tick
    <2>1. Standing = "active"
      BY <1>4, StandingIs DEF Tick, Active
    <2>2. queue'.items \in Nat /\ queue'.items >= queue.items
      BY <1>1, <1>4, TickSettles
    <2>3. CASE /\ queue'.next = queue.next /\ queue'.skipped = queue.skipped
               /\ queue'.phase \in ActivePhases \cup {"paused"}
      <3>1. GrowsOrPauses
        BY <1>3, <2>1, <2>2, <2>3, OutcomesStay DEF GrowsOrPauses
      <3> QED
        BY <3>1, AbstractSteps DEF Sequence!Next
    <2>4. CASE /\ queue'.next = queue.next + 1
               /\ queue'.skipped \in {queue.skipped, queue.skipped \cup {Item(queue)}}
               /\ IF queue.next + 1 >= queue'.items THEN queue'.phase = "completed"
                  ELSE queue'.phase \in ActivePhases
      <3>1. Len(Outcomes') = queue.next + 1
        BY <1>1, <2>4, OutcomeAppended
      <3>2. \E outcome \in {"done", "skipped"} : Outcomes' = Append(Outcomes, outcome)
        BY <1>1, <2>4, OutcomeAppended
      <3>3. queue.next < queue.items
        BY <1>4, ActiveIsInProgress DEF Tick, Cursor
      <3>4. SettlesNext
        BY <1>1, <1>3, <2>1, <2>2, <2>4, <3>1, <3>2, <3>3 DEF SettlesNext
      <3> QED
        BY <3>4, AbstractSteps DEF Sequence!Next
    <2> QED
      BY <1>4, <2>3, <2>4, TickSettles
  <1>5. CASE Start
    <2>1. PICK n \in 1..listed :
            queue' = [NoQueue EXCEPT !.phase = IF Cycle THEN "cycle_reset" ELSE "running", !.items = n]
      <3>1. PICK n \in (IF Cycle THEN 1..listed ELSE {listed}) :
              queue' = [NoQueue EXCEPT !.phase = IF Cycle THEN "cycle_reset" ELSE "running", !.items = n]
        BY <1>5 DEF Start
      <3>2. listed \in 1..listed
        BY ListIsBounded DEF WorldTyped
      <3> QED
        BY <3>1, <3>2
    <2>2. queue'.phase \in ActivePhases /\ queue'.items = n /\ queue'.next = 0
      BY <2>1 DEF NoQueue, ActivePhases
    <2>3. Standing \in {"idle", "closed"} /\ Standing' = "active"
      BY <1>3, <1>5, <2>2, StandingIs DEF Start
    <2>4. Outcomes' = <<>>
      BY <2>2 DEF Outcomes
    <2>5. queue'.items \in Nat \ {0}
      BY <1>1, <2>2
    <2>6. Sequence!Begin
      BY <2>3, <2>4, <2>5 DEF Sequence!Begin, Standing, Outcomes
    <2> QED
      BY <2>6 DEF Sequence!Next
  <1>6. CASE Records
    <2>1. queue.phase \in ActivePhases
      BY <1>6 DEF Records, OwnRun, ActivePhases
    <2>2. /\ queue'.phase \in ActivePhases /\ queue'.items = queue.items
          /\ queue'.next = queue.next /\ queue'.skipped = queue.skipped
      BY <1>1, <1>6 DEF Records, Doc, ActivePhases
    <2>3. Stutters
      BY <1>3, <2>1, <2>2, StandingIs, OutcomesStay DEF Stutters
    <2> QED
      BY <2>3, AbstractSteps
  <1>8. CASE Resume
    <2>1. /\ queue'.phase \in ActivePhases /\ queue'.items = queue.items
          /\ queue'.next = queue.next /\ queue'.skipped = queue.skipped
      <3>1. queue \in Doc /\ queue' \in Resumed
        BY <1>1, <1>8 DEF Resume
      <3>2. CASE Cycle
        BY <3>1, <3>2 DEF Resumed, Rewound, Doc, ActivePhases
      <3>3. CASE ~Cycle
        BY <3>1, <3>3 DEF Resumed, Doc, ActivePhases
      <3> QED
        BY <3>2, <3>3
    <2>2. Standing = "paused" /\ Standing' = "active" /\ Outcomes' = Outcomes
      BY <1>3, <1>8, <2>1, StandingIs, OutcomesStay DEF Resume
    <2>3. Sequence!Resume
      BY <2>1, <2>2 DEF Sequence!Resume, Standing, Outcomes
    <2> QED
      BY <2>3 DEF Sequence!Next
  <1>9. CASE Cancel
    <2>1. /\ queue'.phase = "completed" /\ queue'.items = queue.items
          /\ queue'.next = queue.next /\ queue'.skipped = queue.skipped
      BY <1>1, <1>9 DEF Cancel, Completes, Doc
    <2>2. Standing = "paused" /\ Standing' = "closed" /\ Outcomes' = Outcomes
      BY <1>3, <1>9, <2>1, StandingIs, OutcomesStay DEF Cancel
    <2>3. Sequence!Cancel
      BY <2>1, <2>2 DEF Sequence!Cancel, Standing, Outcomes
    <2> QED
      BY <2>3 DEF Sequence!Next
  <1>10. CASE AppendPromoted
    <2>1. /\ queue'.phase = queue.phase /\ queue'.items = listed
          /\ queue'.next = queue.next /\ queue'.skipped = queue.skipped
          /\ queue.phase \in ActivePhases \cup {"paused"}
      BY <1>1, <1>10 DEF AppendPromoted, Doc, Phases
    <2>2. Standing' = Standing /\ Standing \in {"active", "paused"}
      BY <1>3, <2>1, StandingIs
    <2>3. GrowsOrPauses
      BY <1>1, <2>1, <2>2, OutcomesStay DEF GrowsOrPauses
    <2> QED
      BY <2>3, AbstractSteps DEF Sequence!Next
  <1>11. CASE TimePasses \/ queue' = queue
    <2>1. /\ queue'.phase = queue.phase /\ queue'.items = queue.items
          /\ queue'.next = queue.next /\ queue'.skipped = queue.skipped
      BY <1>1, <1>11 DEF TimePasses, Doc
    <2>2. Standing' = Standing
      BY <1>1, <1>3, <2>1, StandingIs DEF Doc, Phases
    <2>3. Stutters
      BY <2>1, <2>2, OutcomesStay DEF Stutters
    <2> QED
      BY <2>3, AbstractSteps
  <1>7. CASE TickRaises
    <2>1. CASE queue' = [queue EXCEPT !.phase = "paused"]
      <3>1. /\ queue'.phase = "paused" /\ queue'.items = queue.items
            /\ queue'.next = queue.next /\ queue'.skipped = queue.skipped
        BY <1>1, <2>1 DEF Doc
      <3>2. Standing = "active" /\ Standing' = "paused"
        BY <1>3, <1>7, <3>1, StandingIs DEF TickRaises, Active
      <3>3. GrowsOrPauses
        BY <1>1, <3>1, <3>2, OutcomesStay DEF GrowsOrPauses
      <3> QED
        BY <3>3, AbstractSteps DEF Sequence!Next
    <2>2. CASE queue' = queue
      BY SMTT(40), <1>11, <2>2
    <2> QED
      BY <1>7, <2>1, <2>2 DEF TickRaises
  <1>12. CASE RunsOnly
    BY <1>7, <1>8, <1>9, <1>10, <1>11, <1>12
    DEF RunsOnly, Collects, CollectRaises, Crash, Promote, ManualStarts, ManualEnds, DirtyCleaned,
        RunEnds, OrphanEnds, JobEnds, EndsAs, queueVars
  <1> QED
    BY <1>4, <1>5, <1>6, <1>12, StepsOfQueue

\* Through all phases, retries, restarts, resumes and faults the queue is the
\* sequence ScenarioSequence describes: scenarios settled one at a time, in order,
\* only while it is active, and never taken back.
THEOREM QueueRefinesSequence == Spec => ImplementsSequence
  <1>1. Init => Sequence!Init
    BY QueueStartsSequence
  <1>2. QueueInv /\ [Next]_queueVars => [Sequence!Next]_(Sequence!vars)
    BY QueueStepsSequence
  <1> QED
    BY <1>1, <1>2, QueueSafety, PTL DEF Spec, ImplementsSequence, Sequence!Spec
=============================================================================
