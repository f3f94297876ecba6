------------------------------ MODULE CleanWindow ------------------------------
(***************************************************************************)
(* The clean-window check (backend/app/live_probes.py): what the directory *)
(* of a run says about when the run had an effect, and whether that leaves *)
(* a window untouched.  A directory holds up to three documents with level *)
(* changes (result.json, state.json, timeline.json, written whole or not   *)
(* at all) and cleanup.json, of which only the flat form of the watchdog   *)
(* and of the operator's cleanup counts, when it says succeeded.           *)
(***************************************************************************)
EXTENDS Integers, Sequences
SE == INSTANCE SequencesExt

CONSTANT Forever  \* a time after every other

ASSUME WindowAssumption == Forever \in Nat

Open == -1  \* no effect_ended_at

\* A change without an end lasts until the cleanup, if that is on record.
EndOf(change, cleanup) ==
    IF change.ended # Open THEN change.ended
    ELSE IF cleanup # Open THEN cleanup ELSE Forever

\* _run_intervals.  A document without changes is a readable "no effect"; a
\* directory without any document is one open interval.  (result.json also
\* names the first application and the last end.)
RunIntervals(dir) ==
    LET changes == UNION {SE!ToSet(dir.documents[d]) : d \in DOMAIN dir.documents}
        result  == IF "result" \in DOMAIN dir.documents THEN dir.documents["result"] ELSE <<>>
    IN  IF DOMAIN dir.documents = {} THEN {[from |-> 0, to |-> Forever]}
        ELSE {[from |-> c.applied, to |-> EndOf(c, dir.cleanup)] : c \in changes}
             \cup {[from |-> result[1].applied, to |-> c.ended] :
                     c \in {c \in SE!ToSet(result) : c.ended # Open}}

\* _intersects.
Intersects(interval, from, to) == interval.from <= to /\ from <= interval.to

\* _overlap_evidence, for one run that the coordinator no longer holds.  (A failed
\* attempt that the queue has excused, clean-window-excused.json, is skipped there:
\* no run here has been excused.)
Overlaps(dir, from, to) == \E i \in RunIntervals(dir) : Intersects(i, from, to)
=============================================================================
