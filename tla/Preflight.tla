------------------------------ MODULE Preflight ------------------------------
(***************************************************************************)
(* The preflight gate (backend/app/preflight.py and the sweep of the live  *)
(* queue): whether the minutes before an injection are clean.  A check     *)
(* compares one signal with a threshold; what the verdict looks at is      *)
(* whether the check passes, fails, or misses the threshold by no more     *)
(* than its tolerance.                                                     *)
(***************************************************************************)

\* One check of each kind: the open incidents, which have no tolerance and can
\* be closed, a check with a tolerance and one without.
Checks == {"open_incidents", "tolerant", "strict"}
Signals ==
    {s \in [Checks -> {"pass", "borderline", "fail"}] :
        \A c \in Checks \ {"tolerant"} : s[c] # "borderline"}

\* evaluate_preflight: the judge, when there is one, is asked only when nothing
\* fails outright.
Clean(s, judged) ==
    /\ \A c \in Checks : s[c] # "fail"
    /\ (\E c \in Checks : s[c] = "borderline") => judged = "clean"

\* _sweep_lingering_incidents: when incidents are all that fails they are
\* closed, if that works, and the signals are read again.
AfterSweep(s, swept) ==
    IF swept /\ {c \in Checks : s[c] = "fail"} = {"open_incidents"}
    THEN [s EXCEPT !["open_incidents"] = "pass"] ELSE s
=============================================================================
