--------------------------- MODULE OpenShiftBuilds ---------------------------
(***************************************************************************)
(* The builds of one BuildConfig, by build number, as OpenShift runs them: *)
(* one at a time and in order (run policy Serial, the default the operator *)
(* leaves in place).  External to the operator, which only requests builds *)
(* and lists them.  Every build is a record with a phase; "Failed" stands  *)
(* for the phases Failed, Error and Cancelled, "New" also for Pending.     *)
(***************************************************************************)
EXTENDS Integers, Sequences

BuildPhases == {"New", "Running", "Complete", "Failed"}

InProgress(b) == b.phase \in {"New", "Running"}

Building(bs) == \E i \in 1..Len(bs) : InProgress(bs[i])

\* the build that is next to run, or is running
Current(bs) == CHOOSE i \in 1..Len(bs) :
                  InProgress(bs[i]) /\ \A j \in 1..(i - 1) : ~InProgress(bs[j])

\* the builds after the current one has moved to phase p
Moved(bs, p) == [bs EXCEPT ![Current(bs)].phase = p]

MayMove(bs, p) ==
    /\ Building(bs)
    /\ \/ bs[Current(bs)].phase = "New" /\ p = "Running"
       \/ bs[Current(bs)].phase = "Running" /\ p \in {"Complete", "Failed"}
=============================================================================
