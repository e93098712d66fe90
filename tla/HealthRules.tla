---------------------------- MODULE HealthRules ----------------------------
(***************************************************************************)
(* What upstream/state.go decides: the states of an endpoint and the state *)
(* a counted failure or success moves it to.  Health uses the rules in one *)
(* step per call, Endpoint in the steps the code takes.                    *)
(***************************************************************************)
EXTENDS Naturals

CONSTANTS
    FailN,  \* health.fail_threshold
    PassN   \* health.pass_threshold

ASSUME HealthAssumption == FailN \in Nat \ {0} /\ PassN \in Nat \ {0}

States  == {"Healthy", "Degraded", "Ejected", "Probing", "Down"}

(* The messages SetState is given, by a word of each; "fine" is the empty  *)
(* string of a healthy endpoint.                                           *)
Reasons == {"fine", "threshold", "failures", "recovering", "restore", "operator"}

Eligible(st) == st \in {"Healthy", "Degraded", "Probing"}

(* A counter is only compared with its threshold: it saturates there.      *)
Count(n, threshold) == IF n < threshold THEN n + 1 ELSE n

(* The arguments of SetState, or Keep where a call leaves the state alone. *)
Goal(to, why) == [to |-> to, why |-> why]
Keep  == Goal("none", "fine")
Goals == [to : States, why : Reasons] \cup {Keep}

(* An endpoint record after SetState, and after its counters are stored.   *)
SetState(e, g) ==
    IF g = Keep THEN e ELSE [e EXCEPT !.state = g.to, !.reason = g.why]
SetCounts(e, f, s) == [e EXCEPT !.fails = f, !.succ = s]

\* defect: a failure counts out an ejected endpoint too
FailureWakes(st, n) ==
    IF n >= FailN THEN Goal("Down", "threshold") ELSE Keep

\* defect: the lower threshold is tested first
DegradedFirst(st, n) ==
    IF st # "Ejected" /\ n >= FailN \div 2
    THEN Goal("Degraded", "failures") ELSE Keep

(* RecordFail, having counted n failures and loaded state st.              *)
AfterFailure(st, n) ==
    CASE st # "Ejected" /\ n >= FailN -> Goal("Down", "threshold")
      [] st # "Ejected" /\ n < FailN /\ n >= FailN \div 2 /\ FailN >= 2 ->
           Goal("Degraded", "failures")
      [] OTHER -> Keep

\* defect: a degraded endpoint is not brought back
SuccessSkips(st, n) ==
    CASE st \in {"Probing", "Down"} /\ n >= PassN -> Goal("Healthy", "fine")
      [] st = "Down" /\ n < PassN -> Goal("Probing", "recovering")
      [] OTHER -> Keep

(* RecordSuccess, having counted n successes and loaded state st.          *)
AfterSuccess(st, n) ==
    CASE st \in {"Probing", "Down", "Degraded"} /\ n >= PassN -> Goal("Healthy", "fine")
      [] st \in {"Down", "Degraded"} /\ n < PassN -> Goal("Probing", "recovering")
      [] OTHER -> Keep

(* An endpoint, a new one, and what the methods make of it.               *)
Endpoints == [state : States, reason : Reasons,
              fails : 0 .. FailN, succ : 0 .. PassN]

New == [state |-> "Healthy", reason |-> "fine", fails |-> 0, succ |-> 0]

(* RecordFail and RecordSuccess as one operation each.                     *)
RecordFail(e) ==
    LET n == Count(e.fails, FailN)
    IN  SetState(SetCounts(e, n, 0), AfterFailure(e.state, n))

RecordSuccess(e) ==
    LET n == Count(e.succ, PassN)
    IN  SetState(SetCounts(e, 0, n), AfterSuccess(e.state, n))
============================================================================
