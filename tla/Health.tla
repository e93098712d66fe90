------------------------------- MODULE Health -------------------------------
(***************************************************************************)
(* What an Endpoint of upstream/state.go promises if its methods were      *)
(* atomic: the health state machine behind Route.Pick, fed by dials,       *)
(* answers and probes and by the operator's eject and restore.             *)
(***************************************************************************)
EXTENDS HealthRules

VARIABLE ep  \* the endpoint: state, reason and the two counters

Init == ep = New

Fails     == ep' = RecordFail(ep)
Succeeds  == ep' = RecordSuccess(ep)
Ejects    == ep.state # "Ejected" /\ ep' = SetState(ep, Goal("Ejected", "operator"))
Restores  ==
    /\ ep.state \in {"Ejected", "Down"}
    /\ ep' = SetState(SetCounts(ep, 0, 0), Goal("Probing", "restore"))

Next == Fails \/ Succeeds \/ Ejects \/ Restores
Spec == Init /\ [][Next]_ep

(* The state says what the counters say: an endpoint is down exactly after *)
(* FailN failures in a row, healthy only below the first threshold, and a  *)
(* probing one still lacks successes.                                      *)
StateMatchesCounters ==
    /\ ep.state = "Down" => ep.fails >= FailN
    /\ ep.fails >= FailN => ep.state \in {"Down", "Ejected"}
    /\ ep.state \in {"Healthy", "Degraded"} =>
           (ep.state = "Degraded" <=> FailN >= 2 /\ ep.fails >= FailN \div 2)
    /\ ep.state = "Probing" => ep.succ < PassN

(* The reason shown to the operator belongs to the state shown.            *)
ReasonMatchesState ==
    /\ ep.state = "Healthy" <=> ep.reason = "fine"
    /\ ep.state = "Ejected" <=> ep.reason = "operator"
    /\ ep.state = "Down" <=> ep.reason = "threshold"
    /\ ep.state = "Degraded" <=> ep.reason = "failures"
============================================================================
