------------------------------ MODULE Endpoint ------------------------------
(***************************************************************************)
(* An Endpoint of upstream/state.go as its goroutines use it.  Every field *)
(* is an atomic of its own and no lock is held over a method, so a method  *)
(* is several steps, and those of the reactors (dials and answers), of the *)
(* probe loop and of the admin handlers (eject, restore) interleave.       *)
(* Each step is one atomic operation of the code.                          *)
(***************************************************************************)
EXTENDS HealthRules

CONSTANTS
    Reactors,   \* goroutines that dial the endpoint and relay its answers
    Probers,    \* probe.Loop
    Operators   \* admin requests being served

Procs == Reactors \cup Probers \cup Operators

VARIABLES
    state, reason, fails, succ,  \* the fields of Endpoint
    pc,       \* the step each goroutine is at
    n,        \* the local n of RecordFail and RecordSuccess
    goal,     \* what the SetState it is about to run, or runs, stores
    again,    \* those whose RecordSuccess is for an ERROR, and RecordFail follows
    ejected,  \* history: "no", or an Eject that no Restore came after:
              \* "firm" if it met no goroutine that was going to store a state
    up        \* the upstream process answers

fields == <<state, reason, fails, succ>>
vars   == <<fields, pc, n, goal, again, ejected, up>>

Steps == {"idle", "dialled", "ponged", "count", "clear", "judge", "forgive",
          "tally", "weigh", "eject", "restore", "orDown", "resetFails",
          "resetSucc", "set", "say"}

Init ==
    /\ state = "Healthy" /\ reason = "fine" /\ fails = 0 /\ succ = 0
    /\ pc = [p \in Procs |-> "idle"] /\ n = [p \in Procs |-> 0]
    /\ goal = [p \in Procs |-> Keep] /\ again = {}
    /\ ejected = "no" /\ up = TRUE

----------------------------------------------------------------------------
At(p, s)   == pc[p] = s
Goto(p, s) == pc' = [pc EXCEPT ![p] = s]

(* The end of a call: RecordFail if it was the RecordSuccess of an ERROR.  *)
Return(p) ==
    /\ Goto(p, IF p \in again THEN "count" ELSE "idle")
    /\ again' = again \ {p}

\* defect: SetState is called whatever the decision
SetsAlways(p, g) ==
    /\ goal' = [goal EXCEPT ![p] = g] /\ n' = [n EXCEPT ![p] = 0]
    /\ Goto(p, "set") /\ UNCHANGED again

(* After the state was loaded: SetState, or the end of the call.  Locals   *)
(* that are not read again go back to their first value.                   *)
Decide(p, g) ==
    /\ goal' = [goal EXCEPT ![p] = g] /\ n' = [n EXCEPT ![p] = 0]
    /\ IF g = Keep THEN Return(p) ELSE Goto(p, "set") /\ UNCHANGED again

(* Start of a call: a dial or connect the upstream refuses, a connect that *)
(* succeeds, an answer, an ERROR answer.                                   *)
ReactorFails(p) ==
    /\ p \in Reactors /\ At(p, "idle") /\ ~up /\ Goto(p, "count")
    /\ UNCHANGED <<fields, n, goal, again, ejected, up>>

(* A dial that fails for want of a descriptor or in adopt counts against   *)
(* the endpoint too, whatever the upstream does.                           *)
LocalFails(p) ==
    /\ p \in Reactors /\ At(p, "idle") /\ up /\ Goto(p, "count")
    /\ UNCHANGED <<fields, n, goal, again, ejected, up>>

ReactorSucceeds(p) ==
    /\ p \in Reactors /\ At(p, "idle") /\ up /\ Goto(p, "forgive")
    /\ again' \in {again, again \cup {p}}
    /\ UNCHANGED <<fields, n, goal, ejected, up>>

(* probe.Loop skips an ejected endpoint; Ping looks again after the PONG.  *)
Probe(p) ==
    /\ p \in Probers /\ At(p, "idle") /\ state # "Ejected" /\ Goto(p, "dialled")
    /\ UNCHANGED <<fields, n, goal, again, ejected, up>>

PingEnds(p) ==
    /\ At(p, "dialled") /\ Goto(p, IF up THEN "ponged" ELSE "count")
    /\ UNCHANGED <<fields, n, goal, again, ejected, up>>

Ponged(p) ==
    /\ At(p, "ponged") /\ Goto(p, IF state # "Ejected" THEN "forgive" ELSE "idle")
    /\ UNCHANGED <<fields, n, goal, again, ejected, up>>

OperatorActs(p) ==
    /\ p \in Operators /\ At(p, "idle")
    /\ Goto(p, "eject") \/ Goto(p, "restore")
    /\ UNCHANGED <<fields, n, goal, again, ejected, up>>

(* RecordFail. *)
CountFail(p) ==
    /\ At(p, "count") /\ fails' = Count(fails, FailN)
    /\ n' = [n EXCEPT ![p] = fails'] /\ Goto(p, "clear")
    /\ UNCHANGED <<state, reason, succ, goal, again, ejected, up>>

\* defect: a failure does not end a run of successes
KeepSucc(p) ==
    /\ At(p, "clear") /\ Goto(p, "judge")
    /\ UNCHANGED <<fields, n, goal, again, ejected, up>>

ClearSucc(p) ==
    /\ At(p, "clear") /\ succ' = 0 /\ Goto(p, "judge")
    /\ UNCHANGED <<state, reason, fails, n, goal, again, ejected, up>>

JudgeFail(p) ==
    /\ At(p, "judge") /\ Decide(p, AfterFailure(state, n[p]))
    /\ UNCHANGED <<fields, ejected, up>>

(* RecordSuccess. *)
\* defect: a success does not end a run of failures
KeepFails(p) ==
    /\ At(p, "forgive") /\ Goto(p, "tally")
    /\ UNCHANGED <<fields, n, goal, again, ejected, up>>

ClearFails(p) ==
    /\ At(p, "forgive") /\ fails' = 0 /\ Goto(p, "tally")
    /\ UNCHANGED <<state, reason, succ, n, goal, again, ejected, up>>

CountSucc(p) ==
    /\ At(p, "tally") /\ succ' = Count(succ, PassN)
    /\ n' = [n EXCEPT ![p] = succ'] /\ Goto(p, "weigh")
    /\ UNCHANGED <<state, reason, fails, goal, again, ejected, up>>

JudgeSucc(p) ==
    /\ At(p, "weigh") /\ Decide(p, AfterSuccess(state, n[p]))
    /\ UNCHANGED <<fields, ejected, up>>

(* Eject and Restore.                                                      *)
Eject(p) ==
    /\ At(p, "eject")
    /\ Decide(p, IF state = "Ejected" THEN Keep ELSE Goal("Ejected", "operator"))
    /\ UNCHANGED <<fields, ejected, up>>

(* State() is loaded twice: for Ejected, and if it was not, for Down.      *)
Restore(p) ==
    /\ At(p, "restore")
    /\ Goto(p, IF state = "Ejected" THEN "resetFails" ELSE "orDown")
    /\ ejected' = IF state = "Ejected" THEN "no" ELSE ejected
    /\ UNCHANGED <<fields, n, goal, again, up>>

RestoreOr(p) ==
    /\ At(p, "orDown")
    /\ Goto(p, IF state = "Down" THEN "resetFails" ELSE "idle")
    /\ ejected' = IF state = "Down" THEN "no" ELSE ejected
    /\ UNCHANGED <<fields, n, goal, again, up>>

ResetFails(p) ==
    /\ At(p, "resetFails") /\ fails' = 0 /\ Goto(p, "resetSucc")
    /\ UNCHANGED <<state, reason, succ, n, goal, again, ejected, up>>

ResetSucc(p) ==
    /\ At(p, "resetSucc") /\ succ' = 0 /\ Goto(p, "set")
    /\ goal' = [goal EXCEPT ![p] = Goal("Probing", "restore")]
    /\ UNCHANGED <<state, reason, fails, n, again, ejected, up>>

(* SetState: two stores.                                                   *)
Storing(p) == pc[p] \in {"resetFails", "resetSucc", "set"}

StoreState(p) ==
    /\ At(p, "set") /\ state' = goal[p].to /\ Goto(p, "say")
    /\ ejected' = CASE goal[p].to # "Ejected" -> ejected
                    [] goal[p].to = "Ejected" /\ \E q \in Procs \ {p} : Storing(q)
                         -> "racing"
                    [] OTHER -> "firm"
    /\ UNCHANGED <<reason, fails, succ, n, goal, again, up>>

\* defect: the reason of the state before stays
SayNothing(p) ==
    /\ At(p, "say") /\ Return(p) /\ goal' = [goal EXCEPT ![p] = Keep]
    /\ UNCHANGED <<fields, n, ejected, up>>

StoreReason(p) ==
    /\ At(p, "say") /\ reason' = goal[p].why /\ Return(p)
    /\ goal' = [goal EXCEPT ![p] = Keep]
    /\ UNCHANGED <<state, fails, succ, n, ejected, up>>

UpstreamChanges == up' = ~up /\ UNCHANGED <<fields, pc, n, goal, again, ejected>>

Start(p) ==
    \/ ReactorFails(p) \/ LocalFails(p) \/ ReactorSucceeds(p)
    \/ Probe(p) \/ OperatorActs(p)

Step(p) ==
    \/ PingEnds(p) \/ Ponged(p)
    \/ CountFail(p) \/ ClearSucc(p) \/ JudgeFail(p)
    \/ ClearFails(p) \/ CountSucc(p) \/ JudgeSucc(p)
    \/ Eject(p) \/ Restore(p) \/ RestoreOr(p) \/ ResetFails(p) \/ ResetSucc(p)
    \/ StoreState(p) \/ StoreReason(p)

Next == UpstreamChanges \/ \E p \in Procs : Start(p) \/ Step(p)
Spec == Init /\ [][Next]_vars

(* Goroutines are scheduled, a ping has a deadline and the probe loop a    *)
(* ticker; nobody makes a client send or an operator act.                  *)
FairSpec ==
    /\ Spec
    /\ \A p \in Procs : WF_vars(Step(p))
    /\ \A p \in Probers : WF_vars(Probe(p))

----------------------------------------------------------------------------
(* Properties.                                                             *)

(* Types of every variable.                                                *)
TypeOK ==
    /\ state \in States /\ reason \in Reasons
    /\ fails \in 0 .. FailN /\ succ \in 0 .. PassN
    /\ pc \in [Procs -> Steps] /\ n \in [Procs -> Nat]
    /\ goal \in [Procs -> Goals]
    /\ \A p \in Procs : pc[p] \in {"set", "say"} => goal[p] # Keep
    /\ again \subseteq Procs
    /\ ejected \in {"no", "racing", "firm"} /\ up \in BOOLEAN

(* An eject that no goroutine raced with holds until a restore: the checks *)
(* of RecordFail, RecordSuccess, Ping and Loop keep every later call from  *)
(* storing another state.                                                  *)
FirmEjectHolds == ejected = "firm" => state = "Ejected"

(* What the console promises of any eject: no request is given to the      *)
(* endpoint until it is restored.                                          *)
EjectHolds == ejected # "no" => ~Eligible(state)

(* Once the upstream answers for good, and dials stop failing for reasons  *)
(* of this process's own, an endpoint nobody ejects becomes healthy and    *)
(* stays so, whatever the calls that raced before left behind.             *)
Recovers ==
    /\ <>[](up /\ state # "Ejected" /\ again = {})
    /\ <>[][\A p \in Reactors : ~LocalFails(p)]_vars
    => <>[](state = "Healthy")

(* Once the upstream is gone for good it stops being picked, if the        *)
(* operator leaves it alone.                                               *)
OperatorsIdle == \A p \in Operators : At(p, "idle")
StopsPicking  == <>[](~up /\ OperatorsIdle) => <>[]~Eligible(state)

(* With one goroutine every call is atomic: Settled is the endpoint as the *)
(* call the goroutine is in will leave it.                                 *)
SettledBy(p) ==
    LET e   == [state |-> state, reason |-> reason, fails |-> fails, succ |-> succ]
        new == Count(succ, PassN)
    IN  CASE pc[p] = "clear" ->
               SetState(SetCounts(e, fails, 0), AfterFailure(state, n[p]))
          [] pc[p] = "judge" -> SetState(e, AfterFailure(state, n[p]))
          [] pc[p] = "tally" ->
               SetState(SetCounts(e, fails, new), AfterSuccess(state, new))
          [] pc[p] = "weigh" -> SetState(e, AfterSuccess(state, n[p]))
          [] pc[p] = "resetFails" ->
               SetState(SetCounts(e, 0, 0), Goal("Probing", "restore"))
          [] pc[p] = "resetSucc" ->
               SetState(SetCounts(e, fails, 0), Goal("Probing", "restore"))
          [] pc[p] = "set" -> SetState(e, goal[p])
          [] pc[p] = "say" -> SetState(e, Goal(state, goal[p].why))
          [] OTHER -> e

Settled == SettledBy(CHOOSE p \in Procs : TRUE)
H == INSTANCE Health WITH ep <- Settled

(* The methods refine the atomic calls of Health when they do not overlap. *)
Sequential == H!Spec
StateMatchesCounters == H!StateMatchesCounters
ReasonMatchesState   == H!ReasonMatchesState
============================================================================
