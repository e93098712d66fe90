--------------------------- MODULE EndpointProofs ---------------------------
(***************************************************************************)
(* Proofs about Endpoint for any set of goroutines and any thresholds: its *)
(* types, the ejects that hold, and that it implements Health when one     *)
(* goroutine makes every call.                                             *)
(***************************************************************************)
EXTENDS Endpoint, HealthRulesProofs, TLAPS

LEMMA CountTyped ==
    /\ \A f \in 0 .. FailN : Count(f, FailN) \in 0 .. FailN
    /\ \A s \in 0 .. PassN : Count(s, PassN) \in 0 .. PassN
BY Thresholds DEF Count

LEMMA GoalTyped ==
    ASSUME NEW st \in States, NEW why \in Reasons
    PROVE  Goal(st, why) \in Goals
BY DEF Goals, Goal

LEMMA KeepTyped == Keep \in Goals
BY DEF Goals

LEMMA VerdictTyped ==
    ASSUME NEW st, NEW k \in Nat
    PROVE  AfterFailure(st, k) \in Goals /\ AfterSuccess(st, k) \in Goals
<1>1. /\ "threshold" \in Reasons /\ "failures" \in Reasons /\ "fine" \in Reasons
      /\ "recovering" \in Reasons
      /\ "Down" \in States /\ "Degraded" \in States /\ "Healthy" \in States
      /\ "Probing" \in States
  BY DEF States, Reasons
<1>2. AfterFailure(st, k) \in {Goal("Down", "threshold"),
                              Goal("Degraded", "failures"), Keep}
  BY DEF AfterFailure
<1>3. AfterSuccess(st, k) \in {Goal("Healthy", "fine"),
                              Goal("Probing", "recovering"), Keep}
  BY DEF AfterSuccess
<1> QED BY <1>1, <1>2, <1>3, GoalTyped, KeepTyped

LEMMA GoalSets == \A g \in Goals : g # Keep => g.to \in States /\ g.why \in Reasons
BY DEF Goals

(* The ejects that hold: while one does, no goroutine is past the load     *)
(* that decides whether it may store a state.                              *)
NoneStoring == \A q \in Procs : ~Storing(q)
FirmIsQuiet == ejected = "firm" => state = "Ejected" /\ NoneStoring

IInv == TypeOK /\ FirmIsQuiet

LEMMA InitIInv == Init => IInv
BY Thresholds DEF Init, IInv, TypeOK, FirmIsQuiet, States, Reasons, Steps, Goals

(* What a step does to pc, goal and again, in the terms TypeOK uses.       *)
LEMMA GotoTyped ==
    ASSUME TypeOK, NEW p \in Procs, NEW s \in Steps, Goto(p, s)
    PROVE  /\ pc' \in [Procs -> Steps] /\ pc'[p] = s
           /\ \A q \in Procs \ {p} : pc'[q] = pc[q]
BY DEF TypeOK, Goto

LEMMA ReturnTyped ==
    ASSUME TypeOK, NEW p \in Procs, Return(p)
    PROVE  /\ pc' \in [Procs -> Steps] /\ pc'[p] \in {"idle", "count"}
           /\ \A q \in Procs \ {p} : pc'[q] = pc[q]
           /\ again' \subseteq Procs
BY DEF TypeOK, Return, Goto, Steps

LEMMA DecideTyped ==
    ASSUME TypeOK, NEW p \in Procs, NEW g \in Goals, Decide(p, g)
    PROVE  /\ pc' \in [Procs -> Steps] /\ again' \subseteq Procs
           /\ goal' \in [Procs -> Goals] /\ n' \in [Procs -> Nat]
           /\ goal'[p] = g
           /\ \A q \in Procs \ {p} : pc'[q] = pc[q] /\ goal'[q] = goal[q]
           /\ g = Keep => pc'[p] \in {"idle", "count"}
           /\ g # Keep => pc'[p] = "set"
<1>1. /\ goal' \in [Procs -> Goals] /\ n' \in [Procs -> Nat]
      /\ goal'[p] = g /\ \A q \in Procs \ {p} : goal'[q] = goal[q]
  BY DEF TypeOK, Decide
<1>2. CASE g = Keep
  BY <1>1, <1>2, ReturnTyped DEF Decide
<1>3. CASE g # Keep
  <2>1. "set" \in Steps BY DEF Steps
  <2> QED BY <1>1, <1>3, <2>1, GotoTyped DEF Decide, TypeOK
<1> QED BY <1>2, <1>3

(* A call that has not reached a store disturbs neither conjunct: the      *)
(* fields stay, and it goes to a step that is not storing.                 *)
LEMMA QuietStep ==
    ASSUME IInv, NEW p \in Procs, NEW s \in Steps \ {"set", "say"},
           ~(s \in {"resetFails", "resetSucc"}),
           Goto(p, s), UNCHANGED <<fields, n, goal, ejected>>,
           again' \subseteq Procs, up' \in BOOLEAN
    PROVE  IInv'
<1>1. TypeOK'
  BY GotoTyped DEF IInv, TypeOK, fields
<1>2. FirmIsQuiet'
  BY GotoTyped DEF IInv, FirmIsQuiet, NoneStoring, Storing, fields
<1> QED BY <1>1, <1>2 DEF IInv

LEMMA StartStep == ASSUME IInv, NEW p \in Procs, Start(p) PROVE IInv'
<1>0. /\ TypeOK /\ again \subseteq Procs /\ up \in BOOLEAN
      /\ "count" \in Steps /\ "forgive" \in Steps /\ "dialled" \in Steps
      /\ "eject" \in Steps /\ "restore" \in Steps
  BY DEF IInv, TypeOK, Steps
<1>1. CASE ReactorFails(p) BY <1>0, <1>1, QuietStep DEF ReactorFails
<1>2. CASE ReactorSucceeds(p) BY <1>0, <1>2, QuietStep DEF ReactorSucceeds
<1>3. CASE Probe(p) BY <1>0, <1>3, QuietStep DEF Probe
<1>4. CASE OperatorActs(p)
  <2>1. CASE Goto(p, "eject") BY <1>0, <1>4, <2>1, QuietStep DEF OperatorActs
  <2>2. CASE Goto(p, "restore") BY <1>0, <1>4, <2>2, QuietStep DEF OperatorActs
  <2> QED BY <1>4, <2>1, <2>2 DEF OperatorActs
<1>5. CASE LocalFails(p) BY <1>0, <1>5, QuietStep DEF LocalFails
<1> QED BY <1>1, <1>2, <1>3, <1>4, <1>5 DEF Start

LEMMA PingStep == ASSUME IInv, NEW p \in Procs, PingEnds(p) \/ Ponged(p) PROVE IInv'
<1>0. /\ again \subseteq Procs /\ up \in BOOLEAN
      /\ \A s \in {"count", "forgive", "ponged", "idle"} :
            s \in Steps \ {"set", "say"} /\ ~(s \in {"resetFails", "resetSucc"})
  BY DEF IInv, TypeOK, Steps
<1>1. CASE PingEnds(p)
  <2>1. PICK s \in {"ponged", "count"} : Goto(p, s)
    BY <1>1 DEF PingEnds
  <2> QED BY <1>0, <1>1, <2>1, QuietStep DEF PingEnds
<1>2. CASE Ponged(p)
  <2>1. PICK s \in {"forgive", "idle"} : Goto(p, s)
    BY <1>2 DEF Ponged
  <2> QED BY <1>0, <1>2, <2>1, QuietStep DEF Ponged
<1> QED BY <1>1, <1>2

(* Counting keeps the counters in range and touches no state.              *)
LEMMA CountStep ==
    ASSUME IInv, NEW p \in Procs,
           \/ CountFail(p) \/ ClearSucc(p) \/ ClearFails(p) \/ CountSucc(p)
    PROVE  IInv'
<1>0. /\ TypeOK /\ 0 \in 0 .. FailN /\ 0 \in 0 .. PassN
      /\ 0 .. FailN \subseteq Nat /\ 0 .. PassN \subseteq Nat
  BY Thresholds DEF IInv
<1>1. /\ state' = state /\ reason' = reason /\ goal' = goal /\ again' = again
      /\ ejected' = ejected /\ up' = up
      /\ fails' \in 0 .. FailN /\ succ' \in 0 .. PassN /\ n' \in [Procs -> Nat]
  BY <1>0, CountTyped
     DEF TypeOK, CountFail, ClearSucc, ClearFails, CountSucc
<1>2. PICK s \in {"clear", "judge", "tally", "weigh"} : Goto(p, s)
  BY DEF CountFail, ClearSucc, ClearFails, CountSucc
<1>3. s \in Steps /\ s \notin {"set", "say", "resetFails", "resetSucc"}
  BY <1>2 DEF Steps
<1>4. TypeOK'
  BY <1>0, <1>1, <1>2, <1>3, GotoTyped DEF TypeOK
<1>5. FirmIsQuiet'
  BY <1>0, <1>1, <1>2, <1>3, GotoTyped DEF IInv, FirmIsQuiet, NoneStoring, Storing
<1> QED BY <1>4, <1>5 DEF IInv

(* A verdict on an ejected endpoint is to keep it: this is the check that  *)
(* makes ejects hold.                                                      *)
LEMMA EjectedIsKept ==
    ASSUME NEW k
    PROVE  AfterFailure("Ejected", k) = Keep /\ AfterSuccess("Ejected", k) = Keep
BY DEF AfterFailure, AfterSuccess

LEMMA VerdictStep ==
    ASSUME IInv, NEW p \in Procs, NEW g \in Goals, Decide(p, g),
           state = "Ejected" => g = Keep, UNCHANGED <<fields, ejected, up>>
    PROVE  IInv'
<1>0. TypeOK BY DEF IInv
<1>1. /\ pc' \in [Procs -> Steps] /\ again' \subseteq Procs
      /\ goal' \in [Procs -> Goals] /\ n' \in [Procs -> Nat]
      /\ goal'[p] = g
      /\ \A q \in Procs \ {p} : pc'[q] = pc[q] /\ goal'[q] = goal[q]
      /\ g = Keep => pc'[p] \in {"idle", "count"}
      /\ g # Keep => pc'[p] = "set"
  BY <1>0, DecideTyped
<1>2. TypeOK'
  BY <1>0, <1>1 DEF TypeOK, fields
<1>3. FirmIsQuiet'
  BY <1>1 DEF IInv, FirmIsQuiet, NoneStoring, Storing, fields
<1> QED BY <1>2, <1>3 DEF IInv

LEMMA JudgeStep ==
    ASSUME IInv, NEW p \in Procs, JudgeFail(p) \/ JudgeSucc(p) \/ Eject(p)
    PROVE  IInv'
<1>1. n[p] \in Nat BY DEF IInv, TypeOK
<1>2. CASE JudgeFail(p)
  BY <1>1, <1>2, VerdictTyped, EjectedIsKept, VerdictStep DEF JudgeFail
<1>3. CASE JudgeSucc(p)
  BY <1>1, <1>3, VerdictTyped, EjectedIsKept, VerdictStep DEF JudgeSucc
<1>4. CASE Eject(p)
  <2>1. Goal("Ejected", "operator") \in Goals
    BY GoalTyped DEF States, Reasons
  <2>2. PICK g \in Goals : Decide(p, g) /\ (state = "Ejected" => g = Keep)
    BY <1>4, <2>1, KeepTyped DEF Eject
  <2> QED BY <1>4, <2>2, VerdictStep DEF Eject
<1> QED BY <1>2, <1>3, <1>4

(* Restore withdraws the eject before it stores anything.                  *)
LEMMA RestoreStep ==
    ASSUME IInv, NEW p \in Procs,
           Restore(p) \/ RestoreOr(p) \/ ResetFails(p) \/ ResetSucc(p)
    PROVE  IInv'
<1>0. /\ TypeOK /\ 0 \in 0 .. FailN /\ 0 \in 0 .. PassN
      /\ Goal("Probing", "restore") \in Goals
  BY Thresholds, GoalTyped DEF IInv, States, Reasons
<1>1. Goal("Probing", "restore") # Keep
  BY DEF Goal, Keep
<1>2. CASE Restore(p)
  <2>1. PICK s \in {"resetFails", "orDown"} :
            Goto(p, s) /\ (s = "resetFails" => ejected' = "no")
                       /\ (ejected' = ejected \/ ejected' = "no")
    BY <1>2 DEF Restore
  <2>2. s \in Steps /\ s \notin {"set", "say"} BY DEF Steps
  <2>3. TypeOK'
    BY <1>0, <1>2, <2>1, <2>2, GotoTyped DEF Restore, TypeOK, fields
  <2>4. FirmIsQuiet'
    BY <1>0, <1>2, <2>1, <2>2, GotoTyped
       DEF Restore, IInv, FirmIsQuiet, NoneStoring, Storing, fields
  <2> QED BY <2>3, <2>4 DEF IInv
<1>3. CASE RestoreOr(p)
  <2>1. PICK s \in {"resetFails", "idle"} :
            Goto(p, s) /\ (s = "resetFails" => ejected' = "no")
                       /\ (ejected' = ejected \/ ejected' = "no")
    BY <1>3 DEF RestoreOr
  <2>2. s \in Steps /\ s \notin {"set", "say"} BY DEF Steps
  <2>3. TypeOK'
    BY <1>0, <1>3, <2>1, <2>2, GotoTyped DEF RestoreOr, TypeOK, fields
  <2>4. FirmIsQuiet'
    BY <1>0, <1>3, <2>1, <2>2, GotoTyped
       DEF RestoreOr, IInv, FirmIsQuiet, NoneStoring, Storing, fields
  <2> QED BY <2>3, <2>4 DEF IInv
<1>4. CASE ResetFails(p)
  <2>1. "resetSucc" \in Steps BY DEF Steps
  <2>2. TypeOK'
    BY <1>0, <1>4, <2>1, GotoTyped DEF ResetFails, TypeOK
  <2>3. ejected' # "firm"
    BY <1>4 DEF ResetFails, At, IInv, FirmIsQuiet, NoneStoring, Storing
  <2> QED BY <2>2, <2>3 DEF IInv, FirmIsQuiet
<1>5. CASE ResetSucc(p)
  <2>1. "set" \in Steps BY DEF Steps
  <2>2. TypeOK'
    BY <1>0, <1>1, <1>5, <2>1, GotoTyped DEF ResetSucc, TypeOK
  <2>3. ejected' # "firm"
    BY <1>5 DEF ResetSucc, At, IInv, FirmIsQuiet, NoneStoring, Storing
  <2> QED BY <2>2, <2>3 DEF IInv, FirmIsQuiet
<1> QED BY <1>2, <1>3, <1>4, <1>5

LEMMA StoreStep ==
    ASSUME IInv, NEW p \in Procs, StoreState(p) \/ StoreReason(p)
    PROVE  IInv'
<1>0. TypeOK /\ "say" \in Steps BY DEF IInv, Steps
<1>1. CASE StoreState(p)
  <2>1. goal[p] # Keep /\ goal[p].to \in States
    BY <1>0, <1>1, GoalSets DEF StoreState, At, TypeOK
  <2>2. /\ pc' \in [Procs -> Steps] /\ pc'[p] = "say"
        /\ \A q \in Procs \ {p} : pc'[q] = pc[q]
    BY <1>0, <1>1, GotoTyped DEF StoreState
  <2>3. ejected' \in {"no", "racing", "firm"}
    BY <1>0, <1>1 DEF StoreState, TypeOK
  <2>4. TypeOK'
    BY <1>0, <1>1, <2>1, <2>2, <2>3 DEF StoreState, TypeOK
  <2>5. ejected # "firm"
    BY <1>1 DEF StoreState, At, IInv, FirmIsQuiet, NoneStoring, Storing
  <2>6. ASSUME ejected' = "firm" PROVE state' = "Ejected" /\ NoneStoring'
    <3>1. goal[p].to = "Ejected" /\ \A q \in Procs \ {p} : ~Storing(q)
      BY <1>1, <2>5, <2>6 DEF StoreState
    <3>2. \A q \in Procs : ~Storing(q)'
      BY <2>2, <3>1 DEF Storing
    <3> QED BY <1>1, <3>1, <3>2 DEF StoreState, NoneStoring
  <2> QED BY <2>4, <2>6 DEF IInv, FirmIsQuiet
<1>2. CASE StoreReason(p)
  <2>1. goal[p].why \in Reasons
    BY <1>0, <1>2, GoalSets DEF StoreReason, At, TypeOK
  <2>2. /\ pc' \in [Procs -> Steps] /\ pc'[p] \in {"idle", "count"}
        /\ \A q \in Procs \ {p} : pc'[q] = pc[q]
        /\ again' \subseteq Procs
    BY <1>0, <1>2, ReturnTyped DEF StoreReason
  <2>3. /\ goal' \in [Procs -> Goals]
        /\ \A q \in Procs \ {p} : goal'[q] = goal[q]
    BY <1>0, <1>2, KeepTyped DEF StoreReason, TypeOK
  <2>4. TypeOK'
    BY <1>0, <1>2, <2>1, <2>2, <2>3 DEF StoreReason, TypeOK
  <2>5. FirmIsQuiet'
    BY <1>2, <2>2 DEF StoreReason, IInv, FirmIsQuiet, NoneStoring, Storing
  <2> QED BY <2>4, <2>5 DEF IInv
<1> QED BY <1>1, <1>2

LEMMA NextIInv == IInv /\ [Next]_vars => IInv'
<1> SUFFICES ASSUME IInv, [Next]_vars PROVE IInv'
  OBVIOUS
<1>1. CASE UNCHANGED vars
  BY <1>1 DEF IInv, TypeOK, FirmIsQuiet, NoneStoring, Storing, vars, fields
<1>2. CASE UpstreamChanges
  BY <1>2 DEF UpstreamChanges, IInv, TypeOK, FirmIsQuiet, NoneStoring, Storing, fields
<1>3. ASSUME NEW p \in Procs, Start(p) PROVE IInv'
  BY <1>3, StartStep
<1>4. ASSUME NEW p \in Procs, Step(p) PROVE IInv'
  BY <1>4, PingStep, CountStep, JudgeStep, RestoreStep, StoreStep DEF Step
<1> QED BY <1>1, <1>2, <1>3, <1>4 DEF Next

LEMMA Invariance == Spec => []IInv
BY InitIInv, NextIInv, PTL DEF Spec

(* Every field and local keeps its type, for any number of goroutines.     *)
THEOREM EndpointTypes == Spec => []TypeOK
<1>1. IInv => TypeOK BY DEF IInv
<1> QED BY <1>1, Invariance, PTL

(* An eject that met no goroutine about to store a state holds until a     *)
(* restore, whatever dials, answers, probes and operators do meanwhile.    *)
THEOREM FirmEjects == Spec => []FirmEjectHolds
<1>1. IInv => FirmEjectHolds BY DEF IInv, FirmIsQuiet, FirmEjectHolds
<1> QED BY <1>1, Invariance, PTL

----------------------------------------------------------------------------
(* One goroutine: the methods implement the atomic calls of Health.        *)

Now == [state |-> state, reason |-> reason, fails |-> fails, succ |-> succ]

(* SettledBy, step by step.                                                *)
SettledCases(p) ==
    /\ pc[p] = "clear" =>
          SettledBy(p) = SetState(SetCounts(Now, fails, 0), AfterFailure(state, n[p]))
    /\ pc[p] = "judge" => SettledBy(p) = SetState(Now, AfterFailure(state, n[p]))
    /\ pc[p] = "tally" =>
          SettledBy(p) = SetState(SetCounts(Now, fails, Count(succ, PassN)),
                                 AfterSuccess(state, Count(succ, PassN)))
    /\ pc[p] = "weigh" => SettledBy(p) = SetState(Now, AfterSuccess(state, n[p]))
    /\ pc[p] = "resetFails" =>
          SettledBy(p) = SetState(SetCounts(Now, 0, 0), Goal("Probing", "restore"))
    /\ pc[p] = "resetSucc" =>
          SettledBy(p) = SetState(SetCounts(Now, fails, 0), Goal("Probing", "restore"))
    /\ pc[p] = "set" => SettledBy(p) = SetState(Now, goal[p])
    /\ pc[p] = "say" => SettledBy(p) = SetState(Now, Goal(state, goal[p].why))
    /\ pc[p] \in {"idle", "dialled", "ponged", "count", "forgive", "eject",
                   "restore", "orDown"} => SettledBy(p) = Now

LEMMA Cases == ASSUME NEW p PROVE SettledCases(p)
<1>1. pc[p] = "clear" =>
        SettledBy(p) = SetState(SetCounts(Now, fails, 0), AfterFailure(state, n[p]))
  BY DEF SettledBy, Now
<1>2. pc[p] = "judge" => SettledBy(p) = SetState(Now, AfterFailure(state, n[p]))
  BY DEF SettledBy, Now
<1>3. pc[p] = "tally" =>
        SettledBy(p) = SetState(SetCounts(Now, fails, Count(succ, PassN)),
                                 AfterSuccess(state, Count(succ, PassN)))
  BY DEF SettledBy, Now
<1>4. pc[p] = "weigh" => SettledBy(p) = SetState(Now, AfterSuccess(state, n[p]))
  BY DEF SettledBy, Now
<1>5. pc[p] = "resetFails" =>
        SettledBy(p) = SetState(SetCounts(Now, 0, 0), Goal("Probing", "restore"))
  BY DEF SettledBy, Now
<1>6. pc[p] = "resetSucc" =>
        SettledBy(p) = SetState(SetCounts(Now, fails, 0), Goal("Probing", "restore"))
  BY DEF SettledBy, Now
<1>7. pc[p] = "set" => SettledBy(p) = SetState(Now, goal[p])
  BY DEF SettledBy, Now
<1>8. pc[p] = "say" => SettledBy(p) = SetState(Now, Goal(state, goal[p].why))
  BY DEF SettledBy, Now
<1>9. pc[p] \in {"idle", "dialled", "ponged", "count", "forgive", "eject",
                 "restore", "orDown"} => SettledBy(p) = Now
  BY DEF SettledBy, Now
<1> QED
  BY <1>1, <1>2, <1>3, <1>4, <1>5, <1>6, <1>7, <1>8, <1>9 DEF SettledCases

LEMMA NextCases == ASSUME NEW p PROVE SettledCases(p)'
<1>1. SettledCases(p) BY Cases
<1> QED BY <1>1, PTL

(* Updates of an endpoint record.                                          *)
Rec(st, why, f, k) == [state |-> st, reason |-> why, fails |-> f, succ |-> k]

LEMMA CountsUpdate ==
    ASSUME NEW st, NEW why, NEW f, NEW k, NEW x, NEW y
    PROVE  SetCounts(Rec(st, why, f, k), x, y) = Rec(st, why, x, y)
<1> DEFINE R == Rec(st, why, f, k)
<1>1. DOMAIN R = {"state", "reason", "fails", "succ"} BY DEF Rec
<1>2. [R EXCEPT !.fails = x, !.succ = y]
        = [v \in DOMAIN R |-> IF v = "succ" THEN y ELSE IF v = "fails" THEN x ELSE R[v]]
  OBVIOUS
<1> QED BY <1>1, <1>2 DEF Rec, SetCounts

LEMMA StateUpdate ==
    ASSUME NEW st, NEW why, NEW f, NEW k, NEW g, g # Keep
    PROVE  SetState(Rec(st, why, f, k), g) = Rec(g.to, g.why, f, k)
<1> DEFINE R == Rec(st, why, f, k)
<1>1. DOMAIN R = {"state", "reason", "fails", "succ"} BY DEF Rec
<1>2. [R EXCEPT !.state = g.to, !.reason = g.why]
        = [v \in DOMAIN R |-> IF v = "reason" THEN g.why
                              ELSE IF v = "state" THEN g.to ELSE R[v]]
  OBVIOUS
<1> QED BY <1>1, <1>2 DEF Rec, SetState

(* The rules as Health, instantiated, names them.                          *)
LEMMA SameRules ==
    /\ \A m, k : H!Count(m, k) = Count(m, k)
    /\ \A st, k : H!AfterFailure(st, k) = AfterFailure(st, k)
    /\ \A st, k : H!AfterSuccess(st, k) = AfterSuccess(st, k)
    /\ \A e, g : H!SetState(e, g) = SetState(e, g)
    /\ \A e, f, k : H!SetCounts(e, f, k) = SetCounts(e, f, k)
    /\ \A st, why : H!Goal(st, why) = Goal(st, why)
<1>1. H!Keep = Keep /\ \A st, why : H!Goal(st, why) = Goal(st, why)
  BY DEF H!Keep, Keep, H!Goal, Goal
<1>2. \A m, k : H!Count(m, k) = Count(m, k)
  BY DEF H!Count, Count
<1>3. \A st, k : H!AfterFailure(st, k) = AfterFailure(st, k)
  BY <1>1 DEF H!AfterFailure, AfterFailure
<1>4. \A st, k : H!AfterSuccess(st, k) = AfterSuccess(st, k)
  BY <1>1 DEF H!AfterSuccess, AfterSuccess
<1>5. \A e, g : H!SetState(e, g) = SetState(e, g)
  BY <1>1 DEF H!SetState, SetState
<1>6. \A e, f, k : H!SetCounts(e, f, k) = SetCounts(e, f, k)
  BY DEF H!SetCounts, SetCounts
<1> QED BY <1>1, <1>2, <1>3, <1>4, <1>5, <1>6

LEMMA SameCalls ==
    /\ H!New = New
    /\ \A e : H!RecordFail(e) = RecordFail(e)
    /\ \A e : H!RecordSuccess(e) = RecordSuccess(e)
<1>1. H!New = New BY DEF H!New, New
<1>2. \A e : H!RecordFail(e) = RecordFail(e)
  BY SameRules DEF H!RecordFail, RecordFail
<1>3. \A e : H!RecordSuccess(e) = RecordSuccess(e)
  BY SameRules DEF H!RecordSuccess, RecordSuccess
<1> QED BY <1>1, <1>2, <1>3

LEMMA Fields ==
    /\ Now = Rec(state, reason, fails, succ)
    /\ Now' = Rec(state', reason', fails', succ')
    /\ Now.state = state /\ Now.fails = fails /\ Now.succ = succ
BY DEF Now, Rec

Resting == {"idle", "dialled", "ponged", "count", "forgive", "eject", "restore", "orDown"}

(* Between calls, and up to the first atomic operation of one, nothing     *)
(* moves.                                                                  *)
LEMMA RestSilent ==
    ASSUME NEW p, pc[p] \in Resting, pc'[p] \in Resting, UNCHANGED fields
    PROVE  SettledBy(p)' = SettledBy(p)
<1>1. SettledBy(p) = Now
  BY Cases DEF SettledCases, Resting
<1>2. SettledBy(p)' = Now'
  BY NextCases DEF SettledCases, Resting
<1> QED BY <1>1, <1>2 DEF Now, fields

(* The first atomic operation of a RecordFail is where it takes effect.    *)
LEMMA FailLinearizes ==
    ASSUME TypeOK, NEW p \in Procs, CountFail(p)
    PROVE  SettledBy(p)' = SetState(Rec(state, reason, Count(fails, FailN), 0),
                                      AfterFailure(state, Count(fails, FailN)))
<1>1. /\ pc'[p] = "clear" /\ n'[p] = Count(fails, FailN)
      /\ state' = state /\ reason' = reason /\ fails' = Count(fails, FailN)
  BY DEF CountFail, Goto, TypeOK
<1>2. SettledBy(p)' = SetState(SetCounts(Now', fails', 0), AfterFailure(state', n'[p]))
  BY <1>1, NextCases DEF SettledCases
<1>3. SetCounts(Now', fails', 0) = Rec(state, reason, Count(fails, FailN), 0)
  BY <1>1, Fields, CountsUpdate
<1> QED BY <1>1, <1>2, <1>3, SameRules

LEMMA SuccessLinearizes ==
    ASSUME TypeOK, NEW p \in Procs, ClearFails(p)
    PROVE  SettledBy(p)' = SetState(Rec(state, reason, 0, Count(succ, PassN)),
                                      AfterSuccess(state, Count(succ, PassN)))
<1>1. /\ pc'[p] = "tally" /\ fails' = 0
      /\ state' = state /\ reason' = reason /\ succ' = succ
  BY DEF ClearFails, Goto, TypeOK
<1>2. SettledBy(p)' = SetState(SetCounts(Now', fails', Count(succ', PassN)),
                                 AfterSuccess(state', Count(succ', PassN)))
  BY <1>1, NextCases DEF SettledCases
<1>3. SetCounts(Now', fails', Count(succ', PassN))
        = Rec(state, reason, 0, Count(succ, PassN))
  BY <1>1, Fields, CountsUpdate
<1> QED BY <1>1, <1>2, <1>3, SameRules

(* The rest of a call only does what Settled foresaw.                      *)
LEMMA ClearSilent ==
    ASSUME TypeOK, NEW p \in Procs, ClearSucc(p) \/ CountSucc(p)
    PROVE  SettledBy(p)' = SettledBy(p)
<1>1. CASE ClearSucc(p)
  <2>1. /\ pc[p] = "clear" /\ pc'[p] = "judge" /\ n'[p] = n[p] /\ succ' = 0
        /\ state' = state /\ reason' = reason /\ fails' = fails
    BY <1>1 DEF ClearSucc, At, Goto, TypeOK
  <2>2. /\ SettledBy(p) = SetState(SetCounts(Now, fails, 0), AfterFailure(state, n[p]))
        /\ SettledBy(p)' = SetState(Now', AfterFailure(state', n'[p]))
    BY <2>1, Cases, NextCases DEF SettledCases
  <2>3. SetCounts(Now, fails, 0) = Now'
    BY <2>1, Fields, CountsUpdate
  <2> QED BY <2>1, <2>2, <2>3
<1>2. CASE CountSucc(p)
  <2>1. /\ pc[p] = "tally" /\ pc'[p] = "weigh"
        /\ succ' = Count(succ, PassN) /\ n'[p] = Count(succ, PassN)
        /\ state' = state /\ reason' = reason /\ fails' = fails
    BY <1>2 DEF CountSucc, At, Goto, TypeOK
  <2>2. /\ SettledBy(p) = SetState(SetCounts(Now, fails, Count(succ, PassN)),
                                 AfterSuccess(state, Count(succ, PassN)))
        /\ SettledBy(p)' = SetState(Now', AfterSuccess(state', n'[p]))
    BY <2>1, Cases, NextCases DEF SettledCases
  <2>3. SetCounts(Now, fails, Count(succ, PassN)) = Now'
    BY <2>1, Fields, CountsUpdate
  <2> QED BY <2>1, <2>2, <2>3
<1> QED BY <1>1, <1>2

(* Once the verdict g is known the call ends in SetState(Now, g).             *)
LEMMA Decided ==
    ASSUME TypeOK, NEW p \in Procs, NEW g \in Goals, Decide(p, g), UNCHANGED fields
    PROVE  SettledBy(p)' = SetState(Now, g)
<1>1. /\ goal'[p] = g
      /\ g = Keep => pc'[p] \in {"idle", "count"}
      /\ g # Keep => pc'[p] = "set"
  BY DecideTyped
<1>2. Now' = Now BY DEF Now, fields
<1>3. CASE g = Keep
  <2>1. SettledBy(p)' = Now'
    BY <1>1, <1>3, NextCases DEF SettledCases
  <2> QED BY <1>2, <1>3, <2>1 DEF SetState
<1>4. CASE g # Keep
  <2>1. SettledBy(p)' = SetState(Now', goal'[p])
    BY <1>1, <1>4, NextCases DEF SettledCases
  <2> QED BY <1>1, <1>2, <2>1
<1> QED BY <1>3, <1>4

LEMMA JudgeSilent ==
    ASSUME TypeOK, NEW p \in Procs, JudgeFail(p) \/ JudgeSucc(p)
    PROVE  SettledBy(p)' = SettledBy(p)
<1>1. AfterFailure(state, n[p]) \in Goals /\ AfterSuccess(state, n[p]) \in Goals
  BY VerdictTyped DEF TypeOK
<1>2. CASE JudgeFail(p)
  <2>1. SettledBy(p)' = SetState(Now, AfterFailure(state, n[p]))
    BY <1>1, <1>2, Decided DEF JudgeFail
  <2> QED BY <1>2, <2>1, Cases DEF SettledCases, JudgeFail, At
<1>3. CASE JudgeSucc(p)
  <2>1. SettledBy(p)' = SetState(Now, AfterSuccess(state, n[p]))
    BY <1>1, <1>3, Decided DEF JudgeSucc
  <2> QED BY <1>3, <2>1, Cases DEF SettledCases, JudgeSucc, At
<1> QED BY <1>2, <1>3

LEMMA StoreSilent ==
    ASSUME TypeOK, NEW p \in Procs, StoreState(p) \/ StoreReason(p)
    PROVE  SettledBy(p)' = SettledBy(p)
<1> DEFINE g == Goal(state, goal[p].why)
<1>1. /\ goal[p] # Keep /\ goal[p].why \in Reasons
      /\ state \in States
  BY GoalSets DEF StoreState, StoreReason, At, TypeOK
<1>2. CASE StoreState(p)
  <2> DEFINE h == Goal(state', goal[p].why)
  <2>1. /\ pc[p] = "set" /\ pc'[p] = "say" /\ goal'[p] = goal[p]
        /\ state' = goal[p].to /\ fails' = fails /\ succ' = succ
    BY <1>2 DEF StoreState, At, Goto, TypeOK
  <2>2. h # Keep /\ h.to = goal[p].to /\ h.why = goal[p].why
    <3>1. state' # "none" BY <1>1, <2>1, GoalSets DEF States, TypeOK
    <3> QED BY <2>1, <3>1 DEF Goal, Keep
  <2>3. SettledBy(p) = Rec(goal[p].to, goal[p].why, fails, succ)
    BY <1>1, <2>1, Cases, Fields, StateUpdate DEF SettledCases
  <2>4. SettledBy(p)' = SetState(Now', h)
    BY <2>1, NextCases DEF SettledCases
  <2> HIDE DEF h
  <2> QED BY <2>1, <2>2, <2>3, <2>4, Fields, StateUpdate
<1>3. CASE StoreReason(p)
  <2>1. /\ pc[p] = "say" /\ pc'[p] \in {"idle", "count"}
        /\ reason' = goal[p].why
        /\ state' = state /\ fails' = fails /\ succ' = succ
    BY <1>3 DEF StoreReason, Return, Goto, TypeOK, At
  <2>2. g # Keep /\ g.to = state /\ g.why = goal[p].why
    <3>1. state # "none" BY <1>1 DEF States
    <3> QED BY <3>1 DEF Goal, Keep
  <2>3. SettledBy(p) = SetState(Now, g) /\ SettledBy(p)' = Now'
    BY <2>1, Cases, NextCases DEF SettledCases
  <2> HIDE DEF g
  <2> QED BY <2>1, <2>2, <2>3, Fields, StateUpdate
<1> QED BY <1>2, <1>3

LEMMA FailsOnce ==
    ASSUME TypeOK, NEW p \in Procs, CountFail(p)
    PROVE  SettledBy(p)' = H!RecordFail(SettledBy(p))
<1>1. SettledBy(p) = Rec(state, reason, fails, succ)
  BY Cases, Fields DEF SettledCases, CountFail, At
<1>2. Rec(state, reason, fails, succ).fails = fails
      /\ Rec(state, reason, fails, succ).state = state
  BY DEF Rec
<1>3. H!RecordFail(SettledBy(p))
        = SetState(SetCounts(Rec(state, reason, fails, succ), Count(fails, FailN), 0),
                   AfterFailure(state, Count(fails, FailN)))
  BY <1>1, <1>2, SameRules DEF H!RecordFail
<1> QED BY <1>3, CountsUpdate, FailLinearizes

LEMMA SucceedsOnce ==
    ASSUME TypeOK, NEW p \in Procs, ClearFails(p)
    PROVE  SettledBy(p)' = H!RecordSuccess(SettledBy(p))
<1>1. SettledBy(p) = Rec(state, reason, fails, succ)
  BY Cases, Fields DEF SettledCases, ClearFails, At
<1>2. Rec(state, reason, fails, succ).succ = succ
      /\ Rec(state, reason, fails, succ).state = state
  BY DEF Rec
<1>3. H!RecordSuccess(SettledBy(p))
        = SetState(SetCounts(Rec(state, reason, fails, succ), 0, Count(succ, PassN)),
                   AfterSuccess(state, Count(succ, PassN)))
  BY <1>1, <1>2, SameRules DEF H!RecordSuccess
<1> QED BY <1>3, CountsUpdate, SuccessLinearizes

(* Eject takes effect at its load, and so does Restore.                    *)
LEMMA EjectsOnce ==
    ASSUME TypeOK, NEW p \in Procs, Eject(p)
    PROVE  \/ SettledBy(p)' = SettledBy(p)
           \/ /\ SettledBy(p).state # "Ejected"
              /\ SettledBy(p)' = H!SetState(SettledBy(p), H!Goal("Ejected", "operator"))
<1>1. SettledBy(p) = Now /\ Now.state = state
  BY Cases, Fields DEF SettledCases, Eject, At
<1>2. UNCHANGED fields BY DEF Eject
<1>3. CASE state = "Ejected"
  <2>1. Decide(p, Keep) BY <1>3 DEF Eject
  <2>2. SettledBy(p)' = SetState(Now, Keep)
    BY <1>2, <2>1, KeepTyped, Decided
  <2> QED BY <1>1, <2>2 DEF SetState
<1>4. CASE state # "Ejected"
  <2>1. Decide(p, Goal("Ejected", "operator")) BY <1>4 DEF Eject
  <2>2. Goal("Ejected", "operator") \in Goals
    BY GoalTyped DEF States, Reasons
  <2>3. SettledBy(p)' = SetState(Now, Goal("Ejected", "operator"))
    BY <1>2, <2>1, <2>2, Decided
  <2> QED BY <1>1, <1>4, <2>3, SameRules
<1> QED BY <1>3, <1>4

LEMMA RestoresOnce ==
    ASSUME TypeOK, NEW p \in Procs, Restore(p) \/ RestoreOr(p)
    PROVE  \/ SettledBy(p)' = SettledBy(p)
           \/ /\ SettledBy(p).state \in {"Ejected", "Down"}
              /\ SettledBy(p)' = H!SetState(H!SetCounts(SettledBy(p), 0, 0),
                                            H!Goal("Probing", "restore"))
<1>1. SettledBy(p) = Now /\ Now.state = state
  BY Cases, Fields DEF SettledCases, Restore, RestoreOr, At
<1>2. UNCHANGED fields /\ Now' = Now
  BY DEF Restore, RestoreOr, Now, fields
<1>3. CASE pc'[p] = "resetFails"
  <2>1. state \in {"Ejected", "Down"}
    BY <1>3 DEF Restore, RestoreOr, Goto, TypeOK
  <2>2. SettledBy(p)' = SetState(SetCounts(Now', 0, 0), Goal("Probing", "restore"))
    BY <1>3, NextCases DEF SettledCases
  <2> QED BY <1>1, <1>2, <2>1, <2>2, SameRules
<1>4. CASE pc'[p] # "resetFails"
  <2>1. pc'[p] \in Resting
    BY <1>4 DEF Restore, RestoreOr, Goto, TypeOK, Resting
  <2> QED BY <1>1, <1>2, <2>1, NextCases DEF SettledCases, Resting
<1> QED BY <1>3, <1>4

LEMMA ResetSilent ==
    ASSUME TypeOK, NEW p \in Procs, ResetFails(p) \/ ResetSucc(p)
    PROVE  SettledBy(p)' = SettledBy(p)
<1> DEFINE g == Goal("Probing", "restore")
<1>0. g # Keep BY DEF Goal, Keep
<1>1. CASE ResetFails(p)
  <2>1. /\ pc[p] = "resetFails" /\ pc'[p] = "resetSucc" /\ fails' = 0
        /\ state' = state /\ reason' = reason
    BY <1>1 DEF ResetFails, At, Goto, TypeOK
  <2>2. /\ SettledBy(p) = SetState(SetCounts(Now, 0, 0), g)
        /\ SettledBy(p)' = SetState(SetCounts(Now', fails', 0), g)
    BY <2>1, Cases, NextCases DEF SettledCases
  <2> HIDE DEF g
  <2> QED BY <2>1, <2>2, Fields, CountsUpdate
<1>2. CASE ResetSucc(p)
  <2>1. /\ pc[p] = "resetSucc" /\ pc'[p] = "set" /\ goal'[p] = g
        /\ fails' = fails /\ succ' = 0 /\ state' = state /\ reason' = reason
    BY <1>2 DEF ResetSucc, At, Goto, TypeOK
  <2>2. /\ SettledBy(p) = SetState(SetCounts(Now, fails, 0), g)
        /\ SettledBy(p)' = SetState(Now', g)
    BY <2>1, Cases, NextCases DEF SettledCases
  <2> HIDE DEF g
  <2> QED BY <2>1, <2>2, Fields, CountsUpdate
<1> QED BY <1>1, <1>2

(* Every step of the only goroutine maps to a call of Health or a stutter. *)
LEMMA MapsToHealth ==
    ASSUME TypeOK, NEW p \in Procs, Settled = SettledBy(p), Settled' = SettledBy(p)',
           Start(p) \/ Step(p)
    PROVE  [H!Next]_Settled
<1>1. CASE Start(p) \/ PingEnds(p) \/ Ponged(p)
  <2>1. pc[p] \in Resting /\ pc'[p] \in Resting /\ UNCHANGED fields
    <3>1. CASE ReactorFails(p) BY <3>1 DEF ReactorFails, At, Goto, TypeOK, Resting
    <3>2. CASE ReactorSucceeds(p) BY <3>2 DEF ReactorSucceeds, At, Goto, TypeOK, Resting
    <3>3. CASE Probe(p) BY <3>3 DEF Probe, At, Goto, TypeOK, Resting
    <3>4. CASE OperatorActs(p) BY <3>4 DEF OperatorActs, At, Goto, TypeOK, Resting
    <3>5. CASE PingEnds(p) BY <3>5 DEF PingEnds, At, Goto, TypeOK, Resting
    <3>6. CASE Ponged(p) BY <3>6 DEF Ponged, At, Goto, TypeOK, Resting
    <3>7. CASE LocalFails(p) BY <3>7 DEF LocalFails, At, Goto, TypeOK, Resting
    <3> QED BY <1>1, <3>1, <3>2, <3>3, <3>4, <3>5, <3>6, <3>7 DEF Start
  <2> QED BY <2>1, RestSilent
<1>2. CASE CountFail(p)
  BY <1>2, FailsOnce DEF H!Next, H!Fails
<1>3. CASE ClearFails(p)
  BY <1>3, SucceedsOnce DEF H!Next, H!Succeeds
<1>4. CASE ClearSucc(p) \/ CountSucc(p)
  BY <1>4, ClearSilent
<1>5. CASE JudgeFail(p) \/ JudgeSucc(p)
  BY <1>5, JudgeSilent
<1>6. CASE Eject(p)
  BY <1>6, EjectsOnce DEF H!Next, H!Ejects
<1>7. CASE Restore(p) \/ RestoreOr(p)
  BY <1>7, RestoresOnce DEF H!Next, H!Restores
<1>8. CASE ResetFails(p) \/ ResetSucc(p)
  BY <1>8, ResetSilent
<1>9. CASE StoreState(p) \/ StoreReason(p)
  BY <1>9, StoreSilent
<1> QED
  BY <1>1, <1>2, <1>3, <1>4, <1>5, <1>6, <1>7, <1>8, <1>9 DEF Step

(* With one goroutine the methods are atomic: the step-by-step endpoint    *)
(* implements the health state machine.                                    *)
THEOREM OneGoroutine ==
    ASSUME NEW P, Procs = {P}
    PROVE  Spec => Sequential
<1>1. Settled = SettledBy(P) /\ Settled' = SettledBy(P)'
  <2>1. (CHOOSE p \in Procs : TRUE) = P OBVIOUS
  <2> QED BY <2>1 DEF Settled
<1>2. Init => H!Init
  <2> SUFFICES ASSUME Init PROVE Settled = H!New
    BY DEF H!Init
  <2>1. pc[P] = "idle" BY DEF Init
  <2>2. Settled = Now BY <1>1, <2>1, Cases DEF SettledCases
  <2> QED BY <2>2 DEF Init, Now, H!New
<1>3. TypeOK /\ [Next]_vars => [H!Next]_Settled
  <2> SUFFICES ASSUME TypeOK, [Next]_vars PROVE [H!Next]_Settled
    OBVIOUS
  <2>1. CASE UNCHANGED vars \/ UpstreamChanges
    <3>1. /\ UNCHANGED <<fields, pc, n, goal>>
      BY <2>1 DEF vars, UpstreamChanges
    <3>2. Settled' = Settled
      BY <1>1, <3>1 DEF SettledBy, fields
    <3> QED BY <3>2
  <2>2. ASSUME NEW p \in Procs, Start(p) \/ Step(p) PROVE [H!Next]_Settled
    BY <1>1, <2>2, MapsToHealth
  <2> QED BY <2>1, <2>2 DEF Next
<1> QED BY <1>2, <1>3, EndpointTypes, PTL DEF Spec, Sequential, H!Spec

(* Health's step, from what the methods make of a consistent endpoint.     *)
LEMMA SettledStays ==
    Good(Settled) /\ [H!Next]_Settled => Good(Settled)'
<1> SUFFICES ASSUME Good(Settled), [H!Next]_Settled PROVE Good(Settled')
  OBVIOUS
<1>1. CASE H!Fails
  BY <1>1, FailGood, SameCalls DEF H!Fails
<1>2. CASE H!Succeeds
  BY <1>2, SuccessGood, SameCalls DEF H!Succeeds
<1>3. CASE H!Ejects
  BY <1>3, EjectGood, SameRules DEF H!Ejects
<1>4. CASE H!Restores
  BY <1>4, RestoreGood, SameRules DEF H!Restores
<1>5. CASE Settled' = Settled BY <1>5
<1> QED BY <1>1, <1>2, <1>3, <1>4, <1>5 DEF H!Next

LEMMA SettledGood ==
    ASSUME NEW P, Procs = {P}
    PROVE  Spec => []Good(Settled)
<1>1. H!Init => Good(Settled)
  BY NewGood, SameCalls DEF H!Init
<1> QED BY <1>1, SettledStays, OneGoroutine, PTL DEF Sequential, H!Spec

(* With one goroutine the state is the one its counters explain, once the  *)
(* call under way is through: an endpoint is down after FailN failures in  *)
(* a row, and only then.                                                   *)
THEOREM OneGoroutineCounts ==
    ASSUME NEW P, Procs = {P}
    PROVE  Spec => []StateMatchesCounters
<1>1. Good(Settled) => StateMatchesCounters
  BY DEF Good, StateMatchesCounters, H!StateMatchesCounters
<1> QED BY <1>1, SettledGood, PTL

(* With one goroutine the reason is the one of the state.                  *)
THEOREM OneGoroutineExplains ==
    ASSUME NEW P, Procs = {P}
    PROVE  Spec => []ReasonMatchesState
<1>1. Good(Settled) => ReasonMatchesState
  BY DEF Good, ReasonMatchesState, H!ReasonMatchesState
<1> QED BY <1>1, SettledGood, PTL
============================================================================
