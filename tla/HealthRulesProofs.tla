------------------------- MODULE HealthRulesProofs -------------------------
(***************************************************************************)
(* What each method of an endpoint makes of a consistent one, for every    *)
(* pair of thresholds: lemmas for the proofs about Health and Endpoint.    *)
(***************************************************************************)
EXTENDS HealthRules, TLAPS

(* The invariant is inductive once the counters are in range; Good states  *)
(* it of one endpoint value, so that each method is one lemma.             *)
Good(e) ==
    /\ e \in Endpoints
    /\ e.state = "Down" => e.fails >= FailN
    /\ e.fails >= FailN => e.state \in {"Down", "Ejected"}
    /\ e.state \in {"Healthy", "Degraded"} =>
           (e.state = "Degraded" <=> FailN >= 2 /\ e.fails >= FailN \div 2)
    /\ e.state = "Probing" => e.succ < PassN
    /\ e.state = "Healthy" <=> e.reason = "fine"
    /\ e.state = "Ejected" <=> e.reason = "operator"
    /\ e.state = "Down" <=> e.reason = "threshold"
    /\ e.state = "Degraded" <=> e.reason = "failures"

LEMMA Thresholds == FailN \in Nat /\ FailN >= 1 /\ PassN \in Nat /\ PassN >= 1
BY HealthAssumption

LEMMA Zero == 0 \in 0 .. FailN /\ 0 \in 0 .. PassN
BY Thresholds

(* FailN \div 2 is all the proofs need to know of the lower threshold.     *)
LEMMA Half ==
    /\ FailN \div 2 \in Nat /\ FailN \div 2 < FailN
    /\ FailN >= 2 => FailN \div 2 >= 1
BY Thresholds

(* What a call that sets the state leaves of endpoint d.                   *)
LEMMA SetFields ==
    ASSUME NEW d \in Endpoints, NEW st \in States, NEW why \in Reasons
    PROVE  LET r == SetState(d, Goal(st, why))
           IN  /\ r \in Endpoints /\ r.state = st /\ r.reason = why
               /\ r.fails = d.fails /\ r.succ = d.succ
<1>1. Goal(st, why) # Keep
  <2>1. st # "none" BY DEF States
  <2>2. Goal(st, why).to = st /\ Keep.to = "none" BY DEF Goal, Keep
  <2> QED BY <2>1, <2>2
<1>2. SetState(d, Goal(st, why)) = [d EXCEPT !.state = st, !.reason = why]
  BY <1>1 DEF SetState, Goal
<1> QED BY <1>2 DEF Endpoints

(* The counters after a call, in range.                                    *)
LEMMA CountFields ==
    ASSUME NEW e \in Endpoints, NEW f \in 0 .. FailN, NEW g \in 0 .. PassN
    PROVE  /\ SetCounts(e, f, g) \in Endpoints
           /\ SetCounts(e, f, g).state = e.state
           /\ SetCounts(e, f, g).reason = e.reason
           /\ SetCounts(e, f, g).fails = f /\ SetCounts(e, f, g).succ = g
BY DEF Endpoints, SetCounts

LEMMA NewGood == Good(New)
BY Thresholds, Half DEF Good, New, Endpoints, States, Reasons

LEMMA FailGood == ASSUME NEW e, Good(e) PROVE Good(RecordFail(e))
<1> DEFINE m == Count(e.fails, FailN)
<1> DEFINE d == SetCounts(e, m, 0)
<1>1. /\ e \in Endpoints /\ m \in 0 .. FailN /\ m >= 1
      /\ m >= e.fails
  BY Thresholds DEF Good, Endpoints, Count
<1>2. /\ d \in Endpoints /\ d.state = e.state /\ d.reason = e.reason
      /\ d.fails = m /\ d.succ = 0
  BY <1>1, CountFields, Zero
<1>3. RecordFail(e) = SetState(d, AfterFailure(e.state, m))
  BY DEF RecordFail
<1> HIDE DEF m, d
<1>4. CASE e.state = "Ejected"
  <2>1. AfterFailure(e.state, m) = Keep
    BY <1>4 DEF AfterFailure
  <2> QED BY <1>2, <1>3, <1>4, <2>1, Half, Thresholds DEF Good, SetState
<1>5. CASE e.state # "Ejected" /\ m >= FailN
  <2>1. AfterFailure(e.state, m) = Goal("Down", "threshold")
    BY <1>1, <1>5, Thresholds DEF AfterFailure
  <2>2. "Down" \in States /\ "threshold" \in Reasons
    BY DEF States, Reasons
  <2> QED
    BY <1>1, <1>2, <1>3, <1>5, <2>1, <2>2, SetFields, Half, Thresholds DEF Good
<1>6. CASE e.state # "Ejected" /\ m < FailN /\ m >= FailN \div 2 /\ FailN >= 2
  <2>1. AfterFailure(e.state, m) = Goal("Degraded", "failures")
    BY <1>6, <1>1, Thresholds DEF AfterFailure
  <2>2. "Degraded" \in States /\ "failures" \in Reasons
    BY DEF States, Reasons
  <2> QED
    BY <1>1, <1>2, <1>3, <1>6, <2>1, <2>2, SetFields, Half, Thresholds DEF Good
<1>7. CASE e.state # "Ejected" /\ m < FailN /\ ~(m >= FailN \div 2 /\ FailN >= 2)
  <2>1. AfterFailure(e.state, m) = Keep
    BY <1>7, <1>1, Thresholds DEF AfterFailure
  <2>2. RecordFail(e) = d
    BY <1>3, <2>1 DEF SetState
  <2>3. e.state # "Down" /\ e.state # "Degraded"
    BY <1>1, <1>7, Half, Thresholds DEF Good, Endpoints
  <2> QED BY <1>1, <1>2, <1>7, <2>2, <2>3, Half, Thresholds DEF Good, Endpoints
<1> QED BY <1>1, <1>4, <1>5, <1>6, <1>7, Thresholds, Half

LEMMA SuccessGood == ASSUME NEW e, Good(e) PROVE Good(RecordSuccess(e))
<1> DEFINE m == Count(e.succ, PassN)
<1> DEFINE d == SetCounts(e, 0, m)
<1>1. e \in Endpoints /\ m \in 0 .. PassN
  BY Thresholds DEF Good, Endpoints, Count
<1>2. /\ d \in Endpoints /\ d.state = e.state /\ d.reason = e.reason
      /\ d.fails = 0 /\ d.succ = m
  BY <1>1, CountFields, Zero
<1>3. RecordSuccess(e) = SetState(d, AfterSuccess(e.state, m))
  BY DEF RecordSuccess
<1> HIDE DEF m, d
<1>4. CASE e.state \in {"Healthy", "Ejected"}
  <2>1. AfterSuccess(e.state, m) = Keep
    BY <1>4 DEF AfterSuccess
  <2> QED BY <1>2, <1>3, <1>4, <2>1, Half, Thresholds DEF Good, SetState
<1>5. CASE e.state \in {"Probing", "Down", "Degraded"} /\ m >= PassN
  <2>1. AfterSuccess(e.state, m) = Goal("Healthy", "fine")
    BY <1>5, <1>1, Thresholds DEF AfterSuccess
  <2>2. "Healthy" \in States /\ "fine" \in Reasons
    BY DEF States, Reasons
  <2> QED
    BY <1>1, <1>2, <1>3, <1>5, <2>1, <2>2, SetFields, Half, Thresholds DEF Good
<1>6. CASE e.state \in {"Down", "Degraded"} /\ m < PassN
  <2>1. AfterSuccess(e.state, m) = Goal("Probing", "recovering")
    BY <1>6, <1>1, Thresholds DEF AfterSuccess
  <2>2. "Probing" \in States /\ "recovering" \in Reasons
    BY DEF States, Reasons
  <2> QED
    BY <1>1, <1>2, <1>3, <1>6, <2>1, <2>2, SetFields, Half, Thresholds DEF Good
<1>7. CASE e.state = "Probing" /\ m < PassN
  <2>1. AfterSuccess(e.state, m) = Keep
    BY <1>7, <1>1, Thresholds DEF AfterSuccess
  <2> QED BY <1>1, <1>2, <1>3, <1>7, <2>1, Half, Thresholds DEF Good, SetState, Endpoints
<1>8. e.state \in States
  BY <1>1 DEF Endpoints
<1> QED BY <1>1, <1>4, <1>5, <1>6, <1>7, <1>8, Thresholds DEF States

LEMMA EjectGood ==
    ASSUME NEW e, Good(e)
    PROVE  Good(SetState(e, Goal("Ejected", "operator")))
<1>1. "Ejected" \in States /\ "operator" \in Reasons
  BY DEF States, Reasons
<1> QED BY <1>1, SetFields, Half, Thresholds DEF Good

LEMMA RestoreGood ==
    ASSUME NEW e, Good(e)
    PROVE  Good(SetState(SetCounts(e, 0, 0), Goal("Probing", "restore")))
<1> DEFINE d == SetCounts(e, 0, 0)
<1>1. "Probing" \in States /\ "restore" \in Reasons
  BY DEF States, Reasons
<1>2. d \in Endpoints /\ d.fails = 0 /\ d.succ = 0
  BY CountFields, Zero DEF Good
<1> HIDE DEF d
<1>3. Good(SetState(d, Goal("Probing", "restore")))
  BY <1>1, <1>2, SetFields, Half, Thresholds DEF Good
<1> QED BY <1>3 DEF d
============================================================================
