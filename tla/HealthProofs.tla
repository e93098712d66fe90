---------------------------- MODULE HealthProofs ----------------------------
(***************************************************************************)
(* The health state machine is consistent for every pair of thresholds.    *)
(***************************************************************************)
EXTENDS Health, HealthRulesProofs, TLAPS

IInv == Good(ep)

LEMMA NextIInv == IInv /\ [Next]_ep => IInv'
<1> SUFFICES ASSUME Good(ep), [Next]_ep PROVE Good(ep')
  BY DEF IInv
<1>1. CASE Fails BY <1>1, FailGood DEF Fails
<1>2. CASE Succeeds BY <1>2, SuccessGood DEF Succeeds
<1>3. CASE Ejects BY <1>3, EjectGood DEF Ejects
<1>4. CASE Restores BY <1>4, RestoreGood DEF Restores
<1>5. CASE UNCHANGED ep BY <1>5
<1> QED BY <1>1, <1>2, <1>3, <1>4, <1>5 DEF Next

(* Good(ep) is an invariant, and what the runs check follows from it.      *)
LEMMA HealthIsGood == Spec => []IInv
<1>1. Init => IInv BY NewGood DEF Init, IInv
<1> QED BY <1>1, NextIInv, PTL DEF Spec

(* The state of an endpoint says what its counters say, whatever calls are *)
(* made in whatever order (state.go's thresholds and resets).              *)
THEOREM StateFollowsCounters == Spec => []StateMatchesCounters
<1>1. IInv => StateMatchesCounters
  BY DEF IInv, Good, StateMatchesCounters
<1> QED BY <1>1, HealthIsGood, PTL

(* The reason the admin API shows is the one of the state it shows.        *)
THEOREM ReasonFollowsState == Spec => []ReasonMatchesState
<1>1. IInv => ReasonMatchesState
  BY DEF IInv, Good, ReasonMatchesState
<1> QED BY <1>1, HealthIsGood, PTL
============================================================================
