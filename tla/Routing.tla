------------------------------ MODULE Routing ------------------------------
(***************************************************************************)
(* internal/routing: Route.Pick as the reactors call it on a route they    *)
(* share, while probes, answers and operators change which members are     *)
(* eligible.  A weighted pick runs under the route's mutex but loads the   *)
(* state of each member in a step of its own; the round robin, which is    *)
(* also what a weighted pick that found nobody falls back to, takes no     *)
(* lock.  What a call returns is where it ends: Choose or Found with a     *)
(* member, Missed with nil.                                                *)
(***************************************************************************)
EXTENDS Integers, FiniteSetsExt

CONSTANTS
    Picker,   \* reactors
    Nobody,   \* holder of a free mutex
    N,        \* members of the route, numbered from 0
    Weight,   \* their weights
    Half,     \* half the values of the counter: 2^63, less here
    MaxPicks  \* bound: picks that are counted

ASSUME RoutingAssumption ==
    /\ Nobody \notin Picker /\ IsFiniteSet(Picker)
    /\ N \in Nat \ {0} /\ Weight \in [0 .. N - 1 -> Int]
    /\ Half \in Nat \ {0} /\ MaxPicks \in Nat

VARIABLES
    algo,    \* Route.Algo
    up,      \* members that are eligible
    holder,  \* who holds SWRR.mu
    current, \* SWRR.current
    total,   \* of the pick that holds the mutex: the weights it has added,
    best,    \*   and the member it would take, -1 for none
    n,       \* RR.n
    pc,      \* where each reactor's call is
    at,      \* the loop variable of its call
    start,   \* where its round robin starts
    steady,  \* members eligible ever since it started
    served,  \* picks of each member so far,
    quiet    \*   counted while nothing flips

weighted == <<holder, current, total, best>>
calls == <<pc, at, start, steady>>
counts == <<served, quiet>>
vars == <<algo, up, weighted, n, calls, counts>>

Members == 0 .. N - 1
Steps   == {"idle", "lock", "scan", "next", "walk", "panic"}

(* NewEndpoint and Pick both take a weight below 1 for 1.                  *)
W(i) == IF Weight[i] <= 0 THEN 1 ELSE Weight[i]
SumOver(f) == MapThenSumSet(LAMBDA i : f[i], Members)
Total == SumOver([i \in Members |-> W(i)])

\* defect: an int has fewer bits than the counter
NarrowInt(k) == IF k % Half < Half \div 2 THEN k % Half ELSE (k % Half) - Half

(* The counter as an int, and Go's remainder, which has the sign of its    *)
(* left operand.                                                           *)
AsInt(k) == IF k < Half THEN k ELSE k - 2 * Half
GoRem(a, b) == IF a >= 0 THEN a % b ELSE -((-a) % b)

Init ==
    /\ algo \in {"rr", "swrr"} /\ up = Members
    /\ holder = Nobody /\ current = [i \in Members |-> 0] /\ total = 0 /\ best = -1
    /\ n = 0
    /\ pc = [p \in Picker |-> "idle"] /\ at = [p \in Picker |-> 0]
    /\ start = [p \in Picker |-> 0] /\ steady = [p \in Picker |-> {}]
    /\ served = [i \in Members |-> 0] /\ quiet = TRUE

----------------------------------------------------------------------------
(* Go ends the process when a goroutine panics.                            *)
Alive == \A p \in Picker : pc[p] # "panic"

Goto(p, step, i) ==
    /\ pc' = [pc EXCEPT ![p] = step] /\ at' = [at EXCEPT ![p] = i]

Return(p) ==
    /\ Goto(p, "idle", 0)
    /\ start' = [start EXCEPT ![p] = 0] /\ steady' = [steady EXCEPT ![p] = {}]

(* One more pick of i is counted; counting ends with the MaxPicks-th.      *)
Served(i) ==
    LET sum == SumOver(served)
    IN  /\ served' = IF quiet /\ sum < MaxPicks THEN [served EXCEPT ![i] = @ + 1]
                     ELSE [j \in Members |-> 0]
        /\ quiet' = (quiet /\ sum < MaxPicks)

Call(p) ==
    /\ Alive /\ pc[p] = "idle"
    /\ Goto(p, IF algo = "swrr" THEN "lock" ELSE "next", 0)
    /\ UNCHANGED <<algo, up, weighted, n, start, steady, counts>>

Lock(p) ==
    /\ Alive /\ pc[p] = "lock" /\ holder = Nobody
    /\ holder' = p /\ total' = 0 /\ best' = -1
    /\ Goto(p, "scan", 0)
    /\ UNCHANGED <<algo, up, current, n, start, steady, counts>>

\* defect: the first eligible member is taken, whatever its current weight
ScanTakesFirst(p) ==
    /\ Alive /\ pc[p] = "scan" /\ at[p] < N
    /\ LET i == at[p] IN
       IF i \in up
       THEN /\ current' = [current EXCEPT ![i] = @ + W(i)]
            /\ total' = total + W(i)
            /\ best' = IF best < 0 THEN i ELSE best
       ELSE UNCHANGED <<current, total, best>>
    /\ Goto(p, "scan", at[p] + 1)
    /\ UNCHANGED <<algo, up, holder, n, start, steady, counts>>

\* defect: a member's weight replaces what it has saved up
ScanForgets(p) ==
    /\ Alive /\ pc[p] = "scan" /\ at[p] < N
    /\ LET i == at[p] IN
       IF i \in up
       THEN /\ current' = [current EXCEPT ![i] = W(i)]
            /\ total' = total + W(i)
            /\ best' = IF best < 0 \/ W(i) > current[best] THEN i ELSE best
       ELSE UNCHANGED <<current, total, best>>
    /\ Goto(p, "scan", at[p] + 1)
    /\ UNCHANGED <<algo, up, holder, n, start, steady, counts>>

(* One member of SWRR.Pick's loop; bestVal is current[best], which nothing *)
(* changes before the loop ends.                                           *)
Scan(p) ==
    /\ Alive /\ pc[p] = "scan" /\ at[p] < N
    /\ LET i == at[p] IN
       IF i \in up
       THEN /\ current' = [current EXCEPT ![i] = @ + W(i)]
            /\ total' = total + W(i)
            /\ best' = IF best < 0 \/ current[i] + W(i) > current[best] THEN i ELSE best
       ELSE UNCHANGED <<current, total, best>>
    /\ Goto(p, "scan", at[p] + 1)
    /\ UNCHANGED <<algo, up, holder, n, start, steady, counts>>

\* defect: the weights of all members are taken back, eligible or not
ChooseTakesAll(p) ==
    /\ Alive /\ pc[p] = "scan" /\ at[p] = N /\ best >= 0
    /\ current' = [current EXCEPT ![best] = @ - Total]
    /\ holder' = Nobody /\ total' = 0 /\ best' = -1
    /\ Served(best) /\ Return(p)
    /\ UNCHANGED <<algo, up, n>>

(* The end of SWRR.Pick, and the unlock.                                   *)
Choose(p) ==
    /\ Alive /\ pc[p] = "scan" /\ at[p] = N /\ best >= 0
    /\ current' = [current EXCEPT ![best] = @ - total]
    /\ holder' = Nobody /\ total' = 0 /\ best' = -1
    /\ Served(best) /\ Return(p)
    /\ UNCHANGED <<algo, up, n>>

\* defect: the early return keeps the mutex
NoneEligibleLocked(p) ==
    /\ Alive /\ pc[p] = "scan" /\ at[p] = N /\ best < 0
    /\ Goto(p, "next", 0)
    /\ UNCHANGED <<algo, up, weighted, n, start, steady, counts>>

NoneEligible(p) ==
    /\ Alive /\ pc[p] = "scan" /\ at[p] = N /\ best < 0
    /\ holder' = Nobody
    /\ Goto(p, "next", 0)
    /\ UNCHANGED <<algo, up, current, total, best, n, start, steady, counts>>

(* RR.Next: atomic.Uint64.Add, the conversion to int and the remainder; an *)
(* index below 0 is out of range at once.                                  *)
Next1(p) ==
    /\ Alive /\ pc[p] = "next"
    /\ n' = (n + 1) % (2 * Half)
    /\ start' = [start EXCEPT ![p] = GoRem(AsInt(n), N)]
    /\ Goto(p, IF start'[p] < 0 THEN "panic" ELSE "walk", 0)
    /\ steady' = [steady EXCEPT ![p] = up]
    /\ UNCHANGED <<algo, up, weighted, counts>>

\* defect: the walk stops at the last member
IndexNoWrap(p) == IF start[p] + at[p] < N THEN start[p] + at[p] ELSE N - 1

Index(p) == (start[p] + at[p]) % N

Found(p) ==
    /\ Alive /\ pc[p] = "walk" /\ at[p] < N /\ Index(p) \in up
    /\ Served(Index(p)) /\ Return(p)
    /\ UNCHANGED <<algo, up, weighted, n>>

\* defect: the loop runs once too often
WalkTooFar(p) ==
    /\ Alive /\ pc[p] = "walk" /\ at[p] <= N /\ Index(p) \notin up
    /\ Goto(p, "walk", at[p] + 1)
    /\ UNCHANGED <<algo, up, weighted, n, start, steady, counts>>

WalkOn(p) ==
    /\ Alive /\ pc[p] = "walk" /\ at[p] < N /\ Index(p) \notin up
    /\ Goto(p, "walk", at[p] + 1)
    /\ UNCHANGED <<algo, up, weighted, n, start, steady, counts>>

Missed(p) ==
    /\ Alive /\ pc[p] = "walk" /\ at[p] = N
    /\ Return(p)
    /\ UNCHANGED <<algo, up, weighted, n, counts>>

(* Somebody stores the state of member i; the statistics end.              *)
Flip(i) ==
    /\ Alive
    /\ up' = IF i \in up THEN up \ {i} ELSE up \cup {i}
    /\ steady' = [p \in Picker |-> steady[p] \ {i}]
    /\ served' = [j \in Members |-> 0] /\ quiet' = FALSE
    /\ UNCHANGED <<algo, weighted, n, pc, at, start>>

Step(p) ==
    \/ Lock(p) \/ Scan(p) \/ Choose(p) \/ NoneEligible(p)
    \/ Next1(p) \/ Found(p) \/ WalkOn(p) \/ Missed(p)

Next ==
    \/ \E p \in Picker : Call(p) \/ Step(p)
    \/ \E i \in Members : Flip(i)

Spec == Init /\ [][Next]_vars

(* A call goes on: nothing disables its next step but the mutex, and       *)
(* sync.Mutex hands itself to a goroutine that has waited long enough.     *)
Fairness == \A p \in Picker : SF_vars(Step(p))

FairSpec == Spec /\ Fairness

----------------------------------------------------------------------------
(* Properties.                                                             *)

(* Types of every variable.                                                *)
TypeOK ==
    /\ algo \in {"rr", "swrr"} /\ up \subseteq Members
    /\ holder \in Picker \cup {Nobody} /\ current \in [Members -> Int]
    /\ total \in Nat /\ best \in Members \cup {-1}
    /\ n \in 0 .. 2 * Half - 1
    /\ pc \in [Picker -> Steps] /\ at \in [Picker -> 0 .. N]
    /\ start \in [Picker -> Int] /\ steady \in [Picker -> SUBSET Members]
    /\ served \in [Members -> Nat] /\ quiet \in BOOLEAN

(* Pick returns nil only if no member was eligible all through its round   *)
(* robin: one that flips while the loop reads may be missed, one that      *)
(* stays eligible may not.                                                 *)
NilSound == \A p \in Picker : pc[p] = "walk" /\ at[p] = N => steady[p] = {}

(* The round robin indexes out of range only after Half picks.             *)
InRangeBeforeHalf == ~Alive => n > Half \/ n = 0

(* Whatever flips during the scans, each pick takes back the weights it    *)
(* gave out.                                                               *)
WeightsBalanced == holder = Nobody => SumOver(current) = 0

(* Whatever flips, a member that stays eligible is picked again and again  *)
(* as long as weighted picks succeed: what the others give up goes to it.  *)
Picked(i) == \E p \in Picker : Choose(p) /\ best = i
NotStarved ==
    \A i \in Members :
        <>[](i \in up) /\ []<><<\E j \in Members : Picked(j)>>_vars
            => []<><<Picked(i)>>_vars

(* While nothing flips: a weighted member is never a whole pick ahead of   *)
(* its share of the picks, so it is behind by less than one for each other *)
(* member; round robin picks are level but for the calls in flight.        *)
FairShare ==
    quiet =>
      IF algo = "swrr"
      THEN LET ahead(i) == served[i] * Total - SumOver(served) * W(i)
           IN  \A i \in Members :
                 ahead(i) < Total /\ -ahead(i) <= (N - 1) * (Total - 1)
      ELSE LET inFlight == Cardinality({p \in Picker : pc[p] = "walk"})
           IN  \A i, j \in Members : served[i] - served[j] <= 1 + inFlight

(* A pick returns, however the reactors contend for the mutex and the      *)
(* members flap.                                                           *)
PickReturns == \A p \in Picker : pc[p] # "idle" ~> pc[p] = "idle" \/ ~Alive
============================================================================
