-------------------------- MODULE LifecycleProofs --------------------------
(***************************************************************************)
(* Lifecycle for any files, any number of reactors and of lookups: types,  *)
(* that a file that was loaded is usable, and how the process ends.        *)
(***************************************************************************)
EXTENDS Lifecycle, TLAPS

LEMMA PositiveIs ==
  ASSUME NEW x \in Int, NEW d \in Int, d > 0
  PROVE  Positive(x, d) \in Int /\ Positive(x, d) > 0
  BY DEF Positive

(* A record with the fields of a file, each of its type, is one.           *)
LEMMA FileOf ==
  ASSUME NEW g,
         g = [version |-> g.version, reactors |-> g.reactors, ip |-> g.ip,
              port |-> g.port, backlog |-> g.backlog, bind |-> g.bind,
              chunk |-> g.chunk, high |-> g.high, low |-> g.low,
              maxPayload |-> g.maxPayload, idle |-> g.idle, interval |-> g.interval,
              timeout |-> g.timeout, fail |-> g.fail, pass |-> g.pass,
              upstreams |-> g.upstreams, routes |-> g.routes],
         g.version \in Int, g.reactors \in Int, g.ip \in {"", "v4", "any", "bad"},
         g.port \in Int, g.backlog \in Int,
         g.bind \in {"", "loopback", "remote", "bad"},
         g.chunk \in Int, g.high \in Int, g.low \in Int, g.maxPayload \in Nat,
         g.idle \in Int, g.interval \in Int, g.timeout \in Int,
         g.fail \in Int, g.pass \in Int,
         g.upstreams \in Seq(Upstream), g.routes \in Seq(Route)
  PROVE  g \in File
  BY DEF File

LEMMA WeightedUpstream ==
  ASSUME NEW u \in Upstream
  PROVE  Weighted(u) \in Upstream /\ Weighted(u).weight > 0
<1>1. u.weight \in Int
  BY DEF Upstream
<1>2. Positive(u.weight, 1) \in Int /\ Positive(u.weight, 1) > 0
  BY <1>1, PositiveIs
<1>. QED  BY <1>2 DEF Upstream, Weighted

LEMMA DefaultsUpstreams ==
  ASSUME NEW f \in File
  PROVE  LET s == ApplyDefaults(f).upstreams IN
         /\ s \in Seq(Upstream)
         /\ \A i \in DOMAIN s : s[i].weight > 0
<1>. DEFINE s == [i \in DOMAIN f.upstreams |-> Weighted(f.upstreams[i])]
<1>1. f.upstreams \in Seq(Upstream)
  BY DEF File
<1>2. ApplyDefaults(f).upstreams = s
  BY DEF ApplyDefaults
<1>3. ASSUME NEW i \in DOMAIN f.upstreams
      PROVE  Weighted(f.upstreams[i]) \in Upstream /\ Weighted(f.upstreams[i]).weight > 0
  <2>1. f.upstreams[i] \in Upstream
    BY <1>1
  <2>. QED  BY <2>1, WeightedUpstream
<1>4. DOMAIN f.upstreams = 1 .. Len(f.upstreams) /\ Len(f.upstreams) \in Nat
  BY <1>1
<1>5. s \in Seq(Upstream)
  BY <1>3, <1>4
<1>. QED  BY <1>2, <1>3, <1>5

LEMMA DefaultsType ==
  ASSUME NEW f \in File
  PROVE  ApplyDefaults(f) \in File
<1>1. /\ f.version \in Int /\ f.reactors \in Int /\ f.port \in Int /\ f.backlog \in Int
      /\ f.chunk \in Int /\ f.high \in Int /\ f.low \in Int /\ f.maxPayload \in Nat
      /\ f.idle \in Int /\ f.interval \in Int /\ f.timeout \in Int
      /\ f.fail \in Int /\ f.pass \in Int
  BY DEF File
<1>2. NonZero(f.version, 1) \in Int /\ NonZero(f.port, 9000) \in Int
      /\ NonZero(f.maxPayload, DefaultCap) \in Nat
  BY <1>1 DEF NonZero, DefaultCap
<1>. DEFINE chunk == Positive(f.chunk, DefaultChunk)
<1>3. chunk \in Int
  BY <1>1 DEF Positive, DefaultChunk
<1>4. Positive(f.high, (chunk * 3) \div 4) \in Int /\ Positive(f.low, chunk \div 4) \in Int
  <2>. HIDE DEF chunk
  <2>. QED  BY <1>1, <1>3 DEF Positive
<1>5. /\ Positive(f.reactors, 1) \in Int /\ Positive(f.backlog, 1024) \in Int
      /\ Positive(f.idle, DefaultIdle) \in Int /\ Positive(f.interval, 2000) \in Int
      /\ Positive(f.timeout, 800) \in Int /\ Positive(f.fail, 3) \in Int
      /\ Positive(f.pass, 2) \in Int
  BY <1>1 DEF Positive, DefaultIdle
<1>6. Given(f.ip, "any") \in {"", "v4", "any", "bad"}
      /\ Given(f.bind, "loopback") \in {"", "loopback", "remote", "bad"}
  BY DEF Given, File
<1>. DEFINE ups == [i \in DOMAIN f.upstreams |-> Weighted(f.upstreams[i])]
            high == Positive(f.high, (chunk * 3) \div 4)
            low == Positive(f.low, chunk \div 4)
<1>7. ups \in Seq(Upstream)
  BY DefaultsUpstreams DEF ApplyDefaults
<1>8. f.routes \in Seq(Route)
  BY DEF File
<1>9. high \in Int /\ low \in Int
  BY <1>4
<1>. DEFINE g ==
         [version |-> NonZero(f.version, 1), reactors |-> Positive(f.reactors, 1),
          ip |-> Given(f.ip, "any"), port |-> NonZero(f.port, 9000),
          backlog |-> Positive(f.backlog, 1024), bind |-> Given(f.bind, "loopback"),
          chunk |-> chunk, high |-> high, low |-> low,
          maxPayload |-> NonZero(f.maxPayload, DefaultCap),
          idle |-> Positive(f.idle, DefaultIdle), interval |-> Positive(f.interval, 2000),
          timeout |-> Positive(f.timeout, 800),
          fail |-> Positive(f.fail, 3), pass |-> Positive(f.pass, 2),
          upstreams |-> ups, routes |-> f.routes]
<1>10. ApplyDefaults(f) = g
  BY DEF ApplyDefaults
<1>. HIDE DEF ups, high, low, chunk
<1>11. /\ g = [version |-> g.version, reactors |-> g.reactors, ip |-> g.ip,
                port |-> g.port, backlog |-> g.backlog, bind |-> g.bind,
                chunk |-> g.chunk, high |-> g.high, low |-> g.low,
                maxPayload |-> g.maxPayload, idle |-> g.idle, interval |-> g.interval,
                timeout |-> g.timeout, fail |-> g.fail, pass |-> g.pass,
                upstreams |-> g.upstreams, routes |-> g.routes]
       /\ g.version \in Int /\ g.reactors \in Int /\ g.port \in Int
       /\ g.backlog \in Int /\ g.chunk \in Int /\ g.high \in Int /\ g.low \in Int
       /\ g.maxPayload \in Nat /\ g.idle \in Int /\ g.interval \in Int
       /\ g.timeout \in Int /\ g.fail \in Int /\ g.pass \in Int
  BY <1>2, <1>3, <1>5, <1>9
<1>12. /\ g.ip \in {"", "v4", "any", "bad"}
       /\ g.bind \in {"", "loopback", "remote", "bad"}
       /\ g.upstreams \in Seq(Upstream) /\ g.routes \in Seq(Route)
  BY <1>6, <1>7, <1>8
<1>. HIDE DEF g
<1>. QED  BY <1>10, <1>11, <1>12, FileOf

(* In a list with unique ids, an id finds its own entry.                   *)
LEMMA GetOwn ==
  ASSUME NEW S, NEW s \in Seq(S), Unique(s)
  PROVE  /\ \A i \in DOMAIN s : Get(s, s[i].id) = i
         /\ \A id \in Ids(s) : Get(s, id) \in DOMAIN s
<1>1. ASSUME NEW i \in DOMAIN s  PROVE Get(s, s[i].id) = i
  <2>1. i \in Int
    OBVIOUS
  <2>2. s[i].id = s[i].id /\ \A j \in DOMAIN s : s[j].id = s[i].id => j <= i
    BY <2>1 DEF Unique
  <2>3. Last(s, s[i].id) \in DOMAIN s /\ s[Last(s, s[i].id)].id = s[i].id
    BY <2>2 DEF Last
  <2>4. Last(s, s[i].id) = i
    BY <2>3 DEF Unique
  <2>. QED  BY <2>4 DEF Get, Ids
<1>. QED  BY <1>1 DEF Ids

LEMMA ValidIsUsable ==
  ASSUME NEW f \in File, Validate(ApplyDefaults(f))
  PROVE  Usable(ApplyDefaults(f))
<1>. DEFINE g == ApplyDefaults(f)
<1>1. /\ f.backlog \in Int /\ f.idle \in Int /\ f.interval \in Int /\ f.timeout \in Int
      /\ f.fail \in Int /\ f.pass \in Int
  BY DEF File
<1>2. g.backlog > 0 /\ g.idle > 0 /\ g.interval > 0 /\ g.timeout > 0
      /\ g.fail > 0 /\ g.pass > 0
  <2>1. /\ Positive(f.backlog, 1024) > 0 /\ Positive(f.idle, DefaultIdle) > 0
        /\ Positive(f.interval, 2000) > 0 /\ Positive(f.timeout, 800) > 0
        /\ Positive(f.fail, 3) > 0 /\ Positive(f.pass, 2) > 0
    BY <1>1 DEF Positive, DefaultIdle
  <2>2. /\ g.backlog = Positive(f.backlog, 1024) /\ g.idle = Positive(f.idle, DefaultIdle)
        /\ g.interval = Positive(f.interval, 2000) /\ g.timeout = Positive(f.timeout, 800)
        /\ g.fail = Positive(f.fail, 3) /\ g.pass = Positive(f.pass, 2)
    BY DEF ApplyDefaults
  <2>. QED  BY <2>1, <2>2
<1>3. g \in File
  BY DefaultsType
<1>4. g.upstreams \in Seq(Upstream) /\ g.routes \in Seq(Route)
  BY <1>3 DEF File
<1>5. Unique(g.upstreams) /\ Unique(g.routes)
  BY DEF Validate
<1>6. \A i \in DOMAIN g.upstreams :
         Get(g.upstreams, g.upstreams[i].id) = i /\ g.upstreams[i].weight > 0
  BY <1>4, <1>5, GetOwn, DefaultsUpstreams
<1>7. ASSUME NEW i \in DOMAIN g.routes
      PROVE  /\ Get(g.routes, g.routes[i].id) = i /\ g.routes[i].upstreams # <<>>
             /\ \A k \in DOMAIN g.routes[i].upstreams :
                    Members(g, g.routes[i])[k] \in DOMAIN g.upstreams
  <2>1. Get(g.routes, g.routes[i].id) = i
    BY <1>4, <1>5, GetOwn
  <2>2. /\ g.routes[i].upstreams # <<>>
        /\ \A k \in DOMAIN g.routes[i].upstreams :
               g.routes[i].upstreams[k] \in Ids(g.upstreams)
    BY DEF Validate
  <2>3. \A k \in DOMAIN g.routes[i].upstreams :
            Members(g, g.routes[i])[k] = Get(g.upstreams, g.routes[i].upstreams[k])
    BY DEF Members
  <2>. QED  BY <1>4, <1>5, <2>1, <2>2, <2>3, GetOwn
<1>8. g.low \in Int /\ g.high \in Int
  BY <1>3 DEF File
<1>9. g.reactors \in 1 .. 64 /\ g.low > 0 /\ g.high > g.low /\ g.maxPayload \in 1 .. HardCap
  BY DEF Validate
<1>10. g.reactors \in 1 .. 64 /\ 0 < g.low /\ g.low < g.high /\ g.maxPayload > 0
  <2>. HIDE DEF g
  <2>. QED  BY <1>8, <1>9
<1>. QED  BY <1>2, <1>6, <1>7, <1>10 DEF Usable
----------------------------------------------------------------------------
(* The invariant.  Reactors do not run before Start and are not told to    *)
(* stop before main is done draining, or Build unwinds; while main listens *)
(* to SIGHUP it is never unheard; and main has passed only reactors that   *)
(* are done.                                                               *)

NotYet == {"load", "bind", "resolve", "new", "unwind", "start"}
Unstopped == (NotYet \ {"unwind"}) \cup {"admin", "watch", "notify", "wait", "drain"}

Idle    == pc \in NotYet => \A i \in DOMAIN rx : rx[i] = "made"
Untold  == pc \in Unstopped => stopping = {}
Heard   == /\ hupQuit => pc \in Closing \cup Over
           /\ pc \in {"notify", "wait"} => hup # "off"
           /\ pc = "wait" => notified
Passed  == pc = "stop" =>
               admin = "closed" /\ \A i \in DOMAIN rx : i < at => rx[i] = "done"

Control == Idle /\ Untold /\ Heard /\ Passed /\ CleanEnd
IInv    == TypeOK /\ LoadedIsUsable /\ Control

LEMMA InitIInv == Init => IInv
<1>. SUFFICES ASSUME Init PROVE IInv
  OBVIOUS
<1>1. TypeOK
  <2>1. rx \in Seq(Steps) /\ stopping \subseteq DOMAIN rx /\ broken \subseteq DOMAIN rx
    BY DEF Init
  <2>2. cfg \in File /\ at \in Nat \ {0} /\ tries \in 0 .. Attempts - 1
        /\ streams \in 0 .. MaxStreams
    BY LifecycleAssumption DEF Init
  <2>3. hupQueued \in BOOLEAN /\ hupQuit \in BOOLEAN
        /\ notified \in BOOLEAN /\ queued \in BOOLEAN
    BY DEF Init
  <2>4. /\ pc \in StartUp /\ killedIn \in StartUp
        /\ admin \in {"off", "serving", "draining", "closed"}
        /\ hup \in {"off", "watching", "reloading"}
    BY DEF Init, StartUp
  <2>. QED  BY <2>1, <2>2, <2>3, <2>4, Zenon DEF TypeOK
<1>2. LoadedIsUsable /\ Control
  BY DEF Init, LoadedIsUsable, Control, Idle, Untold, Heard, Passed, CleanEnd,
         NotYet, Unstopped, Closing, Over
<1>. QED  BY <1>1, <1>2 DEF IInv

LEMMA TypeStep == TypeOK /\ [Next]_vars => TypeOK'
<1>. SUFFICES ASSUME TypeOK, [Next]_vars PROVE TypeOK'
  OBVIOUS
<1>. USE LifecycleAssumption
     DEF TypeOK, Steps, Fail, StartUp, Closing, Over, Alive, building, reactors, server,
         watcher, signals
<1>1. CASE Load
  BY <1>1, DefaultsType DEF Load
<1>2. CASE CheckBind
  BY <1>2 DEF CheckBind
<1>3. CASE Resolve
  BY <1>3 DEF Resolve, NextUpstream, Lookup
<1>4. CASE Resolved
  BY <1>4 DEF Resolved
<1>5. CASE NewReactor
  BY <1>5 DEF NewReactor
<1>6. CASE Built
  BY <1>6 DEF Built
<1>7. CASE Start
  BY <1>7 DEF Start
<1>8. CASE AdminListen
  BY <1>8 DEF AdminListen
<1>9. CASE WatchSIGHUP
  BY <1>9 DEF WatchSIGHUP
<1>10. CASE Notify
  BY <1>10 DEF Notify
<1>11. CASE TakeSignal
  BY <1>11 DEF TakeSignal
<1>12. CASE Drained
  BY <1>12 DEF Drained
<1>13. CASE CloseStop
  BY <1>13 DEF CloseStop
<1>14. CASE AwaitDone
  BY <1>14 DEF AwaitDone
<1>15. CASE Stopped
  BY <1>15 DEF Stopped
<1>16. ASSUME NEW i \in DOMAIN rx, RunBegin(i) PROVE TypeOK'
  BY <1>16 DEF RunBegin, Move
<1>17. ASSUME NEW i \in DOMAIN rx, FindStop(i) PROVE TypeOK'
  BY <1>17 DEF FindStop, Move
<1>18. ASSUME NEW i \in DOMAIN rx, Shutdown(i) PROVE TypeOK'
  BY <1>18 DEF Shutdown, Move
<1>19. ASSUME NEW i \in DOMAIN rx, WaitFails(i) PROVE TypeOK'
  BY <1>19 DEF WaitFails, Move
<1>20. CASE TakeHup
  <2>1. hupQueued' \in BOOLEAN /\ queued' \in BOOLEAN
    BY <1>20, Zenon DEF TakeHup
  <2>2. UNCHANGED <<hupQuit, notified>>
    BY <1>20 DEF TakeHup
  <2>3. /\ pc' \in StartUp \cup {"wait"} \cup Closing \cup Over
        /\ killedIn' \in StartUp \cup {"wait"} \cup Closing
        /\ pc' \in {"load", "bind", "resolve", "new"} => pc' = pc
        /\ hup' \in {"off", "watching", "reloading"}
    BY <1>20 DEF TakeHup
  <2>4. UNCHANGED <<building, reactors, server>>
    BY <1>20 DEF TakeHup
  <2>. QED  BY <2>1, <2>2, <2>3, <2>4
<1>21. CASE Reloaded
  BY <1>21 DEF Reloaded
<1>22. CASE Unwatch
  BY <1>22 DEF Unwatch
<1>23. CASE SIGHUP
  <2>1. hupQueued' \in BOOLEAN /\ queued' \in BOOLEAN
    BY <1>23, Zenon DEF SIGHUP, Kill
  <2>2. UNCHANGED <<hupQuit, notified>>
    BY <1>23 DEF SIGHUP
  <2>3. /\ pc' \in StartUp \cup {"wait"} \cup Closing \cup Over
        /\ killedIn' \in StartUp \cup {"wait"} \cup Closing
        /\ pc' \in {"load", "bind", "resolve", "new"} => pc' = pc
        /\ hup' \in {"off", "watching", "reloading"}
    BY <1>23 DEF SIGHUP, Kill
  <2>4. UNCHANGED <<building, reactors, server>>
    BY <1>23 DEF SIGHUP
  <2>. QED  BY <2>1, <2>2, <2>3, <2>4
<1>24. CASE SIGTERM
  <2>1. hupQueued' \in BOOLEAN /\ queued' \in BOOLEAN
    BY <1>24, Zenon DEF SIGTERM, Kill
  <2>2. UNCHANGED <<hupQuit, notified>>
    BY <1>24 DEF SIGTERM
  <2>3. /\ pc' \in StartUp \cup {"wait"} \cup Closing \cup Over
        /\ killedIn' \in StartUp \cup {"wait"} \cup Closing
        /\ pc' \in {"load", "bind", "resolve", "new"} => pc' = pc
        /\ hup' \in {"off", "watching", "reloading"}
    BY <1>24 DEF SIGTERM, Kill
  <2>4. UNCHANGED <<building, reactors, server>>
    BY <1>24 DEF SIGTERM
  <2>. QED  BY <2>1, <2>2, <2>3, <2>4
<1>25. CASE OpenStream
  BY <1>25 DEF OpenStream
<1>26. CASE CloseStream
  BY <1>26 DEF CloseStream
<1>27. CASE UNCHANGED vars
  BY <1>27 DEF vars
<1>. QED
  BY <1>1, <1>2, <1>3, <1>4, <1>5, <1>6, <1>7, <1>8, <1>9, <1>10, <1>11, <1>12, <1>13, <1>14,
     <1>15, <1>16, <1>17, <1>18, <1>19, <1>20, <1>21, <1>22, <1>23, <1>24, <1>25, <1>26, <1>27
     DEF Next, Main, Run, Watcher

LEMMA ControlStep == TypeOK /\ Control /\ [Next]_vars => Control'
<1>. SUFFICES ASSUME TypeOK, Control, [Next]_vars PROVE Control'
  OBVIOUS
<1>. USE DEF Control, Idle, Untold, Heard, Passed, CleanEnd, NotYet, Unstopped, TypeOK,
         Steps, Fail, StartUp, Closing, Over, Alive, building, reactors, server,
         watcher, signals
<1>1. CASE Load
  BY <1>1 DEF Load
<1>2. CASE CheckBind
  BY <1>2 DEF CheckBind
<1>3. CASE Resolve
  BY <1>3 DEF Resolve, NextUpstream, Lookup
<1>4. CASE Resolved
  BY <1>4 DEF Resolved
<1>5. CASE NewReactor
  BY <1>5 DEF NewReactor
<1>6. CASE Built
  BY <1>6 DEF Built
<1>7. CASE Start
  BY <1>7 DEF Start
<1>8. CASE AdminListen
  BY <1>8 DEF AdminListen
<1>9. CASE WatchSIGHUP
  BY <1>9 DEF WatchSIGHUP
<1>10. CASE Notify
  BY <1>10 DEF Notify
<1>11. CASE TakeSignal
  BY <1>11 DEF TakeSignal
<1>12. CASE Drained
  BY <1>12 DEF Drained
<1>13. CASE CloseStop
  BY <1>13 DEF CloseStop
<1>14. CASE AwaitDone
  BY <1>14 DEF AwaitDone
<1>15. CASE Stopped
  BY <1>15 DEF Stopped
<1>16. ASSUME NEW i \in DOMAIN rx, RunBegin(i) PROVE Control'
  BY <1>16 DEF RunBegin, Move
<1>17. ASSUME NEW i \in DOMAIN rx, FindStop(i) PROVE Control'
  BY <1>17 DEF FindStop, Move
<1>18. ASSUME NEW i \in DOMAIN rx, Shutdown(i) PROVE Control'
  BY <1>18 DEF Shutdown, Move
<1>19. ASSUME NEW i \in DOMAIN rx, WaitFails(i) PROVE Control'
  BY <1>19 DEF WaitFails, Move
<1>20. CASE TakeHup
  BY <1>20 DEF TakeHup
<1>21. CASE Reloaded
  BY <1>21 DEF Reloaded
<1>22. CASE Unwatch
  BY <1>22 DEF Unwatch
<1>23. CASE SIGHUP
  BY <1>23 DEF SIGHUP, Kill
<1>24. CASE SIGTERM
  BY <1>24 DEF SIGTERM, Kill
<1>25. CASE OpenStream
  BY <1>25 DEF OpenStream
<1>26. CASE CloseStream
  BY <1>26 DEF CloseStream
<1>27. CASE UNCHANGED vars
  BY <1>27 DEF vars
<1>. QED
  BY <1>1, <1>2, <1>3, <1>4, <1>5, <1>6, <1>7, <1>8, <1>9, <1>10, <1>11, <1>12, <1>13, <1>14,
     <1>15, <1>16, <1>17, <1>18, <1>19, <1>20, <1>21, <1>22, <1>23, <1>24, <1>25, <1>26, <1>27
     DEF Next, Main, Run, Watcher

LEMMA UsableStep == TypeOK /\ LoadedIsUsable /\ [Next]_vars => LoadedIsUsable'
<1>. SUFFICES ASSUME TypeOK, LoadedIsUsable, [Next]_vars PROVE LoadedIsUsable'
  OBVIOUS
<1>1. CASE Load
  <2>1. CASE pc' = "bind"
    <3>1. cfg \in File /\ Validate(ApplyDefaults(cfg)) /\ cfg' = ApplyDefaults(cfg)
      BY <1>1, <2>1 DEF Load, Fail, TypeOK
    <3>. QED  BY <3>1, ValidIsUsable DEF LoadedIsUsable
  <2>2. CASE pc' # "bind"
    BY <1>1, <2>2 DEF Load, Fail, LoadedIsUsable
  <2>. QED  BY <2>1, <2>2
<1>2. CASE cfg' = cfg /\ (pc' \in {"bind", "resolve", "new"} => pc \in {"bind", "resolve", "new"})
  BY <1>2 DEF LoadedIsUsable
<1>3. CASE pc' \notin {"bind", "resolve", "new"}
  BY <1>3 DEF LoadedIsUsable
<1>4. ASSUME ~Load PROVE \/ cfg' = cfg /\ (pc' \in {"bind", "resolve", "new"} =>
                                              pc \in {"bind", "resolve", "new"})
                         \/ pc' \notin {"bind", "resolve", "new"}
  <2>1. CASE CheckBind \/ Resolve \/ Resolved \/ NewReactor \/ Built
    BY <2>1 DEF CheckBind, Resolve, NextUpstream, Lookup, Resolved, NewReactor, Built, Fail
  <2>2. CASE Start \/ AdminListen \/ WatchSIGHUP \/ Notify \/ TakeSignal \/ Drained
    BY <2>2 DEF Start, AdminListen, WatchSIGHUP, Notify, TakeSignal, Drained
  <2>3. CASE CloseStop \/ AwaitDone \/ Stopped
    BY <2>3 DEF CloseStop, AwaitDone, Stopped, building
  <2>4. CASE Run \/ (\E i \in DOMAIN rx : WaitFails(i))
    BY <2>4 DEF Run, RunBegin, FindStop, Shutdown, WaitFails, Move, building
  <2>5. CASE Watcher \/ SIGHUP \/ SIGTERM \/ OpenStream \/ CloseStream
    BY <2>5 DEF Watcher, TakeHup, Reloaded, Unwatch, SIGHUP, SIGTERM, Kill,
                OpenStream, CloseStream, building
  <2>6. CASE UNCHANGED vars
    BY <2>6 DEF vars, building
  <2>. QED  BY <1>4, <2>1, <2>2, <2>3, <2>4, <2>5, <2>6 DEF Next, Main
<1>. QED  BY <1>1, <1>2, <1>3, <1>4

LEMMA Invariant == Spec => []IInv
<1>1. IInv /\ [Next]_vars => IInv'
  BY TypeStep, ControlStep, UsableStep DEF IInv
<1>. QED  BY InitIInv, <1>1, PTL DEF Spec

(* Types, for any number of reactors and upstreams: main's walks over the  *)
(* lists stay in bounds and the lookups stay within their attempts.        *)
THEOREM Typed == Spec => []TypeOK
<1>1. IInv => TypeOK
  BY DEF IInv
<1>. QED  BY Invariant, <1>1, PTL

(* Whatever files there are, one that config.Load lets through has unique  *)
(* ids, routes with members that exist, and positive sizes, weights,       *)
(* thresholds and time-outs.                                               *)
THEOREM LoadsUsable == Spec => []LoadedIsUsable
<1>1. IInv => LoadedIsUsable
  BY DEF IInv
<1>. QED  BY Invariant, <1>1, PTL

(* The process that Runtime.Stop lets return has stopped every reactor, no *)
(* reactor is stopped before that, and no signal kills a waiting main.     *)
THEOREM EndsCleanly == Spec => []CleanEnd
<1>1. IInv => CleanEnd
  BY DEF IInv, Control
<1>. QED  BY Invariant, <1>1, PTL
=============================================================================
