----------------------------- MODULE Lifecycle -----------------------------
(***************************************************************************)
(* The process (cmd/minienvoy/main.go): it loads a file, builds the        *)
(* reactors (app.Build), starts them, opens the admin server, watches for  *)
(* SIGHUP, waits for SIGINT or SIGTERM and stops everything again.  main,  *)
(* the reactors' goroutines, the SIGHUP goroutine, event streams of the    *)
(* admin server and signals interleave.  A signal that nobody has asked    *)
(* for ends the process.                                                   *)
(*                                                                         *)
(* The metrics ticker and the probe loop also start and end with a         *)
(* channel, but nobody waits for them; they are left out.                  *)
(***************************************************************************)
EXTENDS Config

CONSTANTS
    Files,      \* configuration files, as parsed
    NoFile,     \* a nil *config.File
    Attempts,   \* lookups of a host name before Build gives up
    MaxStreams  \* bound: event streams open at once

ASSUME LifecycleAssumption ==
    /\ Files \subseteq File /\ NoFile \notin File
    /\ Attempts \in Nat \ {0} /\ MaxStreams \in Nat

VARIABLES
    pc,        \* where main is
    cfg,       \* the file, as parsed, then as loaded until Build is done
    at,        \* the upstream or reactor main is at
    tries,     \* failed lookups of that upstream
    rx,        \* rt.Reactors: where the goroutine of each is
    stopping,  \* reactors whose stop channel is closed
    broken,    \* reactors that left the loop because Wait failed
    admin,     \* the admin server
    streams,   \* its open event streams
    hup,       \* the goroutine of WatchSIGHUP
    hupQueued, \* its signal channel, one deep
    hupQuit,   \* its done channel is closed
    notified,  \* main has called signal.Notify
    queued,    \* main's signal channel, one deep
    killedIn   \* history: where main was when a signal killed it

building == <<cfg, at, tries>>
reactors == <<rx, stopping, broken>>
server   == <<admin, streams>>
watcher  == <<hup, hupQueued, hupQuit>>
signals  == <<notified, queued, killedIn>>
vars     == <<pc, building, reactors, server, watcher, signals>>

StartUp == {"load", "bind", "resolve", "new", "unwind", "start",
            "admin", "watch", "notify"}
Closing == {"drain", "stop"}
Over    == {"failed", "exited", "killed"}  \* the process has ended
Alive   == pc \notin Over

Init ==
    /\ pc = "load" /\ cfg \in Files /\ at = 1 /\ tries = 0
    /\ rx = <<>> /\ stopping = {} /\ broken = {}
    /\ admin = "off" /\ streams = 0
    /\ hup = "off" /\ hupQueued = FALSE /\ hupQuit = FALSE
    /\ notified = FALSE /\ queued = FALSE /\ killedIn = "load"

----------------------------------------------------------------------------
(* main, up to Build.  os.Exit(1) is "failed".                             *)

Fail == pc' = "failed" /\ cfg' = NoFile

Load ==
    /\ pc = "load"
    /\ LET f == ApplyDefaults(cfg) IN
       \/ Validate(f) /\ pc' = "bind" /\ cfg' = f
       \/ ~Validate(f) /\ Fail
       \/ Fail     \* not readable, not YAML
    /\ UNCHANGED <<at, tries, reactors, server, watcher, signals>>

(* MustRemoteToken: an address that is not loopback needs a token.         *)
CheckBind ==
    /\ pc = "bind"
    /\ \/ pc' = "resolve" /\ UNCHANGED cfg  \* a loopback address, or a token
       \/ cfg.bind # "loopback" /\ Fail      \* no token
    /\ UNCHANGED <<at, tries, reactors, server, watcher, signals>>

NextUpstream == at' = at + 1 /\ tries' = 0 /\ UNCHANGED <<pc, cfg>>

\* defect: after the last attempt the count starts again
LookupForEver ==
    \/ NextUpstream
    \/ tries' = (tries + 1) % Attempts /\ UNCHANGED <<pc, cfg, at>>

\* defect: one lookup too many
LookupOnceMore ==
    \/ NextUpstream
    \/ tries < Attempts /\ tries' = tries + 1 /\ UNCHANGED <<pc, cfg, at>>
    \/ tries = Attempts /\ Fail /\ UNCHANGED <<at, tries>>

(* One turn of ResolveIPv4's loop for a host name.                         *)
Lookup ==
    \/ NextUpstream
    \/ tries + 1 < Attempts /\ tries' = tries + 1 /\ UNCHANGED <<pc, cfg, at>>
    \/ tries + 1 = Attempts /\ Fail /\ UNCHANGED <<at, tries>>

Resolve ==
    /\ pc = "resolve" /\ at \in DOMAIN cfg.upstreams
    /\ CASE cfg.upstreams[at].host = "v4" -> NextUpstream
         [] cfg.upstreams[at].host = "v6" -> Fail /\ UNCHANGED <<at, tries>>
         [] OTHER -> Lookup
    /\ UNCHANGED <<reactors, server, watcher, signals>>

Resolved ==
    /\ pc = "resolve" /\ at \notin DOMAIN cfg.upstreams
    /\ IF cfg.ip = "bad" THEN Fail ELSE pc' = "new" /\ UNCHANGED cfg
    /\ UNCHANGED <<at, tries, reactors, server, watcher, signals>>

(* reactor.New opens a poller and a listener.  When it fails, Build stops  *)
(* the reactors it already has; their goroutines do not run yet.           *)
NewReactor ==
    /\ pc = "new" /\ Len(rx) < cfg.reactors
    /\ \/ rx' = Append(rx, "made") /\ UNCHANGED <<pc, cfg, at>>
       \/ rx = <<>> /\ Fail /\ UNCHANGED <<rx, at>>
       \/ rx # <<>> /\ pc' = "unwind" /\ cfg' = NoFile /\ at' = 1 /\ UNCHANGED rx
    /\ UNCHANGED <<tries, stopping, broken, server, watcher, signals>>

Built ==
    /\ pc = "new" /\ Len(rx) = cfg.reactors
    /\ pc' = "start" /\ cfg' = NoFile
    /\ UNCHANGED <<at, tries, reactors, server, watcher, signals>>

----------------------------------------------------------------------------
(* main, from Start to the signal.                                         *)

Start ==
    /\ pc = "start"
    /\ rx' = [i \in DOMAIN rx |-> "spawned"] /\ pc' = "admin"
    /\ UNCHANGED <<building, stopping, broken, server, watcher, signals>>

AdminListen ==
    /\ pc = "admin"
    /\ \/ pc' = "watch" /\ admin' = "serving"
       \/ pc' = "failed" /\ UNCHANGED admin
    /\ UNCHANGED <<building, reactors, streams, watcher, signals>>

WatchSIGHUP ==
    /\ pc = "watch" /\ pc' = "notify" /\ hup' = "watching"
    /\ UNCHANGED <<building, reactors, server, hupQueued, hupQuit, signals>>

Notify ==
    /\ pc = "notify" /\ pc' = "wait" /\ notified' = TRUE
    /\ UNCHANGED <<building, reactors, server, watcher, queued, killedIn>>

(* main takes the signal, calls stopSIGHUP and begins srv.Shutdown, which  *)
(* closes the listener and idle connections.                               *)
TakeSignal ==
    /\ pc = "wait" /\ queued
    /\ pc' = "drain" /\ queued' = FALSE /\ hupQuit' = TRUE /\ admin' = "draining"
    /\ UNCHANGED <<building, reactors, streams, hup, hupQueued, notified, killedIn>>

\* defect: Shutdown has no deadline
DrainForEver ==
    /\ pc = "drain" /\ streams = 0
    /\ pc' = "stop" /\ at' = 1 /\ admin' = "closed"
    /\ UNCHANGED <<cfg, tries, reactors, streams, watcher, signals>>

(* Shutdown returns when no handler is active, and at the latest when      *)
(* cfg.Idle() is over; an event stream does not end by itself.             *)
Drained ==
    /\ pc = "drain"
    /\ pc' = "stop" /\ at' = 1 /\ admin' = "closed"
    /\ UNCHANGED <<cfg, tries, reactors, streams, watcher, signals>>

----------------------------------------------------------------------------
(* Reactor.Stop of one reactor after the other, called by Runtime.Stop and *)
(* by Build: close the channel, wake the poller, wait for done.            *)

CloseStop ==
    /\ pc \in {"unwind", "stop"} /\ at \in DOMAIN rx \ stopping
    /\ stopping' = stopping \cup {at}
    /\ UNCHANGED <<pc, building, rx, broken, server, watcher, signals>>

\* defect: Stop does not wait
AwaitNothing ==
    /\ pc \in {"unwind", "stop"} /\ at \in stopping
    /\ at' = at + 1
    /\ UNCHANGED <<pc, cfg, tries, reactors, server, watcher, signals>>

AwaitDone ==
    /\ pc \in {"unwind", "stop"} /\ at \in stopping /\ rx[at] = "done"
    /\ at' = at + 1
    /\ UNCHANGED <<pc, cfg, tries, reactors, server, watcher, signals>>

Stopped ==
    /\ pc \in {"unwind", "stop"} /\ at \notin DOMAIN rx
    /\ pc' = IF pc = "stop" THEN "exited" ELSE "failed"
    /\ UNCHANGED <<building, reactors, server, watcher, signals>>

Main ==
    \/ Load \/ CheckBind \/ Resolve \/ Resolved \/ NewReactor \/ Built
    \/ Start \/ AdminListen \/ WatchSIGHUP \/ Notify \/ TakeSignal \/ Drained
    \/ CloseStop \/ AwaitDone \/ Stopped

----------------------------------------------------------------------------
(* Reactor.Run: the goroutine starts, leaves the loop when it finds stop   *)
(* closed or when Wait fails, and closes done after shutdown.  Wait times  *)
(* out after 10 ms, so stop is found whether or not the wake-up arrives.   *)

Move(i, from, to) == rx[i] = from /\ rx' = [rx EXCEPT ![i] = to]

RunBegin(i) ==
    /\ Alive /\ Move(i, "spawned", "running")
    /\ UNCHANGED <<pc, building, stopping, broken, server, watcher, signals>>

FindStop(i) ==
    /\ Alive /\ i \in stopping /\ Move(i, "running", "leaving")
    /\ UNCHANGED <<pc, building, stopping, broken, server, watcher, signals>>

Shutdown(i) ==
    /\ Alive /\ Move(i, "leaving", "done")
    /\ UNCHANGED <<pc, building, stopping, broken, server, watcher, signals>>

WaitFails(i) ==
    /\ Alive /\ Move(i, "running", "leaving") /\ broken' = broken \cup {i}
    /\ UNCHANGED <<pc, building, stopping, server, watcher, signals>>

Run == \E i \in DOMAIN rx : RunBegin(i) \/ FindStop(i) \/ Shutdown(i)

----------------------------------------------------------------------------
(* The goroutine of WatchSIGHUP.  A reload loads the file and drops what   *)
(* it loaded: nothing of the process changes.                              *)

TakeHup ==
    /\ Alive /\ hup = "watching" /\ hupQueued
    /\ hup' = "reloading" /\ hupQueued' = FALSE
    /\ UNCHANGED <<pc, building, reactors, server, hupQuit, signals>>

\* defect: what came in during the reload is thrown away
ReloadedAndForgot ==
    /\ Alive /\ hup = "reloading" /\ hup' = "watching" /\ hupQueued' = FALSE
    /\ UNCHANGED <<pc, building, reactors, server, hupQuit, signals>>

Reloaded ==
    /\ Alive /\ hup = "reloading" /\ hup' = "watching"
    /\ UNCHANGED <<pc, building, reactors, server, hupQueued, hupQuit, signals>>

Unwatch ==
    /\ Alive /\ hup = "watching" /\ hupQuit /\ hup' = "off"
    /\ UNCHANGED <<pc, building, reactors, server, hupQueued, hupQuit, signals>>

Watcher == TakeHup \/ Reloaded \/ Unwatch

----------------------------------------------------------------------------
(* Signals, and clients of the admin server.  signal.Notify sends without  *)
(* blocking into a channel of one; a signal that finds it full is lost.    *)

Kill == pc' = "killed" /\ killedIn' = pc

SIGHUP ==
    /\ Alive
    /\ IF hup = "off" THEN Kill /\ UNCHANGED hupQueued
                      ELSE hupQueued' = TRUE /\ UNCHANGED <<pc, killedIn>>
    /\ UNCHANGED <<building, reactors, server, hup, hupQuit, notified, queued>>

SIGTERM ==
    /\ Alive
    /\ IF notified THEN queued' = TRUE /\ UNCHANGED <<pc, killedIn>>
                   ELSE Kill /\ UNCHANGED queued
    /\ UNCHANGED <<building, reactors, server, watcher, notified>>

OpenStream ==
    /\ Alive /\ admin = "serving" /\ streams < MaxStreams
    /\ streams' = streams + 1
    /\ UNCHANGED <<pc, building, reactors, admin, watcher, signals>>

CloseStream ==
    /\ Alive /\ streams > 0
    /\ streams' = streams - 1
    /\ UNCHANGED <<pc, building, reactors, admin, watcher, signals>>

Next ==
    \/ Main \/ Run \/ (\E i \in DOMAIN rx : WaitFails(i)) \/ Watcher
    \/ SIGHUP \/ SIGTERM \/ OpenStream \/ CloseStream

Spec == Init /\ [][Next]_vars

(* main and the goroutines are scheduled; lookups, Wait and Shutdown have  *)
(* their time-outs.  No client has to close a stream and no signal has to  *)
(* come.                                                                   *)
Fairness == WF_vars(Main) /\ WF_vars(Run) /\ WF_vars(Watcher)
FairSpec == Spec /\ Fairness

----------------------------------------------------------------------------
Steps == {"made", "spawned", "running", "leaving", "done"}

(* The types of the variables; the lists main walks are walked in bounds.  *)
TypeOK ==
    /\ pc \in StartUp \cup {"wait"} \cup Closing \cup Over
    /\ cfg \in File \cup {NoFile} /\ (pc \in {"load", "bind", "resolve", "new"} => cfg \in File)
    /\ at \in Nat \ {0} /\ tries \in 0 .. Attempts - 1
    /\ rx \in Seq(Steps) /\ stopping \subseteq DOMAIN rx /\ broken \subseteq DOMAIN rx
    /\ admin \in {"off", "serving", "draining", "closed"} /\ streams \in 0 .. MaxStreams
    /\ hup \in {"off", "watching", "reloading"}
    /\ hupQueued \in BOOLEAN /\ hupQuit \in BOOLEAN
    /\ notified \in BOOLEAN /\ queued \in BOOLEAN
    /\ killedIn \in StartUp \cup {"wait"} \cup Closing

(* What a loaded file guarantees: ids name one endpoint or route each and  *)
(* Build's maps lose none, no route is empty or has a nil member, and the  *)
(* numbers routing, upstream, buffer and probe divide by, count to or wait *)
(* for are positive, the water marks in order.  It is no more than that:   *)
(* a payload above the high water mark, or a listen address that cannot be *)
(* bound, passes Load.                                                     *)
LoadedIsUsable == pc \in {"bind", "resolve", "new"} => Usable(cfg)

(* How the process ends.  When main returns from Runtime.Stop, every       *)
(* reactor has run its shutdown and the admin server is closed.  Until     *)
(* main stops them, no reactor leaves but one whose Wait failed.  And once *)
(* main waits for its signal, no signal kills the process before main has  *)
(* taken one.                                                              *)
CleanEnd ==
    /\ pc = "exited" => admin = "closed" /\ \A i \in DOMAIN rx : rx[i] = "done"
    /\ \A i \in DOMAIN rx \ broken :
           rx[i] \in {"leaving", "done"} =>
               pc \in {"stop", "exited"} \/ (pc = "killed" /\ killedIn = "stop")
    /\ pc = "killed" => killedIn # "wait"

(* Start-up comes to an end: main waits for a signal, or the process is    *)
(* over, unless Build failed after the first reactor: then Stop waits for  *)
(* the done of a reactor that was never run.                               *)
HangsInBuild == pc = "unwind" /\ rx[1] = "made"
StartupSettles == (pc = "load") ~> (pc = "wait" \/ ~Alive \/ HangsInBuild)

(* A SIGINT or SIGTERM that main is notified of ends the process, whatever *)
(* streams are open, reactors have failed or signals come in addition.     *)
SignalEnds == queued ~> ~Alive

(* A SIGHUP is not lost, even one that comes during a reload: what is in   *)
(* the channel is taken out only by starting a reload, and it is taken out *)
(* unless the process stops.                                               *)
HupReloads ==
    /\ [][hupQueued /\ ~hupQueued' => hup' = "reloading"]_vars
    /\ hupQueued ~> (~hupQueued \/ hupQuit \/ ~Alive)
=============================================================================
