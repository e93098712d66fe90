------------------------------ MODULE Reactor ------------------------------
(***************************************************************************)
(* One data-plane reactor of MiniEnvoy (src/internal/reactor): a single    *)
(* goroutine that waits on an edge-triggered poller, accepts downstream    *)
(* connections, parses MENV frames out of a ring buffer per connection,    *)
(* dials an upstream for a request, forwards the frame, relays what the    *)
(* upstream answers and closes both sides together.                        *)
(*                                                                         *)
(* The record sys holds what the goroutine and the kernel know of every    *)
(* connection object.  The Go functions that run to completion inside one  *)
(* loop iteration (closeConn, flush, sendPending, ...) are operators from  *)
(* sys to sys; the loops (Run, acceptLoop, readLoop and the parse loop in  *)
(* it, shutdown) are actions that move pc, so that the kernel and the far  *)
(* ends act between any two iterations.                                    *)
(*                                                                         *)
(* Data is abstracted to frames [op, id, len]; a byte stream is a sequence *)
(* of cells, one for a header and len for the payload.                     *)
(***************************************************************************)
EXTENDS Integers, Sequences, FiniteSets

CONSTANTS
    Conn,        \* connection objects: one per accepted or dialled socket
    FD,          \* descriptors the process may have open for connections
    EP,          \* endpoints of the route table
    Nil,         \* the nil pointer
    Cap,         \* cells of a ring (one of them stays free)
    High, Low,   \* high and low water marks, in cells
    MaxReq,      \* bound: frames the clients send
    MaxClients,  \* bound: clients that connect
    MaxSlow,     \* bound: times a socket's send buffer fills
    ClientKinds, \* frames [op, len] a client may send
    UpKinds,     \* frames [op, len] an upstream may answer with
    Faults,      \* the failures and reconfigurations of the environment
    Pipelined    \* whether clients send before the last answer is in

Roles == {"new", "down", "up", "connecting"}
Ops   == {"DATA", "LOST", "PING", "PONG", "CLOSE", "ERROR", "BAD", "NONE"}
AllFaults == {"full", "reset", "eof", "leave", "refuse", "dialfail",
              "instant", "health", "sweep", "stop", "accept", "adopt"}

ASSUME ReactorAssumption ==
    /\ Nil \notin Conn \cup FD \cup EP
    /\ Conn # {} /\ FD # {} /\ IsFiniteSet(FD)
    /\ MaxReq \in Nat /\ MaxClients \in Nat /\ MaxSlow \in Nat
    /\ Cap \in Nat \ {0} /\ High \in Nat /\ Low \in Nat
    /\ ClientKinds \subseteq [op : Ops, len : Nat]
    /\ UpKinds \subseteq [op : Ops, len : Nat]
    /\ Faults \subseteq AllFaults
    /\ Pipelined \in BOOLEAN

(* Frames and cells.  "LOST" is a DATA frame whose route is not in the     *)
(* table; "BAD" one whose header Parser.Next rejects; "NONE" the zero      *)
(* Header of a new Conn.                                                   *)
Frame     == [op : Ops, id : 0 .. MaxReq, len : Nat]
NoFrame   == [op |-> "NONE", id |-> 0, len |-> 0]
ErrorOf(id) == [op |-> "ERROR", id |-> id, len |-> 1]
Pong(f)   == [f EXCEPT !.op = "PONG"]
Cell      == Frame \X Nat
Cells(f)  == [k \in 1 .. f.len + 1 |-> <<f, k - 1>>]

VARIABLES
    sys,      \* connections, table, kernel sockets (see Sys)
    pc,       \* which loop the reactor goroutine is in
    cur,      \* the connection readLoop works on
    ret,      \* the loop readLoop returns to
    batch,    \* events of the last Wait still to handle, <<fd, bits>>
    backlog,  \* connections waiting in the listener's queue
    lArmed,   \* the listener is on the poller's ready list
    eligible, \* endpoints whose state makes Route.Pick return them
    asker,    \* which client sent request id
    nreq, nclients, nslow

vars == <<sys, pc, cur, ret, batch, backlog, lArmed, eligible, asker,
          nreq, nclients, nslow>>
env  == <<backlog, lArmed, eligible, asker, nreq, nclients, nslow>>

(* The fields of sys.  tab is FDTable; fd, role, ep, peer, pend and remain  *)
(* are fields of Conn, rings the connections whose Ring is not nil and ring *)
(* what is in it; hdr and have are Parser.hdr and haveHdr; held and paused  *)
(* the connections with HasPending and Paused.  active counts as            *)
(* Endpoint.Active does.  The rest is the kernel: inbox (received, unread), *)
(* wire (sent by the far end, not yet arrived), rx and tx (the directions   *)
(* of the socket), want (epoll interest), armed (ready list), got           *)
(* (delivered to the far end).                                              *)
Sys == [tab : [FD -> Conn \cup {Nil}], fd : [Conn -> FD],
        role : [Conn -> Roles], ep : [Conn -> EP \cup {Nil}],
        peer : [Conn -> Conn \cup {Nil}],
        rings : SUBSET Conn, ring : [Conn -> Seq(Cell)],
        hdr : [Conn -> Frame], have : SUBSET Conn,
        pend : [Conn -> Frame], held : SUBSET Conn, paused : SUBSET Conn,
        remain : [Conn -> Seq(Frame)],
        inbox : [Conn -> Seq(Cell)], wire : [Conn -> Seq(Cell)],
        rx : [Conn -> {"open", "eof", "err"}],
        tx : [Conn -> {"open", "tight", "full", "syn", "broken"}],
        want : [Conn -> SUBSET {"R", "W"}], armed : SUBSET Conn,
        got : [Conn -> Seq(Frame)],
        active : [EP -> Int], panic : BOOLEAN]

Init ==
    /\ sys = [tab |-> [f \in FD |-> Nil],
              fd |-> [c \in Conn |-> CHOOSE f \in FD : TRUE],
              role |-> [c \in Conn |-> "new"], ep |-> [c \in Conn |-> Nil],
              peer |-> [c \in Conn |-> Nil], rings |-> {}, ring |-> [c \in Conn |-> <<>>],
              hdr |-> [c \in Conn |-> NoFrame], have |-> {},
              pend |-> [c \in Conn |-> NoFrame], held |-> {}, paused |-> {},
              remain |-> [c \in Conn |-> <<>>],
              inbox |-> [c \in Conn |-> <<>>], wire |-> [c \in Conn |-> <<>>],
              rx |-> [c \in Conn |-> "open"], tx |-> [c \in Conn |-> "open"],
              want |-> [c \in Conn |-> {}], armed |-> {},
              got |-> [c \in Conn |-> <<>>],
              active |-> [e \in EP |-> 0], panic |-> FALSE]
    /\ pc = "loop" /\ cur = Nil /\ ret = "loop" /\ batch = <<>>
    /\ backlog = 0 /\ lArmed = FALSE /\ eligible = EP
    /\ asker = [i \in 1 .. MaxReq |-> Nil]
    /\ nreq = 0 /\ nclients = 0 /\ nslow = 0

----------------------------------------------------------------------------
(* The table and the poller.                                               *)

(* The socket a connection object's FD names now: its own while it is in   *)
(* the table, another one's once the descriptor was closed and reused.     *)
Sock(s, c) == s.tab[s.fd[c]]
Live(s, c) == Sock(s, c) = c
Used(s, c) == Len(s.ring[c])
FreeWhole(s, c) == Cap - Used(s, c)         \* defect: no cell reserved
Free(s, c) == Cap - 1 - Used(s, c)
Readable(s, c) == s.inbox[c] # <<>> \/ s.rx[c] # "open"
Writable(s, c) == s.tx[c] \notin {"full", "syn"}

FreeFDs(s) == {f \in FD : s.tab[f] = Nil}
FreeFD(s)  == CHOOSE f \in FreeFDs(s) : TRUE
NewConns(s) == {c \in Conn : s.role[c] = "new"}
Fresh(s)   == CHOOSE c \in NewConns(s) : TRUE

(* What epoll_wait reports for a socket: level of every bit it is          *)
(* registered for, and errors always.                                      *)
Bits(s, c) ==
    {b \in s.want[c] : IF b = "R" THEN Readable(s, c) ELSE Writable(s, c)}
        \cup {b \in {"E"} : s.rx[c] = "err"}

(* An edge: the socket goes on the ready list if it has anything to report.*)
Arm(s, c) ==
    IF Bits(s, c) = {} THEN s ELSE [s EXCEPT !.armed = @ \cup {c}]

(* poller.Mod: re-registers c.FD and re-arms it.                           *)
Mod(s, c, bits) ==
    IF Sock(s, c) = Nil THEN s
    ELSE Arm([s EXCEPT !.want[Sock(s, c)] = bits], Sock(s, c))

(* adopt: a Conn around a new descriptor, in the poller and in the table.  *)
Adopt(s, c, f, role, e, tx) ==
    LET t == [s EXCEPT
                !.tab[f] = c, !.fd[c] = f, !.role[c] = role, !.ep[c] = e,
                !.rings = @ \cup {c}, !.tx[c] = tx,
                !.want[c] = IF role = "connecting" THEN {"W"} ELSE {"R"}]
    IN  Arm(IF role = "up" THEN [t EXCEPT !.active[e] = @ + 1] ELSE t, c)

----------------------------------------------------------------------------
(* Writing.                                                                *)

Room(s, c) == IF Sock(s, c) = Nil THEN "broken" ELSE s.tx[Sock(s, c)]

Deliver(s, c, fs) == [s EXCEPT !.got[Sock(s, c)] = @ \o fs]

(* flushRemain on a socket that takes writes: everything, all but the end  *)
(* of the last frame (a short write), or nothing (EAGAIN).                 *)
Resend(s, c) ==
    LET r == s.remain[c]
    IN  CASE r = <<>> -> s
          [] r # <<>> /\ Room(s, c) = "open" ->
               Mod([Deliver(s, c, r) EXCEPT !.remain[c] = <<>>], c, {"R"})
          [] r # <<>> /\ Room(s, c) = "tight" ->
               [Deliver(s, c, SubSeq(r, 1, Len(r) - 1)) EXCEPT
                   !.remain[c] = <<r[Len(r)]>>, !.tx[Sock(s, c)] = "full"]
          [] OTHER -> s

(* The interest stashRemainder registers.                                  *)
WantRead    == {"R"}                       \* defect: EvWrite not asked for
WantStashed == {"R", "W"}

(* flush's writev and stashRemainder.  A refused writev returns n = -1 and *)
(* stashRemainder slices p[-1:]: the goroutine panics.                     *)
Writev(s, c, f) ==
    CASE Room(s, c) = "open" -> Deliver(s, c, <<f>>)
      [] Room(s, c) = "tight" ->
           Mod([s EXCEPT !.remain[c] = <<f>>, !.tx[Sock(s, c)] = "full"],
               c, WantStashed)
      [] OTHER -> [s EXCEPT !.panic = TRUE]

\* defect: a new frame goes ahead of what is stashed
WriteAhead(s, c, f) ==
    LET t == Resend(s, c)
    IN  IF t.remain[c] = <<>> THEN Writev(t, c, f)
        ELSE [t EXCEPT !.remain[c] = <<f>> \o @]

(* flush while no write fails: behind the stashed remainder if any is left.*)
Write(s, c, f) ==
    LET t == Resend(s, c)
    IN  IF t.remain[c] = <<>> THEN Writev(t, c, f)
        ELSE [t EXCEPT !.remain[c] = Append(@, f)]

(* After a write error flush still appends to a non-empty remainder.       *)
Spill(s, c, f) ==
    [s EXCEPT !.remain[c] = IF @ = <<>> THEN @ ELSE Append(@, f)]

----------------------------------------------------------------------------
(* Closing.                                                                *)

\* defect: a connection that never went up is counted out
ActiveOfAny(s, c) == IF s.ep[c] = Nil THEN 0 ELSE 1

(* What closeConn subtracts from the endpoint's active count.              *)
ActiveOf(s, c) == IF s.ep[c] = Nil \/ s.role[c] = "connecting" THEN 0 ELSE 1

\* defect: the released ring stays attached
DropKeepingRing(s, c) ==
    [s EXCEPT !.tab[s.fd[c]] = Nil, !.peer[c] = Nil, !.want[c] = {},
              !.armed = @ \ {c}, !.inbox[c] = <<>>, !.wire[c] = <<>>]

(* The part of closeConn that concerns c alone.                            *)
Drop(s, c) ==
    [s EXCEPT !.tab[s.fd[c]] = Nil, !.peer[c] = Nil, !.rings = @ \ {c}, !.ring[c] = <<>>,
              !.want[c] = {}, !.armed = @ \ {c},
              !.inbox[c] = <<>>, !.wire[c] = <<>>,
              !.active = [e \in EP |-> IF e = s.ep[c]
                                       THEN @[e] - ActiveOf(s, c) ELSE @[e]]]

\* defect: the peer is left open
KeepOpen(s, c) == s

(* closeConn of a connection with no peer.                                 *)
DropLive(s, c) == IF Live(s, c) THEN Drop(s, c) ELSE s

(* replyError to a connection whose peer was just cleared: flush closes it *)
(* alone when the write fails.                                             *)
ReplyAlone(s, c, f) ==
    IF Room(s, c) = "broken" THEN Spill(DropLive(s, c), c, f)
    ELSE Write(s, c, f)

\* defect: the peer's pointer to the closed connection survives
KeepLink(s, p) == s
Unlink(s, p) == [s EXCEPT !.peer[p] = Nil]

(* closeConn.  A downstream peer gets an ERROR for the request it sent     *)
(* last; an upstream peer is closed too.                                   *)
CloseConn(s, c) ==
    IF ~Live(s, c) THEN s
    ELSE LET p == s.peer[c]
             t == Drop(s, c)
         IN  IF p = Nil THEN t
             ELSE IF t.peer[p] # c THEN t
             ELSE LET u == Unlink(t, p)
                  IN  IF u.role[p] = "down"
                      THEN ReplyAlone(u, p, ErrorOf(u.pend[p].id))
                      ELSE DropLive(u, p)

(* flush, and flushRemain as handle calls it.                              *)
Flush(s, c, f) ==
    IF Room(s, c) = "broken" THEN Spill(CloseConn(s, c), c, f)
    ELSE Write(s, c, f)

FlushRemain(s, c) ==
    IF s.remain[c] # <<>> /\ Room(s, c) = "broken" THEN CloseConn(s, c)
    ELSE Resend(s, c)

Reply(s, c, id) == Flush(s, c, ErrorOf(id))

----------------------------------------------------------------------------
(* Parser and requests.                                                    *)

ShouldPause(used)  == used >= High
ShouldResume(used) == used <= Low

\* defect: the payload stays in the ring
ConsumeNothing(s, c) == [s EXCEPT !.have = @ \ {c}]

(* Parser.ConsumePayload; on the nil ring of a closed connection it        *)
(* dereferences nil unless the payload is empty.                           *)
Consume(s, c) ==
    LET n == s.hdr[c].len
    IN  IF c \notin s.rings
        THEN IF n > 0 THEN [s EXCEPT !.panic = TRUE]
             ELSE [s EXCEPT !.have = @ \ {c}]
        ELSE [s EXCEPT !.have = @ \ {c},
                       !.ring[c] = SubSeq(@, n + 1, Len(@))]

(* The end of a held request: its payload is consumed, HasPending cleared. *)
Release(s, c) == [Consume(s, c) EXCEPT !.held = @ \ {c}]

(* sendPending.  A connection that leaves paused here is one the goroutine *)
(* calls readLoop for next.                                                *)
SendPending(s, down, up) ==
    LET t == Release(Flush(s, up, s.pend[down]), down)
    IN  CASE down \notin t.paused -> t
          [] down \in t.paused /\ down \notin t.rings ->
               [t EXCEPT !.panic = TRUE]
          [] OTHER -> IF ShouldResume(Used(t, down))
                      THEN [t EXCEPT !.paused = @ \ {down}] ELSE t

ConnectFailed(s, c) ==
    LET d == s.peer[c]
        t == CloseConn(s, c)
        u == Reply(t, d, t.pend[d].id)
        v == IF d \in u.held THEN Release(u, d) ELSE u
    IN  IF d = Nil THEN t ELSE [v EXCEPT !.peer[d] = Nil]

\* defect: the request that waited for the connect is not sent
ConnectOnly(s, c) ==
    Mod([s EXCEPT !.role[c] = "up", !.active[s.ep[c]] = @ + 1], c, {"R", "W"})

ConnectMade(s, c) ==
    LET d == s.peer[c]
        t == ConnectOnly(s, c)
    IN  IF d # Nil /\ d \in t.held THEN SendPending(t, d, c) ELSE t

FinishConnect(s, c) ==
    IF s.rx[c] = "err" THEN ConnectFailed(s, c) ELSE ConnectMade(s, c)

(* onDown for a DATA frame h on route: the endpoint e that Pick returned,  *)
(* and how the dial ends: in progress, connected at once, or refused by    *)
(* ConnectTCP4 or by adopt.                                                *)
\* defect: one upstream connection shared by all clients
AnyUpstream(s, c) ==
    LET us == {u \in Conn : Live(s, u) /\ s.role[u] = "up"}
    IN  IF us = {} THEN s.peer[c] ELSE CHOOSE u \in us : TRUE
Upstream(s, c) == s.peer[c]

NeverReuses(s, c, e) == FALSE  \* defect: a new connection for every request
Reuses(s, c, e) ==
    LET p == Upstream(s, c) IN p # Nil /\ s.ep[p] = e /\ s.role[p] = "up"

Reselect(s, c) ==
    IF s.peer[c] = Nil THEN s
    ELSE [CloseConn(s, s.peer[c]) EXCEPT !.peer[c] = Nil]

Hold(s, c, h) == [s EXCEPT !.pend[c] = h, !.held = @ \cup {c}]

OnPooled(s, c, h) == SendPending(Hold(s, c, h), c, Upstream(s, c))

\* defect: the refused frame stays with the parser
ReplyOnly(s, c, h) == Reply(s, c, h.id)

OnNoDial(s, c, h) == Consume(Reply(s, c, h.id), c)

DialRole(how) == IF how = "instant" THEN "up" ELSE "connecting"

OnDialled(s, c, h, e, n, f, how) ==
    LET tx   == IF how = "instant" THEN "open" ELSE "syn"
        t    == Adopt(s, n, f, DialRole(how), e, tx)
        u    == Hold([t EXCEPT !.peer[n] = c, !.peer[c] = n], c, h)
    IN  IF DialRole(how) = "up" THEN SendPending(u, c, n) ELSE u

(* onUp: the frame is relayed with its header re-encoded; with no peer it  *)
(* is dropped.                                                             *)
OnUp(s, c, h) ==
    IF s.peer[c] = Nil THEN Consume(s, c)
    ELSE Consume(Flush(s, s.peer[c], h), c)

(* Parser.Next: take a header off the ring, then wait for its payload.     *)
NextFrame(s, c) ==
    IF c \in s.have THEN s.hdr[c] ELSE s.ring[c][1][1]
TakeHdr(s, c) ==
    IF c \in s.have THEN s
    ELSE [s EXCEPT !.hdr[c] = s.ring[c][1][1], !.have = @ \cup {c},
                   !.ring[c] = Tail(@)]
Complete(s, c) == Used(s, c) >= s.hdr[c].len

----------------------------------------------------------------------------
(* Steps of the reactor goroutine.  A panic ends the process: the step     *)
(* that panics only raises the flag, and nothing happens after it.         *)

Running == ~sys.panic
At(p)   == Running /\ pc = p

Then(t, p, c, r) ==
    /\ sys' = IF t.panic THEN [sys EXCEPT !.panic = TRUE] ELSE t
    /\ pc' = p /\ cur' = c /\ ret' = r

Goto(t, p) == Then(t, p, cur, ret)

(* After a handler that may have called sendPending: readLoop if it        *)
(* resumed a paused connection, else on to p.                              *)
ThenResume(t, p) ==
    LET resumed == sys.paused \ t.paused
    IN  IF resumed = {} THEN Goto(t, p)
        ELSE Then(t, "read", CHOOSE c \in resumed : TRUE, p)

ReadyEvents ==
    {<<sys.fd[c], Bits(sys, c)>> : c \in {d \in sys.armed : Bits(sys, d) # {}}}
        \cup {e \in {<<Nil, {"R"}>>} : lArmed}

(* poller.Wait: every ready descriptor once, in the kernel's order; Nil    *)
(* stands for the listener.                                                *)
Wait ==
    /\ At("loop") /\ batch = <<>>
    /\ ReadyEvents # {}
    /\ batch' \in {o \in [1 .. Cardinality(ReadyEvents) -> ReadyEvents] :
                     \A i, j \in DOMAIN o : o[i] = o[j] => i = j}
    /\ sys' = [sys EXCEPT !.armed = {}] /\ lArmed' = FALSE
    /\ UNCHANGED <<pc, cur, ret, backlog, eligible, asker,
                   nreq, nclients, nslow>>

(* handle, for the event <<f, bits>> at the head of the batch.             *)
Connects(c, bits) == sys.role[c] = "connecting" /\ bits \cap {"W", "E"} # {}

HandleStale(f) == f # Nil /\ sys.tab[f] = Nil /\ Goto(sys, "loop")

HandleListen(f) == f = Nil /\ Goto(sys, "accept")

HandleConnect(c, bits) ==
    c # Nil /\ Connects(c, bits) /\ ThenResume(FinishConnect(sys, c), "loop")

(* A hangup with neither bit closes; otherwise flush what is stashed, then *)
(* read unless paused.                                                     *)
HandleIO(c, bits) ==
    /\ c # Nil /\ ~Connects(c, bits)
    /\ LET t == IF "W" \in bits THEN FlushRemain(sys, c) ELSE sys
       IN  IF bits = {"E"} THEN Goto(CloseConn(sys, c), "loop")
           ELSE IF "R" \in bits /\ c \notin sys.paused
                THEN Then(t, "read", c, "loop") ELSE Goto(t, "loop")

Handle ==
    /\ At("loop") /\ batch # <<>>
    /\ batch' = Tail(batch)
    /\ LET f    == Head(batch)[1]
           bits == Head(batch)[2]
           c    == IF f = Nil THEN Nil ELSE sys.tab[f]
       IN  \/ HandleStale(f)
           \/ HandleListen(f)
           \/ HandleConnect(c, bits)
           \/ HandleIO(c, bits)
    /\ UNCHANGED env

(* acceptLoop: adopt the next connection of the queue and read it.         *)
AcceptThen(next) ==
    /\ At("accept") /\ backlog > 0
    /\ NewConns(sys) # {} /\ FreeFDs(sys) # {}
    /\ backlog' = backlog - 1
    /\ LET c == Fresh(sys)
       IN  Then(Adopt(sys, c, FreeFD(sys), "down", Nil, "open"), "read", c, next)
    /\ UNCHANGED <<batch, lArmed, eligible, asker, nreq, nclients, nslow>>

AcceptOne == AcceptThen("loop")         \* defect: one accept per edge
Accept    == AcceptThen("accept")

(* Accept succeeds and adopt does not: the new socket is closed and the    *)
(* loop goes on.                                                           *)
AcceptDrops ==
    /\ At("accept") /\ backlog > 0
    /\ FreeFDs(sys) # {} /\ "adopt" \in Faults
    /\ backlog' = backlog - 1 /\ Goto(sys, "accept")
    /\ UNCHANGED <<batch, lArmed, eligible, asker, nreq, nclients, nslow>>

AcceptAgain ==
    /\ At("accept") /\ backlog = 0
    /\ Goto(sys, "loop") /\ UNCHANGED <<batch, env>>

(* Any other accept error leaves the loop too, whatever is still queued.   *)
AcceptFails ==
    /\ At("accept") /\ backlog > 0
    /\ FreeFDs(sys) = {} \/ "accept" \in Faults
    /\ Goto(sys, "loop") /\ UNCHANGED <<batch, env>>

(* One turn of readLoop's outer loop.                                      *)
Reading == At("read") /\ UNCHANGED <<batch, env>>

ReadReturns ==
    /\ Reading /\ cur \in sys.rings
    /\ ~ShouldPause(Used(sys, cur)) /\ Free(sys, cur) > 0
    /\ ~Readable(sys, cur)
    /\ Goto(sys, ret)

ReadGone == Reading /\ cur \notin sys.rings /\ Goto(sys, ret)

ReadPauses ==
    /\ Reading /\ cur \in sys.rings
    /\ ShouldPause(Used(sys, cur)) \/ Free(sys, cur) = 0
    /\ Goto([sys EXCEPT !.paused = @ \cup {cur}], ret)

ReadCloses ==
    /\ Reading /\ cur \in sys.rings
    /\ ~ShouldPause(Used(sys, cur)) /\ Free(sys, cur) > 0
    /\ sys.inbox[cur] = <<>> /\ sys.rx[cur] # "open"
    /\ Goto(CloseConn(sys, cur), ret)

(* Recv fills at most the contiguous part of the free space.               *)
ReadSome ==
    /\ Reading /\ cur \in sys.rings
    /\ ~ShouldPause(Used(sys, cur))
    /\ \E n \in 1 .. Free(sys, cur) :
          /\ n <= Len(sys.inbox[cur])
          /\ LET in == sys.inbox[cur]
             IN  Goto([sys EXCEPT !.ring[cur] = @ \o SubSeq(in, 1, n),
                                  !.inbox[cur] = SubSeq(in, n + 1, Len(in))],
                      "parse")

(* One turn of the loop "for !c.HasPending" with its dispatch.             *)
Parsing ==
    /\ At("parse") /\ UNCHANGED <<batch, env>>

ParseEnds ==
    /\ Parsing
    /\ \/ cur \in sys.held
       \/ /\ cur \in sys.rings \ sys.have /\ sys.ring[cur] = <<>>
    /\ Goto(sys, "read")

(* Next on the ring of a connection the last dispatch closed.              *)
ParsePanics ==
    /\ Parsing /\ cur \notin sys.held /\ cur \notin sys.rings
    /\ Goto([sys EXCEPT !.panic = TRUE], pc)

CanParse ==
    /\ Parsing /\ cur \notin sys.held /\ cur \in sys.rings
    /\ cur \in sys.have \/ sys.ring[cur] # <<>>

ParseRejects ==
    /\ CanParse /\ NextFrame(sys, cur).op = "BAD"
    /\ LET t == IF sys.role[cur] = "down" THEN Reply(sys, cur, 0) ELSE sys
       IN  Goto(CloseConn(t, cur), ret)

ParseWaits ==
    /\ CanParse /\ NextFrame(sys, cur).op # "BAD"
    /\ LET t == TakeHdr(sys, cur) IN ~Complete(t, cur) /\ Goto(t, "read")

(* dispatch of a complete frame h; t is the state with its header taken.   *)
DownPing(t, h) ==
    h.op = "PING" /\ Goto(Consume(Flush(t, cur, Pong(h)), cur), "parse")

DownClose(t, h) ==
    h.op = "CLOSE" /\ Goto(CloseConn(Consume(t, cur), cur), "parse")

DownError(t, h) == h.op = "ERROR" /\ Goto(Consume(t, cur), "parse")

(* No route, no eligible endpoint, or an opcode a client may not send.     *)
DownRefused(t, h) ==
    /\ h.op \in {"LOST", "PONG"} \/ (h.op = "DATA" /\ eligible = {})
    /\ Goto(OnNoDial(t, cur, h), "parse")

DownPooled(t, h) ==
    /\ h.op = "DATA"
    /\ \E e \in eligible : Reuses(t, cur, e)
    /\ ThenResume(OnPooled(t, cur, h), "parse")

DownUndialled(t, h) ==
    /\ h.op = "DATA"
    /\ \E e \in eligible : ~Reuses(t, cur, e)
    /\ LET u == Reselect(t, cur)
       IN  /\ FreeFDs(u) = {} \/ "dialfail" \in Faults
           /\ Goto(OnNoDial(u, cur, h), "parse")

DownDialled(t, h) ==
    /\ h.op = "DATA" /\ NewConns(t) # {}
    /\ \E e \in eligible, how \in {"progress"} \cup ({"instant"} \cap Faults) :
          /\ ~Reuses(t, cur, e)
          /\ LET u == Reselect(t, cur)
             IN  /\ FreeFDs(u) # {}
                 /\ ThenResume(OnDialled(u, cur, h, e, Fresh(t), FreeFD(u), how),
                               "parse")

Dispatch ==
    /\ CanParse
    /\ LET t == TakeHdr(sys, cur)
           h == t.hdr[cur]
       IN  /\ h.op # "BAD" /\ Complete(t, cur)
           /\ CASE sys.role[cur] = "down" ->
                     \/ DownPing(t, h) \/ DownClose(t, h) \/ DownError(t, h)
                     \/ DownRefused(t, h) \/ DownPooled(t, h)
                     \/ DownUndialled(t, h) \/ DownDialled(t, h)
                [] sys.role[cur] = "up" -> Goto(OnUp(t, cur, h), "parse")
                [] OTHER -> Goto(Consume(t, cur), "parse")

(* sweepIdle at the end of a loop iteration: any connection may have been  *)
(* idle long enough.  A sweep that closes several is several steps.        *)
SweepIdle ==
    /\ At("loop") /\ batch = <<>> /\ "sweep" \in Faults
    /\ \E c \in Conn : Live(sys, c) /\ Goto(CloseConn(sys, c), "loop")
    /\ UNCHANGED <<batch, env>>

(* Stop, or an error of Wait, ends Run; shutdown closes what is left, in   *)
(* the order of a map.                                                     *)
Stop ==
    /\ At("loop") /\ batch = <<>> /\ "stop" \in Faults
    /\ Goto(sys, "shutdown") /\ UNCHANGED <<batch, env>>

ShutdownOne ==
    /\ At("shutdown")
    /\ \E c \in Conn : Live(sys, c) /\ Goto(CloseConn(sys, c), "shutdown")
    /\ UNCHANGED <<batch, env>>

ShutdownEnds ==
    /\ At("shutdown") /\ \A c \in Conn : ~Live(sys, c)
    /\ Goto(sys, "stopped") /\ UNCHANGED <<batch, env>>

(* What the goroutine does whenever it can, and what a timer or an         *)
(* operator makes it do.                                                   *)
Work ==
    \/ Wait \/ Handle \/ Accept \/ AcceptDrops \/ AcceptAgain \/ AcceptFails
    \/ ReadGone \/ ReadPauses \/ ReadReturns \/ ReadCloses \/ ReadSome
    \/ ParseEnds \/ ParsePanics \/ ParseRejects \/ ParseWaits \/ Dispatch
    \/ ShutdownOne \/ ShutdownEnds

Run == Work \/ SweepIdle \/ Stop

----------------------------------------------------------------------------
(* The kernel and the far ends.                                            *)

control == <<pc, cur, ret, batch>>
Open(c) == Running /\ Live(sys, c)
Up(c)   == sys.role[c] \in {"up", "connecting"}

ClientConnects ==
    /\ Running /\ pc # "stopped" /\ nclients < MaxClients
    /\ nclients' = nclients + 1 /\ backlog' = backlog + 1 /\ lArmed' = TRUE
    /\ UNCHANGED <<sys, control, eligible, asker, nreq, nslow>>

(* The far end of c sends frame f, of which k cells arrive now.            *)
Arrive(s, c, f, k) ==
    LET cells == Cells(f)
    IN  Arm([s EXCEPT !.inbox[c] = @ \o SubSeq(cells, 1, k),
                      !.wire[c] = SubSeq(cells, k + 1, Len(cells))], c)

Sends(c) == Open(c) /\ sys.wire[c] = <<>> /\ sys.rx[c] = "open"

Answered(i) == \E k \in DOMAIN sys.got[asker[i]] : sys.got[asker[i]][k].id = i

ClientSends(c) ==
    /\ Sends(c) /\ sys.role[c] = "down" /\ nreq < MaxReq
    /\ Pipelined \/ \A i \in 1 .. nreq : asker[i] = c => Answered(i)
    /\ nreq' = nreq + 1 /\ asker' = [asker EXCEPT ![nreq'] = c]
    /\ \E m \in ClientKinds : \E k \in 1 .. m.len + 1 :
          sys' = Arrive(sys, c, [op |-> m.op, id |-> nreq', len |-> m.len], k)
    /\ UNCHANGED <<control, backlog, lArmed, eligible, nclients, nslow>>

(* An upstream answers the oldest request it has got.                      *)
UpstreamAnswers(c) ==
    /\ Sends(c) /\ Up(c) /\ sys.got[c] # <<>>
    /\ \E m \in UpKinds : \E k \in 1 .. m.len + 1 :
          sys' = [Arrive(sys, c, [op |-> m.op, id |-> Head(sys.got[c]).id,
                                  len |-> m.len], k)
                  EXCEPT !.got[c] = Tail(@)]
    /\ UNCHANGED <<control, env>>

RestArrives(c) ==
    /\ Open(c) /\ sys.wire[c] # <<>>
    /\ sys' = Arm([sys EXCEPT !.inbox[c] = @ \o sys.wire[c],
                              !.wire[c] = <<>>], c)
    /\ UNCHANGED <<control, env>>

(* The far end closes, possibly in the middle of a frame; or resets.       *)
PeerCloses(c) ==
    /\ Open(c) /\ (IF Up(c) THEN "eof" ELSE "leave") \in Faults
    /\ sys.rx[c] = "open" /\ sys.tx[c] # "syn"
    /\ sys' = Arm([sys EXCEPT !.rx[c] = "eof", !.wire[c] = <<>>], c)
    /\ UNCHANGED <<control, env>>

Reset(s, c) ==
    Arm([s EXCEPT !.rx[c] = "err", !.tx[c] = "broken",
                  !.inbox[c] = <<>>, !.wire[c] = <<>>], c)

PeerResets(c) ==
    /\ Open(c) /\ "reset" \in Faults /\ sys.rx[c] # "err" /\ sys.tx[c] # "syn"
    /\ sys' = Reset(sys, c) /\ UNCHANGED <<control, env>>

ConnectCompletes(c) ==
    /\ Open(c) /\ sys.tx[c] = "syn"
    /\ \/ sys' = Arm([sys EXCEPT !.tx[c] = "open"], c)
       \/ "refuse" \in Faults /\ sys' = Reset(sys, c)
    /\ UNCHANGED <<control, env>>

(* A slow reader: the send buffer has room for part of a frame, or, with   *)
(* "full", for nothing; and is drained again.                              *)
Slows(c) ==
    /\ Open(c) /\ sys.tx[c] = "open" /\ nslow < MaxSlow
    /\ nslow' = nslow + 1
    /\ \E r \in {"tight"} \cup ({"full"} \cap Faults) :
          sys' = [sys EXCEPT !.tx[c] = r]
    /\ UNCHANGED <<control, backlog, lArmed, eligible, asker, nreq, nclients>>

Drains(c) ==
    /\ Open(c) /\ sys.tx[c] \in {"tight", "full"}
    /\ sys' = Arm([sys EXCEPT !.tx[c] = "open"], c)
    /\ UNCHANGED <<control, env>>

(* Health checks, passive failures and the operator change what Pick sees. *)
HealthChanges ==
    /\ Running /\ "health" \in Faults
    /\ eligible' \in (SUBSET EP) \ {eligible}
    /\ UNCHANGED <<sys, control, backlog, lArmed, asker, nreq, nclients, nslow>>

Environment ==
    \/ ClientConnects \/ HealthChanges
    \/ \E c \in Conn :
          \/ ClientSends(c) \/ UpstreamAnswers(c) \/ RestArrives(c)
          \/ PeerCloses(c) \/ PeerResets(c) \/ ConnectCompletes(c)
          \/ Slows(c) \/ Drains(c)

Next == Run \/ Environment

Spec == Init /\ [][Next]_vars

(* The reactor goroutine is always runnable or in Wait, which returns when *)
(* something is ready; the network and the far ends go on too: bytes sent  *)
(* arrive, a connect attempt ends, a slow reader reads on, an upstream     *)
(* answers what it got.                                                    *)
FarEnds == \E c \in Conn : \/ RestArrives(c) \/ ConnectCompletes(c)
                          \/ Drains(c) \/ UpstreamAnswers(c)
FairSpec == Spec /\ WF_vars(Work) /\ WF_vars(FarEnds)

----------------------------------------------------------------------------
(* Properties.                                                             *)

(* Types of every variable; a ring keeps one cell free.                    *)
TypeOK ==
    /\ sys \in Sys
    /\ \A c \in Conn : Used(sys, c) < Cap
    /\ pc \in {"loop", "accept", "read", "parse", "shutdown", "stopped"}
    /\ cur \in Conn \cup {Nil} /\ ret \in {"loop", "accept"}
    /\ batch \in Seq((FD \cup {Nil}) \X SUBSET {"R", "W", "E"})
    /\ backlog \in Nat /\ lArmed \in BOOLEAN
    /\ eligible \subseteq EP /\ asker \in [1 .. MaxReq -> Conn \cup {Nil}]
    /\ nreq \in 0 .. MaxReq /\ nclients \in 0 .. MaxClients
    /\ nslow \in 0 .. MaxSlow

(* The table, the ring and the peer pointers agree: a connection owns a    *)
(* ring exactly while the table maps its descriptor to it (closeConn's     *)
(* guard, readLoop's guard), peers point at each other, and one of two     *)
(* peers is a client, the other a dialled upstream.                        *)
TableMatchesRings == \A c \in Conn : Live(sys, c) <=> c \in sys.rings
PeersPaired ==
    \A c \in Conn : sys.peer[c] # Nil =>
        /\ sys.peer[sys.peer[c]] = c
        /\ sys.role[c] = "down" <=> Up(sys.peer[c])

(* No upstream connection outlives its client: closeConn closes both.      *)
Linked(c) == sys.peer[c] # Nil /\ Live(sys, sys.peer[c])
NoOrphanUpstream == \A c \in Conn : Live(sys, c) /\ Up(c) => Linked(c)

(* The active count of an endpoint, which adopt, finishConnect and         *)
(* closeConn change on different paths, is its number of open upstream     *)
(* connections.                                                            *)
ActiveExact ==
    \A e \in EP : sys.active[e] =
        Cardinality({c \in Conn : Live(sys, c) /\ sys.role[c] = "up"
                                               /\ sys.ep[c] = e})

(* What is buffered of a connection's input is whole frames from where the *)
(* parser stands: no path consumes a payload twice, or not at all.         *)
Framed(q) ==
    \A i \in 1 .. Len(q) :
        IF q[i][2] = 0 THEN i = 1 \/ q[i - 1][2] = q[i - 1][1].len
        ELSE i > 1 /\ q[i - 1] = <<q[i][1], q[i][2] - 1>>
Stream(c) ==
    (IF c \in sys.have THEN << <<sys.hdr[c], 0>> >> ELSE <<>>)
        \o sys.ring[c] \o sys.inbox[c] \o sys.wire[c]
InputInSync ==
    \A c \in Conn : Live(sys, c) =>
        /\ Framed(Stream(c))
        /\ Stream(c) # <<>> => Stream(c)[1][2] = 0

(* A request kept for later (HasPending) is the frame the parser stands    *)
(* at, whole in the ring, and a connect in progress will send it.          *)
HeldIsParsed ==
    \A c \in sys.held : Live(sys, c) =>
        /\ c \in sys.have /\ sys.pend[c] = sys.hdr[c]
        /\ Len(sys.ring[c]) >= sys.hdr[c].len
HeldIsConnecting ==
    \A c \in sys.held : Live(sys, c) =>
        sys.peer[c] # Nil /\ sys.role[sys.peer[c]] = "connecting"

(* Edge-triggered readiness is never lost: when the reactor is about to    *)
(* wait, a connection that has input to read and is not paused is on the   *)
(* ready list, and so is one with stashed output and room to write it.     *)
AtRest == pc = "loop" /\ batch = <<>> /\ Running
NoLostEdge ==
    AtRest => \A c \in Conn : Live(sys, c) =>
        /\ Readable(sys, c) /\ c \notin sys.paused /\ sys.role[c] # "connecting"
              => c \in sys.armed
        /\ sys.remain[c] # <<>> /\ Writable(sys, c)
              => c \in sys.armed /\ "W" \in sys.want[c]
NoLostAccept == AtRest /\ backlog > 0 => lArmed

(* A client gets at most one answer to a request, and only to its own.     *)
AnswersTo(c, i) == {k \in DOMAIN sys.got[c] : sys.got[c][k].id = i}
AtMostOneAnswer ==
    \A i \in 1 .. nreq : Cardinality(AnswersTo(asker[i], i)) <= 1
OwnAnswers ==
    \A c \in Conn : sys.role[c] = "down" =>
        \A k \in DOMAIN sys.got[c] :
            sys.got[c][k].id # 0 => asker[sys.got[c][k].id] = c

(* What was written to a client is never reordered or taken back, whether  *)
(* sent or stashed in WriteRemain.                                         *)
Output(c) == sys.got[c] \o sys.remain[c]
IsPrefixOf(p, q) == Len(p) <= Len(q) /\ p = SubSeq(q, 1, Len(p))
OutputGrows ==
    [][\A c \in Conn : sys.role[c] = "down" => IsPrefixOf(Output(c), Output(c)')]_vars

(* Every DATA request of a client that waits for its answers is answered,  *)
(* by the upstream or with an ERROR, unless the client is gone.            *)
Settled(i) == Answered(i) \/ ~Live(sys, asker[i])
RequestsSettle ==
    \A i \in 1 .. MaxReq : (nreq >= i) ~> (nreq >= i /\ Settled(i))

(* No step dereferences the ring of a closed connection, slices with the   *)
(* -1 of a refused writev, or takes a stale event of a reused descriptor   *)
(* for the end of a connect.                                               *)
NoPanic == ~sys.panic
============================================================================
