--------------------------- MODULE ReactorProofs ---------------------------
(***************************************************************************)
(* Proofs about Reactor for every number of connections, descriptors,      *)
(* endpoints and requests, every ring size and water mark: its types, its  *)
(* table, rings and peers, the input to its parsers, the active counts,    *)
(* the listener's edge, the links of clients and upstreams and what is     *)
(* written to them.                                                        *)
(*                                                                         *)
(* The reactor's handlers are operators from sys to sys, so each gets a    *)
(* lemma: it keeps the type and the structure of sys (Sound), and says     *)
(* what it does to the peers and roles (Same, Closes).                     *)
(***************************************************************************)
EXTENDS Reactor, TLAPS, SequenceTheorems, FiniteSetTheorems

(* The table maps a descriptor only to the connection that holds it.       *)
TableOwned(s) ==
    \A f \in FD : s.tab[f] # Nil => s.fd[s.tab[f]] = f

(* A connection owns a ring exactly while it is in the table.              *)
RingsLive(s) == \A c \in Conn : Live(s, c) <=> c \in s.rings

(* A connection object not yet made has no ring and no peer, and is not    *)
(* paused.                                                                 *)
Blank(s) ==
    \A c \in Conn : s.role[c] = "new" =>
        c \notin s.rings /\ s.peer[c] = Nil /\ c \notin s.paused

IsUp(s, c) == s.role[c] \in {"up", "connecting"}

(* Peers point at each other, a client and its upstream, and an upstream   *)
(* that still has a peer is still open.                                    *)
Paired(s) ==
    \A c \in Conn : s.peer[c] # Nil =>
        /\ s.peer[s.peer[c]] = c
        /\ s.role[c] = "down" <=> IsUp(s, s.peer[c])
        /\ IsUp(s, c) => c \in s.rings

Bounded(s) == \A c \in Conn : Len(s.ring[c]) < Cap

Sound(s) ==
    s \in Sys /\ Bounded(s) /\ TableOwned(s) /\ RingsLive(s) /\ Blank(s)

(* t has the table, rings, peers, roles and paused connections of s.       *)
Same(s, t) ==
    /\ t.tab = s.tab /\ t.fd = s.fd /\ t.rings = s.rings
    /\ t.peer = s.peer /\ t.role = s.role /\ t.paused = s.paused

LEMMA SameSound ==
    ASSUME NEW s, NEW t, Sound(s), t \in Sys, Bounded(t), Same(s, t)
    PROVE  Sound(t)
BY DEF Sound, Same, TableOwned, RingsLive, Blank, Live, Sock

LEMMA SamePaired ==
    ASSUME NEW s, NEW t, Paired(s), Same(s, t)
    PROVE  Paired(t)
BY DEF Paired, Same, IsUp

LEMMA SockType ==
    ASSUME NEW s \in Sys, NEW c \in Conn
    PROVE  /\ Sock(s, c) \in Conn \cup {Nil}
           /\ Room(s, c) # "broken" => Sock(s, c) \in Conn
BY ReactorAssumption DEF Sys, Sock, Room

LEMMA ArmKeeps ==
    ASSUME NEW s \in Sys, NEW c \in Conn
    PROVE  /\ Arm(s, c) \in Sys
           /\ Same(s, Arm(s, c)) /\ Arm(s, c).ring = s.ring
           /\ Arm(s, c).panic = s.panic
BY ZenonT(60) DEF Sys, Arm, Same

LEMMA ModKeeps ==
    ASSUME NEW s \in Sys, NEW c \in Conn, NEW bits \in SUBSET {"R", "W"}
    PROVE  /\ Mod(s, c, bits) \in Sys
           /\ Same(s, Mod(s, c, bits)) /\ Mod(s, c, bits).ring = s.ring
<1> DEFINE d == Sock(s, c)
           t == [s EXCEPT !.want[d] = bits]
<1>1. CASE d = Nil
  BY <1>1 DEF Mod, Same
<1>2. CASE d # Nil
  <2>1. d \in Conn
    BY <1>2, SockType
  <2>2. t \in Sys /\ Same(s, t) /\ t.ring = s.ring
    BY <2>1 DEF Sys, Same
  <2>3. Mod(s, c, bits) = Arm(t, d)
    BY <1>2 DEF Mod
  <2> HIDE DEF t
  <2>4. Arm(t, d) \in Sys /\ Same(t, Arm(t, d)) /\ Arm(t, d).ring = t.ring
    BY <2>1, <2>2, ArmKeeps
  <2> QED  BY <2>2, <2>3, <2>4 DEF Same
<1> QED  BY <1>1, <1>2

LEMMA DeliverKeeps ==
    ASSUME NEW s \in Sys, NEW c \in Conn, NEW fs \in Seq(Frame),
           Sock(s, c) \in Conn
    PROVE  /\ Deliver(s, c, fs) \in Sys
           /\ Same(s, Deliver(s, c, fs)) /\ Deliver(s, c, fs).ring = s.ring
<1>1. s.got[Sock(s, c)] \o fs \in Seq(Frame)
  BY ConcatProperties DEF Sys
<1> QED  BY <1>1 DEF Sys, Deliver, Same

(* Frames the proxy makes are frames.                                      *)
LEMMA MadeFrames ==
    /\ \A i \in 0 .. MaxReq : ErrorOf(i) \in Frame
    /\ \A f \in Frame : Pong(f) \in Frame
    /\ NoFrame \in Frame
BY ReactorAssumption DEF ErrorOf, Pong, NoFrame, Frame, Ops

LEMMA RemainKeeps ==
    ASSUME NEW s \in Sys, NEW c \in Conn, NEW r \in Seq(Frame)
    PROVE  /\ [s EXCEPT !.remain[c] = r] \in Sys
           /\ Same(s, [s EXCEPT !.remain[c] = r])
           /\ [s EXCEPT !.remain[c] = r].ring = s.ring
BY DEF Sys, Same

LEMMA SpillKeeps ==
    ASSUME NEW s \in Sys, NEW c \in Conn, NEW f \in Frame
    PROVE  /\ Spill(s, c, f) \in Sys
           /\ Same(s, Spill(s, c, f)) /\ Spill(s, c, f).ring = s.ring
<1> DEFINE r == IF s.remain[c] = <<>> THEN s.remain[c] ELSE Append(s.remain[c], f)
<1>1. r \in Seq(Frame)
  BY AppendProperties DEF Sys
<1>2. Spill(s, c, f) = [s EXCEPT !.remain[c] = r]
  BY DEF Spill, Sys
<1> HIDE DEF r
<1> QED  BY <1>1, <1>2, RemainKeeps

LEMMA ResendKeeps ==
    ASSUME NEW s \in Sys, NEW c \in Conn
    PROVE  /\ Resend(s, c) \in Sys
           /\ Same(s, Resend(s, c)) /\ Resend(s, c).ring = s.ring
<1> DEFINE r == s.remain[c]
<1>0. r \in Seq(Frame)
  BY DEF Sys
<1>1. CASE r = <<>>
  BY <1>1 DEF Resend, Same
<1>2. CASE r # <<>> /\ Room(s, c) = "open"
  <2> DEFINE t == Deliver(s, c, r)
             u == [t EXCEPT !.remain[c] = <<>>]
  <2>1. t \in Sys /\ Same(s, t) /\ t.ring = s.ring
    BY <1>0, <1>2, SockType, DeliverKeeps
  <2>2. Resend(s, c) = Mod(u, c, {"R"})
    BY <1>2 DEF Resend
  <2>e. <<>> \in Seq(Frame)
    BY EmptySeq
  <2> HIDE DEF t
  <2>3. u \in Sys /\ Same(t, u) /\ u.ring = t.ring
    BY <2>1, <2>e, RemainKeeps
  <2> HIDE DEF u
  <2>4. /\ Mod(u, c, {"R"}) \in Sys
        /\ Same(u, Mod(u, c, {"R"})) /\ Mod(u, c, {"R"}).ring = u.ring
    BY <2>3, ModKeeps
  <2> QED  BY <2>1, <2>2, <2>3, <2>4 DEF Same
<1>3. CASE r # <<>> /\ Room(s, c) = "tight"
  <2> DEFINE q == SubSeq(r, 1, Len(r) - 1)
             t == Deliver(s, c, q)
             w == <<r[Len(r)]>>
             u == [t EXCEPT !.remain[c] = w]
  <2>1. q \in Seq(Frame) /\ w \in Seq(Frame)
    BY <1>0, <1>3, SubSeqProperties, LenProperties, EmptySeq
  <2>2. t \in Sys /\ Same(s, t) /\ t.ring = s.ring
    BY <1>3, <2>1, SockType, DeliverKeeps
  <2>3. Resend(s, c) = [u EXCEPT !.tx[Sock(s, c)] = "full"]
    BY <1>3 DEF Resend
  <2> HIDE DEF t, w
  <2>4. u \in Sys /\ Same(t, u) /\ u.ring = t.ring
    BY <2>1, <2>2, RemainKeeps
  <2> HIDE DEF u
  <2> DEFINE v == [u EXCEPT !.tx[Sock(s, c)] = "full"]
  <2>5. v \in Sys /\ Same(u, v) /\ v.ring = u.ring
    BY <2>4 DEF Sys, Same
  <2>6. Resend(s, c) = v
    BY <2>3
  <2> HIDE DEF v
  <2> QED  BY <2>2, <2>4, <2>5, <2>6 DEF Same
<1>4. CASE r # <<>> /\ Room(s, c) \notin {"open", "tight"}
  BY <1>4 DEF Resend, Same
<1> QED  BY <1>1, <1>2, <1>3, <1>4

LEMMA WritevKeeps ==
    ASSUME NEW s \in Sys, NEW c \in Conn, NEW f \in Frame
    PROVE  /\ Writev(s, c, f) \in Sys
           /\ Same(s, Writev(s, c, f)) /\ Writev(s, c, f).ring = s.ring
<1>1. CASE Room(s, c) = "open"
  <2> DEFINE t == Deliver(s, c, <<f>>)
  <2>1. Writev(s, c, f) = t
    BY <1>1 DEF Writev
  <2>2. Sock(s, c) \in Conn
    BY <1>1, SockType
  <2>3. <<f>> \in Seq(Frame)
    OBVIOUS
  <2>4. t \in Sys /\ Same(s, t) /\ t.ring = s.ring
    BY <2>2, <2>3, DeliverKeeps
  <2> HIDE DEF t
  <2> QED  BY <2>1, <2>4
<1>2. CASE Room(s, c) = "tight"
  <2> DEFINE t == [s EXCEPT !.remain[c] = <<f>>, !.tx[Sock(s, c)] = "full"]
  <2>0. <<f>> \in Seq(Frame)
    OBVIOUS
  <2>1. t \in Sys /\ Same(s, t) /\ t.ring = s.ring
    BY <2>0 DEF Sys, Same
  <2>2. Writev(s, c, f) = Mod(t, c, WantStashed)
    BY <1>2 DEF Writev
  <2> HIDE DEF t
  <2>3. /\ Mod(t, c, WantStashed) \in Sys
        /\ Same(t, Mod(t, c, WantStashed)) /\ Mod(t, c, WantStashed).ring = t.ring
    BY <2>1, ModKeeps DEF WantStashed
  <2> QED  BY <2>1, <2>2, <2>3 DEF Same
<1>3. CASE Room(s, c) \notin {"open", "tight"}
  BY <1>3 DEF Writev, Sys, Same
<1> QED  BY <1>1, <1>2, <1>3

LEMMA WriteKeeps ==
    ASSUME NEW s \in Sys, NEW c \in Conn, NEW f \in Frame
    PROVE  /\ Write(s, c, f) \in Sys
           /\ Same(s, Write(s, c, f)) /\ Write(s, c, f).ring = s.ring
<1> DEFINE t == Resend(s, c)
<1>1. t \in Sys /\ Same(s, t) /\ t.ring = s.ring
  BY ResendKeeps
<1>2. CASE t.remain[c] = <<>>
  <2>1. Write(s, c, f) = Writev(t, c, f)
    BY <1>2 DEF Write
  <2> HIDE DEF t
  <2> QED  BY <1>1, <2>1, WritevKeeps DEF Same
<1>3. CASE t.remain[c] # <<>>
  <2>1. Write(s, c, f) = [t EXCEPT !.remain[c] = Append(t.remain[c], f)]
    BY <1>1, <1>3 DEF Write, Sys
  <2> HIDE DEF t
  <2>2. Append(t.remain[c], f) \in Seq(Frame)
    BY <1>1, AppendProperties DEF Sys
  <2> DEFINE r == Append(t.remain[c], f)
  <2> HIDE DEF r
  <2>3. /\ [t EXCEPT !.remain[c] = r] \in Sys
        /\ Same(t, [t EXCEPT !.remain[c] = r])
        /\ [t EXCEPT !.remain[c] = r].ring = t.ring
    BY <1>1, <2>2, RemainKeeps DEF r
  <2> QED  BY <1>1, <2>1, <2>3 DEF Same, r
<1> QED  BY <1>2, <1>3

----------------------------------------------------------------------------
(* Closing.                                                                *)

Good(s) == Sound(s) /\ Paired(s)

LEMMA GoodSys ==
    ASSUME NEW s, Good(s)
    PROVE  s \in Sys
BY DEF Good, Sound

(* t is a good state with the roles of s and some of its links.            *)
Closes(s, t) ==
    /\ Good(t) /\ t.role = s.role /\ t.paused = s.paused
    /\ \A x \in Conn : t.peer[x] \in {s.peer[x], Nil}

LEMMA ClosesTrans ==
    ASSUME NEW s, NEW t, NEW u, Closes(s, t), Closes(t, u)
    PROVE  Closes(s, u)
BY DEF Closes

LEMMA SameCloses ==
    ASSUME NEW s, NEW t, Good(s), t \in Sys, t.ring = s.ring, Same(s, t)
    PROVE  Closes(s, t)
<1>1. Bounded(t)
  BY DEF Good, Sound, Bounded
<1>2. Sound(t) /\ Paired(t)
  BY <1>1, SameSound, SamePaired DEF Good
<1> QED  BY <1>2 DEF Closes, Good, Same

LEMMA DropSound ==
    ASSUME NEW s, NEW c \in Conn, Sound(s), Live(s, c)
    PROVE  LET t == Drop(s, c)
           IN  /\ Sound(t)
               /\ t.role = s.role /\ t.rings = s.rings \ {c}
               /\ t.peer = [s.peer EXCEPT ![c] = Nil] /\ t.paused = s.paused
<1> DEFINE t == Drop(s, c)
<1>1. s \in Sys
  BY DEF Sound
<1>2. s.active \in [EP -> Int] /\ ActiveOf(s, c) \in Int
  BY <1>1 DEF Sys, ActiveOf
<1>3. t \in Sys
  <2> DEFINE a == [e \in EP |-> IF e = s.ep[c]
                                THEN s.active[e] - ActiveOf(s, c) ELSE s.active[e]]
  <2>1. a \in [EP -> Int]
    BY <1>2
  <2> DEFINE q == [s EXCEPT !.tab[s.fd[c]] = Nil, !.peer[c] = Nil,
                            !.rings = @ \ {c}, !.ring[c] = <<>>]
             r == [q EXCEPT !.want[c] = {}, !.armed = @ \ {c},
                            !.inbox[c] = <<>>, !.wire[c] = <<>>]
  <2>2. t = [r EXCEPT !.active = a]
    BY <1>1 DEF Drop, Sys
  <2>3. <<>> \in Seq(Cell)
    BY EmptySeq
  <2>4. q \in Sys
    BY <1>1, <2>3 DEF Sys
  <2> HIDE DEF t, a, q
  <2>5. r \in Sys
    BY <2>3, <2>4 DEF Sys
  <2> HIDE DEF r
  <2> QED  BY <2>1, <2>2, <2>5 DEF Sys
<1>4. /\ t.role = s.role /\ t.rings = s.rings \ {c}
      /\ t.peer = [s.peer EXCEPT ![c] = Nil] /\ t.paused = s.paused
      /\ t.fd = s.fd /\ t.tab = [s.tab EXCEPT ![s.fd[c]] = Nil]
      /\ t.ring = [s.ring EXCEPT ![c] = <<>>]
  BY <1>1 DEF Drop, Sys
<1> HIDE DEF t
<1>5. Bounded(t)
  <2>1. Bounded(s) /\ s.ring \in [Conn -> Seq(Cell)]
    BY <1>1 DEF Sound, Sys
  <2>2. \A d \in Conn : t.ring[d] = s.ring[d] \/ t.ring[d] = <<>>
    BY <1>4, <2>1
  <2>3. Len(<<>>) < Cap
    BY ReactorAssumption
  <2> QED  BY <2>1, <2>2, <2>3 DEF Bounded
<1>6. TableOwned(t)
  BY <1>1, <1>4 DEF Sound, Sys, TableOwned
<1>7. RingsLive(t)
  BY <1>1, <1>4, ReactorAssumption DEF Sound, Sys, RingsLive, Live, Sock
<1>8. Blank(t)
  BY <1>1, <1>4 DEF Sound, Sys, Blank
<1> QED  BY <1>3, <1>4, <1>5, <1>6, <1>7, <1>8 DEF Sound, t

(* The two ends of a link are distinct: one is a client, one is not.       *)
LEMMA PeerApart ==
    ASSUME NEW s, NEW c \in Conn, Good(s), s.peer[c] # Nil
    PROVE  /\ s.peer[c] \in Conn /\ s.peer[c] # c
           /\ s.role[c] = "down" \/ IsUp(s, c)
<1>1. s.peer[c] \in Conn /\ s.role[c] \in Roles
  BY DEF Good, Sound, Sys
<1>2. s.role[c] # "new"
  BY DEF Good, Sound, Blank
<1> QED  BY <1>1, <1>2 DEF Good, Paired, IsUp, Roles

LEMMA DropLiveCloses ==
    ASSUME NEW s, NEW c \in Conn, Good(s), s.peer[c] = Nil
    PROVE  Closes(s, DropLive(s, c))
<1>1. CASE ~Live(s, c)
  BY <1>1 DEF DropLive, Closes
<1>2. CASE Live(s, c)
  <2> DEFINE t == Drop(s, c)
  <2>1. /\ Sound(t) /\ t.role = s.role /\ t.rings = s.rings \ {c}
        /\ t.peer = [s.peer EXCEPT ![c] = Nil] /\ t.paused = s.paused
    BY <1>2, DropSound DEF Good
  <2>2. DropLive(s, c) = t
    BY <1>2 DEF DropLive
  <2> HIDE DEF t
  <2>3. t.peer = s.peer
    BY <2>1 DEF Good, Sound, Sys
  <2>4. Paired(t)
    BY <2>1, <2>3 DEF Good, Paired, IsUp
  <2> QED  BY <2>1, <2>2, <2>3, <2>4 DEF Closes, Good
<1> QED  BY <1>1, <1>2

LEMMA ReplyAloneCloses ==
    ASSUME NEW s, NEW c \in Conn, NEW f \in Frame, Good(s), s.peer[c] = Nil
    PROVE  Closes(s, ReplyAlone(s, c, f))
<1>1. CASE Room(s, c) = "broken"
  <2> DEFINE t == DropLive(s, c)
  <2>1. Closes(s, t)
    BY DropLiveCloses
  <2>2. ReplyAlone(s, c, f) = Spill(t, c, f)
    BY <1>1 DEF ReplyAlone
  <2> HIDE DEF t
  <2>3. Closes(t, Spill(t, c, f))
    BY <2>1, SpillKeeps, SameCloses DEF Closes, Good, Sound
  <2> QED  BY <2>1, <2>2, <2>3, ClosesTrans
<1>2. CASE Room(s, c) # "broken"
  <2>1. ReplyAlone(s, c, f) = Write(s, c, f)
    BY <1>2 DEF ReplyAlone
  <2> QED  BY <2>1, WriteKeeps, SameCloses DEF Good, Sound
<1> QED  BY <1>1, <1>2

(* The state in which closeConn turns to the peer p of c.                  *)
LEMMA UnlinkCloses ==
    ASSUME NEW s, NEW c \in Conn, Good(s), Live(s, c), s.peer[c] # Nil
    PROVE  LET p == s.peer[c]
               t == Drop(s, c)
               u == Unlink(t, p)
           IN  /\ t \in Sys /\ t.peer[p] = c
               /\ p \in Conn /\ Closes(s, u) /\ u.peer[c] = Nil /\ u.peer[p] = Nil
               /\ ErrorOf(u.pend[p].id) \in Frame
<1> DEFINE p == s.peer[c]
           t == Drop(s, c)
           u == Unlink(t, p)
<1>1. /\ Sound(t) /\ t.role = s.role /\ t.rings = s.rings \ {c}
      /\ t.peer = [s.peer EXCEPT ![c] = Nil] /\ s \in Sys /\ t \in Sys
      /\ t.paused = s.paused
  BY DropSound DEF Good, Sound
<1>2. p \in Conn /\ p # c /\ s.peer[p] = c
  BY PeerApart DEF Good, Paired
<1>3. t.peer[p] = c
  BY <1>1, <1>2 DEF Sys
<1> HIDE DEF t
<1>4. /\ u \in Sys /\ u.peer = [t.peer EXCEPT ![p] = Nil] /\ u.ring = t.ring
      /\ u.tab = t.tab /\ u.fd = t.fd /\ u.rings = t.rings /\ u.role = t.role
      /\ u.paused = t.paused
  BY <1>1, <1>2 DEF Unlink, Sys
<1> HIDE DEF u
<1>5. Sound(u)
  <2>1. Bounded(u) /\ TableOwned(u) /\ RingsLive(u)
    BY <1>1, <1>4 DEF Sound, Bounded, TableOwned, RingsLive, Live, Sock
  <2>2. Blank(u)
    <3>0. t.peer \in [Conn -> Conn \cup {Nil}]
      BY <1>1 DEF Sys
    <3>1. \A x \in Conn : u.peer[x] = t.peer[x] \/ u.peer[x] = Nil
      BY <1>4, <3>0
    <3>2. Blank(t)
      BY <1>1 DEF Sound
    <3> QED  BY <1>4, <3>1, <3>2 DEF Blank
  <2> QED  BY <1>4, <2>1, <2>2 DEF Sound
<1>6. /\ u.peer[c] = Nil /\ u.peer[p] = Nil
      /\ \A x \in Conn : x \notin {c, p} => u.peer[x] = s.peer[x]
  <2>1. s.peer \in [Conn -> Conn \cup {Nil}]
    BY <1>1 DEF Sys
  <2> QED  BY <1>1, <1>2, <1>4, <2>1
<1>7. Paired(u)
  <2> SUFFICES ASSUME NEW x \in Conn, u.peer[x] # Nil
               PROVE  /\ u.peer[u.peer[x]] = x
                      /\ u.role[x] = "down" <=> IsUp(u, u.peer[x])
                      /\ IsUp(u, x) => x \in u.rings
    BY DEF Paired
  <2>1. x \notin {c, p} /\ u.peer[x] = s.peer[x] /\ s.peer[x] # Nil
    BY <1>6
  <2>2. s.peer[x] \in Conn /\ s.peer[s.peer[x]] = x
    BY <1>1, <2>1 DEF Good, Paired, Sys
  <2>3. s.peer[x] \notin {c, p}
    BY <1>2, <2>1, <2>2
  <2>4. /\ s.role[x] = "down" <=> IsUp(s, s.peer[x])
        /\ IsUp(s, x) => x \in s.rings
    BY <2>1 DEF Good, Paired
  <2> QED  BY <1>1, <1>4, <1>6, <2>1, <2>2, <2>3, <2>4 DEF IsUp
<1>8. Closes(s, u)
  BY <1>1, <1>2, <1>4, <1>5, <1>6, <1>7 DEF Closes, Good
<1>9. ErrorOf(u.pend[p].id) \in Frame
  <2>1. u.pend[p] \in Frame
    BY <1>2, <1>4 DEF Sys
  <2>2. u.pend[p].id \in 0 .. MaxReq
    BY <2>1 DEF Frame
  <2> QED  BY <2>2, MadeFrames
<1> QED  BY <1>1, <1>2, <1>3, <1>6, <1>8, <1>9 DEF u, t

(* closeConn keeps every link whole, and unlinks both ends of one it cuts. *)
LEMMA CloseConnCloses ==
    ASSUME NEW s, NEW c \in Conn, Good(s)
    PROVE  LET t == CloseConn(s, c)
           IN  /\ Closes(s, t)
               /\ Live(s, c) => /\ t.peer[c] = Nil
                                /\ s.peer[c] # Nil => t.peer[s.peer[c]] = Nil
<1>1. CASE ~Live(s, c)
  BY <1>1 DEF CloseConn, Closes
<1>2. CASE Live(s, c) /\ s.peer[c] = Nil
  <2>1. CloseConn(s, c) = DropLive(s, c)
    BY <1>2 DEF CloseConn, DropLive
  <2> QED  BY <1>2, <2>1, DropLiveCloses DEF Closes
<1>3. CASE Live(s, c) /\ s.peer[c] # Nil
  <2> DEFINE p == s.peer[c]
             t == Drop(s, c)
             u == Unlink(t, p)
             f == ErrorOf(u.pend[p].id)
  <2>1. /\ t.peer[p] = c /\ p \in Conn /\ Closes(s, u)
        /\ u.peer[c] = Nil /\ u.peer[p] = Nil /\ f \in Frame
    BY <1>3, UnlinkCloses
  <2>2. CloseConn(s, c) = IF u.role[p] = "down"
                          THEN ReplyAlone(u, p, f) ELSE DropLive(u, p)
    BY <1>3, <2>1 DEF CloseConn
  <2> HIDE DEF t, u, f
  <2>3. Closes(u, CloseConn(s, c))
    BY <2>1, <2>2, ReplyAloneCloses, DropLiveCloses DEF Closes
  <2> QED  BY <1>3, <2>1, <2>3, ClosesTrans DEF Closes
<1> QED  BY <1>1, <1>2, <1>3

----------------------------------------------------------------------------
(* The handlers built from writing and closing.                            *)

LEMMA FlushCloses ==
    ASSUME NEW s, NEW c \in Conn, NEW f \in Frame, Good(s)
    PROVE  Closes(s, Flush(s, c, f))
<1>1. CASE Room(s, c) = "broken"
  <2> DEFINE t == CloseConn(s, c)
  <2>1. Closes(s, t)
    BY CloseConnCloses
  <2>2. Flush(s, c, f) = Spill(t, c, f)
    BY <1>1 DEF Flush
  <2> HIDE DEF t
  <2>3. Closes(t, Spill(t, c, f))
    BY <2>1, SpillKeeps, SameCloses DEF Closes, Good, Sound
  <2> QED  BY <2>1, <2>2, <2>3, ClosesTrans
<1>2. CASE Room(s, c) # "broken"
  <2>1. Flush(s, c, f) = Write(s, c, f)
    BY <1>2 DEF Flush
  <2> QED  BY <2>1, WriteKeeps, SameCloses DEF Good, Sound
<1> QED  BY <1>1, <1>2

LEMMA FlushRemainCloses ==
    ASSUME NEW s, NEW c \in Conn, Good(s)
    PROVE  Closes(s, FlushRemain(s, c))
<1>1. Closes(s, CloseConn(s, c))
  BY CloseConnCloses
<1>2. Closes(s, Resend(s, c))
  BY ResendKeeps, SameCloses DEF Good, Sound
<1> QED  BY <1>1, <1>2 DEF FlushRemain

LEMMA ReplyCloses ==
    ASSUME NEW s, NEW c \in Conn, NEW i \in 0 .. MaxReq, Good(s)
    PROVE  Closes(s, Reply(s, c, i))
<1>1. ErrorOf(i) \in Frame
  BY MadeFrames
<1> QED  BY <1>1, FlushCloses DEF Reply

(* Dropping a prefix of a sequence.                                        *)
LEMMA DropPrefix ==
    ASSUME NEW S, NEW q \in Seq(S), NEW n \in Nat
    PROVE  /\ SubSeq(q, n + 1, Len(q)) \in Seq(S)
           /\ Len(SubSeq(q, n + 1, Len(q))) <= Len(q)
<1>1. CASE n <= Len(q)
  BY <1>1, SubSeqProperties, LenProperties
<1>2. CASE n > Len(q)
  <2>1. SubSeq(q, n + 1, Len(q)) = <<>>
    BY <1>2, SubSeqProperties, LenProperties
  <2> QED  BY <2>1, LenProperties
<1> QED  BY <1>1, <1>2, LenProperties

(* A state that differs in the rings' contents, none of them longer.       *)
LEMMA ShorterCloses ==
    ASSUME NEW s, NEW t, Good(s), t \in Sys, Same(s, t),
           \A c \in Conn : Len(t.ring[c]) <= Len(s.ring[c])
    PROVE  Closes(s, t)
<1>1. Bounded(t)
  <2> SUFFICES ASSUME NEW c \in Conn PROVE Len(t.ring[c]) < Cap
    BY DEF Bounded
  <2>1. Len(s.ring[c]) < Cap /\ Len(t.ring[c]) <= Len(s.ring[c])
    BY DEF Good, Sound, Bounded
  <2>2. Len(s.ring[c]) \in Nat /\ Len(t.ring[c]) \in Nat
    BY LenProperties DEF Good, Sound, Sys
  <2> QED  BY <2>1, <2>2, ReactorAssumption
<1>2. Sound(t) /\ Paired(t)
  BY <1>1, SameSound, SamePaired DEF Good
<1> QED  BY <1>2 DEF Closes, Good, Same

LEMMA HdrType ==
    ASSUME NEW s \in Sys, NEW c \in Conn
    PROVE  /\ s.hdr[c] \in Frame /\ s.hdr[c].len \in Nat
           /\ s.hdr[c].id \in 0 .. MaxReq
           /\ s.pend[c] \in Frame /\ s.pend[c].id \in 0 .. MaxReq
<1>1. s.hdr[c] \in Frame /\ s.pend[c] \in Frame
  BY DEF Sys
<1> QED  BY <1>1 DEF Frame

LEMMA ConsumeCloses ==
    ASSUME NEW s, NEW c \in Conn, Good(s)
    PROVE  Closes(s, Consume(s, c)) /\ Consume(s, c).role = s.role
<1> DEFINE n == s.hdr[c].len
           q == s.ring[c]
           r == SubSeq(q, n + 1, Len(q))
<1>1. s \in Sys /\ n \in Nat /\ q \in Seq(Cell)
  BY HdrType DEF Good, Sound, Sys
<1>2. r \in Seq(Cell) /\ Len(r) <= Len(q)
  BY <1>1, DropPrefix
<1>3. CASE c \notin s.rings /\ n > 0
  <2> DEFINE t == [s EXCEPT !.panic = TRUE]
  <2>1. Consume(s, c) = t
    BY <1>3 DEF Consume
  <2>2. t \in Sys /\ Same(s, t) /\ t.ring = s.ring
    BY <1>1 DEF Sys, Same
  <2> HIDE DEF t
  <2>3. Closes(s, t) /\ t.role = s.role
    BY <2>2, SameCloses DEF Same
  <2> QED  BY <2>1, <2>3
<1>4. CASE c \notin s.rings /\ n = 0
  <2> DEFINE t == [s EXCEPT !.have = @ \ {c}]
  <2>1. Consume(s, c) = t
    BY <1>4 DEF Consume
  <2>2. t \in Sys /\ Same(s, t) /\ t.ring = s.ring
    BY <1>1 DEF Sys, Same
  <2> HIDE DEF t
  <2>3. Closes(s, t) /\ t.role = s.role
    BY <2>2, SameCloses DEF Same
  <2> QED  BY <2>1, <2>3
<1>5. CASE c \in s.rings
  <2> DEFINE t == [s EXCEPT !.have = @ \ {c}, !.ring[c] = r]
  <2>1. Consume(s, c) = t
    BY <1>5 DEF Consume
  <2> HIDE DEF r
  <2>2. t \in Sys /\ Same(s, t) /\ t.ring = [s.ring EXCEPT ![c] = r]
    BY <1>1, <1>2 DEF Sys, Same
  <2>3. \A d \in Conn : Len(t.ring[d]) <= Len(s.ring[d])
    <3>1. \A d \in Conn : s.ring[d] \in Seq(Cell)
      BY <1>1 DEF Sys
    <3>2. \A d \in Conn : Len(s.ring[d]) \in Nat
      BY <3>1, LenProperties
    <3>3. s.ring \in [Conn -> Seq(Cell)]
      BY <1>1 DEF Sys
    <3>4. \A d \in Conn : t.ring[d] = IF d = c THEN r ELSE s.ring[d]
      BY <2>2, <3>3
    <3>5. Len(t.ring[c]) <= Len(s.ring[c])
      BY <1>2, <3>4
    <3>6. \A d \in Conn : d # c => Len(t.ring[d]) <= Len(s.ring[d])
      BY <3>2, <3>4
    <3> QED  BY <3>5, <3>6
  <2> HIDE DEF t
  <2> QED  BY <2>1, <2>2, <2>3, ShorterCloses DEF Closes
<1> QED  BY <1>1, <1>3, <1>4, <1>5

LEMMA ReleaseCloses ==
    ASSUME NEW s, NEW c \in Conn, Good(s)
    PROVE  Closes(s, Release(s, c))
<1> DEFINE t == Consume(s, c)
           u == [t EXCEPT !.held = @ \ {c}]
<1>1. Closes(s, t) /\ Release(s, c) = u
  BY ConsumeCloses DEF Release
<1> HIDE DEF t
<1>2. u \in Sys /\ Same(t, u) /\ u.ring = t.ring
  BY <1>1 DEF Closes, Good, Sound, Sys, Same
<1> HIDE DEF u
<1> QED  BY <1>1, <1>2, SameCloses, ClosesTrans DEF Closes

(* t is a good state in which at most c stopped being paused.              *)
Resumes(s, t, c) == Good(t) /\ t.paused \in {s.paused, s.paused \ {c}}

LEMMA SendPendingResumes ==
    ASSUME NEW s, NEW down \in Conn, NEW up \in Conn, Good(s)
    PROVE  Resumes(s, SendPending(s, down, up), down)
<1> DEFINE r == Flush(s, up, s.pend[down])
           t == Release(r, down)
           x == [t EXCEPT !.panic = TRUE]
           y == [t EXCEPT !.paused = @ \ {down}]
<1>1. Closes(s, r)
  BY FlushCloses, HdrType DEF Good, Sound
<1>2. SendPending(s, down, up) \in {t, x, y}
  BY DEF SendPending
<1> HIDE DEF r
<1>3. Closes(r, t)
  BY <1>1, ReleaseCloses DEF Closes
<1> HIDE DEF t
<1>4. Closes(s, t) /\ t \in Sys
  BY <1>1, <1>3, ClosesTrans DEF Closes, Good, Sound
<1>5. x \in Sys /\ Same(t, x) /\ x.ring = t.ring
  BY <1>4 DEF Sys, Same
<1>6. /\ y \in Sys /\ y.tab = t.tab /\ y.fd = t.fd /\ y.rings = t.rings
      /\ y.peer = t.peer /\ y.role = t.role /\ y.ring = t.ring
      /\ y.paused = t.paused \ {down}
  BY <1>4 DEF Sys
<1> HIDE DEF x, y
<1>7. Closes(t, x)
  BY <1>4, <1>5, SameCloses DEF Closes
<1>8. Good(y)
  <2>1. Bounded(y) /\ TableOwned(y) /\ RingsLive(y) /\ Blank(y)
    BY <1>4, <1>6 DEF Closes, Good, Sound, Bounded, TableOwned, RingsLive,
                      Blank, Live, Sock
  <2>2. Paired(y)
    BY <1>4, <1>6 DEF Closes, Good, Paired, IsUp
  <2> QED  BY <1>6, <2>1, <2>2 DEF Good, Sound
<1> QED  BY <1>2, <1>4, <1>6, <1>7, <1>8 DEF Closes, Resumes

(* finishConnect on a connection the table holds.                          *)
LEMMA ConnectFailedGood ==
    ASSUME NEW s, NEW c \in Conn, Good(s), Live(s, c)
    PROVE  Good(ConnectFailed(s, c))
<1> DEFINE d == s.peer[c]
           t == CloseConn(s, c)
           u == Reply(t, d, t.pend[d].id)
           v == IF d \in u.held THEN Release(u, d) ELSE u
           w == [v EXCEPT !.peer[d] = Nil]
<1>1. Closes(s, t) /\ (d # Nil => t.peer[d] = Nil)
  BY CloseConnCloses
<1>2. ConnectFailed(s, c) = IF d = Nil THEN t ELSE w
  BY DEF ConnectFailed
<1> HIDE DEF t
<1>3. CASE d = Nil
  BY <1>1, <1>2, <1>3 DEF Closes
<1>4. CASE d # Nil
  <2>1. d \in Conn
    BY <1>4, PeerApart
  <2>2. Closes(t, u)
    BY <1>1, <2>1, HdrType, ReplyCloses DEF Closes, Good, Sound
  <2> HIDE DEF u
  <2>3. Closes(u, v)
    BY <2>1, <2>2, ReleaseCloses, ClosesTrans DEF Closes
  <2> HIDE DEF v
  <2>4. v.peer[d] = Nil
    BY <1>1, <1>4, <2>1, <2>2, <2>3 DEF Closes
  <2>5. Good(v) /\ v \in Sys
    BY <2>3 DEF Closes, Good, Sound
  <2>6. w = v
    BY <2>1, <2>4, <2>5 DEF Sys
  <2> QED  BY <1>2, <1>4, <2>5, <2>6
<1> QED  BY <1>3, <1>4

LEMMA CountType ==
    ASSUME NEW g \in [EP -> Int], NEW k
    PROVE  [g EXCEPT ![k] = @ + 1] \in [EP -> Int]
<1>1. CASE k \in EP
  BY <1>1
<1>2. CASE k \notin EP
  BY <1>2
<1> QED  BY <1>1, <1>2

LEMMA ConnectOnlyGood ==
    ASSUME NEW s, NEW c \in Conn, Good(s), s.role[c] = "connecting"
    PROVE  Good(ConnectOnly(s, c))
<1> DEFINE a == [s.active EXCEPT ![s.ep[c]] = @ + 1]
           t == [s EXCEPT !.role[c] = "up", !.active = a]
<1>0. s \in Sys /\ s.active \in [EP -> Int]
  BY DEF Good, Sound, Sys
<1>1. s \in Sys /\ a \in [EP -> Int]
  BY <1>0, CountType
<1>2. ConnectOnly(s, c) = Mod(t, c, {"R", "W"})
  BY DEF ConnectOnly
<1> HIDE DEF a
<1>3. /\ t \in Sys /\ t.role = [s.role EXCEPT ![c] = "up"]
      /\ t.peer = s.peer /\ t.ring = s.ring /\ t.rings = s.rings
      /\ t.paused = s.paused /\ t.tab = s.tab /\ t.fd = s.fd
  <2> DEFINE q == [s EXCEPT !.role[c] = "up"]
  <2>1. q \in Sys
    BY <1>1 DEF Sys, Roles
  <2>2. t = [q EXCEPT !.active = a]
    BY <1>1 DEF Sys
  <2>3. [q EXCEPT !.active = a] \in Sys
    <3> HIDE DEF q
    <3> QED  BY <1>1, <2>1 DEF Sys
  <2> QED  BY <1>1, <2>2, <2>3 DEF Sys
<1> HIDE DEF t
<1>4. /\ t.role[c] = "up"
      /\ \A x \in Conn : x # c => t.role[x] = s.role[x]
  BY <1>1, <1>3 DEF Sys
<1>5. Sound(t)
  <2>1. Bounded(t) /\ TableOwned(t) /\ RingsLive(t)
    BY <1>3 DEF Good, Sound, Bounded, TableOwned, RingsLive, Live, Sock
  <2>2. Blank(t)
    BY <1>3, <1>4 DEF Good, Sound, Blank
  <2> QED  BY <1>3, <2>1, <2>2 DEF Sound
<1>6. Paired(t)
  <2>1. \A x \in Conn : /\ IsUp(t, x) <=> IsUp(s, x)
                        /\ t.role[x] = "down" <=> s.role[x] = "down"
    BY <1>4 DEF IsUp
  <2>2. \A x \in Conn : s.peer[x] # Nil => s.peer[x] \in Conn
    BY <1>1 DEF Sys
  <2> QED  BY <1>3, <2>1, <2>2 DEF Good, Paired
<1> QED
  BY <1>2, <1>5, <1>6, ModKeeps, SameCloses DEF Good, Closes, Sound

LEMMA FinishConnectGood ==
    ASSUME NEW s, NEW c \in Conn, Good(s), Live(s, c), s.role[c] = "connecting"
    PROVE  Good(FinishConnect(s, c))
<1> DEFINE d == s.peer[c]
           t == ConnectOnly(s, c)
<1>1. Good(ConnectFailed(s, c))
  BY ConnectFailedGood
<1>2. Good(t)
  BY ConnectOnlyGood
<1>3. ConnectMade(s, c) = IF d # Nil /\ d \in t.held
                          THEN SendPending(t, d, c) ELSE t
  BY DEF ConnectMade
<1> HIDE DEF t
<1>4. d # Nil => Good(SendPending(t, d, c))
  BY <1>2, PeerApart, SendPendingResumes DEF Resumes
<1> QED  BY <1>1, <1>2, <1>3, <1>4 DEF FinishConnect

(* Before a dial the client has no upstream.                               *)
LEMMA ReselectCloses ==
    ASSUME NEW s, NEW c \in Conn, Good(s), s.role[c] = "down"
    PROVE  Closes(s, Reselect(s, c)) /\ Reselect(s, c).peer[c] = Nil
<1> DEFINE p == s.peer[c]
           t == CloseConn(s, p)
<1>1. CASE p = Nil
  BY <1>1 DEF Reselect, Closes
<1>2. CASE p # Nil
  <2>1. p \in Conn /\ s.peer[p] = c /\ p \in s.rings /\ s.peer[p] # Nil
    BY <1>2, PeerApart, ReactorAssumption DEF Good, Paired
  <2>2. Live(s, p)
    BY <2>1 DEF Good, Sound, RingsLive
  <2>3. Closes(s, t) /\ t.peer[c] = Nil
    BY <2>1, <2>2, CloseConnCloses
  <2>4. Reselect(s, c) = [t EXCEPT !.peer[c] = Nil]
    BY <1>2 DEF Reselect
  <2> HIDE DEF t
  <2>5. [t EXCEPT !.peer[c] = Nil] = t
    BY <2>3 DEF Closes, Good, Sound, Sys
  <2> QED  BY <2>3, <2>4, <2>5
<1> QED  BY <1>1, <1>2

LEMMA HoldCloses ==
    ASSUME NEW s, NEW c \in Conn, NEW h \in Frame, Good(s)
    PROVE  Closes(s, Hold(s, c, h))
<1>1. /\ Hold(s, c, h) \in Sys /\ Same(s, Hold(s, c, h))
      /\ Hold(s, c, h).ring = s.ring
  BY DEF Good, Sound, Sys, Hold, Same
<1> QED  BY <1>1, SameCloses

LEMMA OnPooledResumes ==
    ASSUME NEW s, NEW c \in Conn, NEW h \in Frame, Good(s), s.peer[c] # Nil
    PROVE  Resumes(s, OnPooled(s, c, h), c)
<1> DEFINE t == Hold(s, c, h)
           p == s.peer[c]
<1>1. p \in Conn /\ Closes(s, t)
  BY PeerApart, HoldCloses
<1>2. OnPooled(s, c, h) = SendPending(t, c, p)
  BY DEF OnPooled, Upstream
<1> HIDE DEF t, p
<1>3. Resumes(t, SendPending(t, c, p), c)
  BY <1>1, SendPendingResumes DEF Closes
<1> QED  BY <1>1, <1>2, <1>3 DEF Closes, Resumes

LEMMA OnNoDialCloses ==
    ASSUME NEW s, NEW c \in Conn, NEW h \in Frame, Good(s)
    PROVE  Closes(s, OnNoDial(s, c, h))
<1> DEFINE t == Reply(s, c, h.id)
<1>1. Closes(s, t)
  BY ReplyCloses DEF Frame
<1> HIDE DEF t
<1>2. Closes(t, Consume(t, c))
  BY <1>1, ConsumeCloses DEF Closes
<1> QED  BY <1>1, <1>2, ClosesTrans DEF OnNoDial, t

LEMMA OnUpCloses ==
    ASSUME NEW s, NEW c \in Conn, NEW h \in Frame, Good(s)
    PROVE  Closes(s, OnUp(s, c, h))
<1> DEFINE p == s.peer[c]
           t == Flush(s, p, h)
<1>1. Closes(s, Consume(s, c))
  BY ConsumeCloses
<1>2. CASE p # Nil
  <2>1. Closes(s, t)
    BY <1>2, PeerApart, FlushCloses
  <2>2. OnUp(s, c, h) = Consume(t, c)
    BY <1>2 DEF OnUp
  <2> HIDE DEF t
  <2>3. Closes(t, Consume(t, c))
    BY <2>1, ConsumeCloses DEF Closes
  <2> QED  BY <2>1, <2>2, <2>3, ClosesTrans
<1> QED  BY <1>1, <1>2 DEF OnUp

----------------------------------------------------------------------------
(* New connections, and the parser.                                        *)

(* What adopt changes before the poller looks at the socket.               *)
Makes(s, x, n, f, e, role, tx) ==
    /\ x.tab = [s.tab EXCEPT ![f] = n] /\ x.fd = [s.fd EXCEPT ![n] = f]
    /\ x.role = [s.role EXCEPT ![n] = role]
    /\ x.ep = [s.ep EXCEPT ![n] = e] /\ x.rings = s.rings \cup {n}
    /\ x.tx = [s.tx EXCEPT ![n] = tx]
    /\ x.want = [s.want EXCEPT ![n] = IF role = "connecting" THEN {"W"} ELSE {"R"}]
    /\ x.active = IF role = "up" THEN [s.active EXCEPT ![e] = @ + 1] ELSE s.active
    /\ x.peer = s.peer /\ x.ring = s.ring /\ x.hdr = s.hdr
    /\ x.have = s.have /\ x.pend = s.pend /\ x.held = s.held
    /\ x.paused = s.paused /\ x.remain = s.remain
    /\ x.inbox = s.inbox /\ x.wire = s.wire /\ x.rx = s.rx
    /\ x.armed = s.armed /\ x.got = s.got /\ x.panic = s.panic

LEMMA AdoptMakes ==
    ASSUME NEW s \in Sys, NEW n \in Conn, NEW f \in FD, NEW e \in EP \cup {Nil},
           NEW role \in {"down", "up", "connecting"}, NEW tx \in {"open", "syn"}
    PROVE  \E x \in Sys : /\ Adopt(s, n, f, role, e, tx) = Arm(x, n)
                          /\ Makes(s, x, n, f, e, role, tx)
<1> DEFINE q == [s EXCEPT !.tab[f] = n, !.fd[n] = f, !.role[n] = role]
           w == IF role = "connecting" THEN {"W"} ELSE {"R"}
           r == [q EXCEPT !.ep[n] = e, !.rings = @ \cup {n}, !.tx[n] = tx,
                          !.want[n] = w]
           a == [r.active EXCEPT ![e] = @ + 1]
           v == [r EXCEPT !.active = a]
           x == IF role = "up" THEN v ELSE r
<1>1. q \in Sys
  BY ZenonT(60) DEF Sys, Roles
<1>2. /\ q.tab = [s.tab EXCEPT ![f] = n] /\ q.fd = [s.fd EXCEPT ![n] = f]
      /\ q.role = [s.role EXCEPT ![n] = role]
      /\ q.ep = s.ep /\ q.rings = s.rings /\ q.tx = s.tx /\ q.want = s.want
      /\ q.active = s.active
      /\ q.peer = s.peer /\ q.ring = s.ring /\ q.hdr = s.hdr
      /\ q.have = s.have /\ q.pend = s.pend /\ q.held = s.held
      /\ q.paused = s.paused /\ q.remain = s.remain
      /\ q.inbox = s.inbox /\ q.wire = s.wire /\ q.rx = s.rx
      /\ q.armed = s.armed /\ q.got = s.got /\ q.panic = s.panic
  BY DEF Sys
<1>3. Adopt(s, n, f, role, e, tx) = Arm(x, n)
  BY DEF Adopt, Sys
<1> HIDE DEF q
<1>4. w \in SUBSET {"R", "W"}
  OBVIOUS
<1> HIDE DEF w
<1>5. r \in Sys
  BY <1>1, <1>4, ZenonT(60) DEF Sys
<1>6. /\ r.tab = q.tab /\ r.fd = q.fd /\ r.role = q.role
      /\ r.ep = [q.ep EXCEPT ![n] = e] /\ r.rings = q.rings \cup {n}
      /\ r.tx = [q.tx EXCEPT ![n] = tx] /\ r.want = [q.want EXCEPT ![n] = w]
      /\ r.active = q.active
      /\ r.peer = q.peer /\ r.ring = q.ring /\ r.hdr = q.hdr
      /\ r.have = q.have /\ r.pend = q.pend /\ r.held = q.held
      /\ r.paused = q.paused /\ r.remain = q.remain
      /\ r.inbox = q.inbox /\ r.wire = q.wire /\ r.rx = q.rx
      /\ r.armed = q.armed /\ r.got = q.got /\ r.panic = q.panic
  BY <1>1 DEF Sys
<1> HIDE DEF r
<1>7. a \in [EP -> Int]
  BY <1>5, CountType DEF Sys
<1> HIDE DEF a
<1>8. /\ v \in Sys /\ v.tab = r.tab /\ v.fd = r.fd /\ v.role = r.role
      /\ v.ep = r.ep /\ v.rings = r.rings /\ v.tx = r.tx /\ v.want = r.want
      /\ v.active = a
      /\ v.peer = r.peer /\ v.ring = r.ring /\ v.hdr = r.hdr
      /\ v.have = r.have /\ v.pend = r.pend /\ v.held = r.held
      /\ v.paused = r.paused /\ v.remain = r.remain
      /\ v.inbox = r.inbox /\ v.wire = r.wire /\ v.rx = r.rx
      /\ v.armed = r.armed /\ v.got = r.got /\ v.panic = r.panic
  <2>1. v \in Sys
    BY <1>5, <1>7, ZenonT(60) DEF Sys
  <2>2. v.active = a
    BY <1>5 DEF Sys
  <2>3. /\ v.tab = r.tab /\ v.fd = r.fd /\ v.role = r.role
        /\ v.ep = r.ep /\ v.rings = r.rings /\ v.tx = r.tx /\ v.want = r.want
        /\ v.peer = r.peer /\ v.ring = r.ring /\ v.hdr = r.hdr
        /\ v.have = r.have /\ v.pend = r.pend /\ v.held = r.held
        /\ v.paused = r.paused /\ v.remain = r.remain
        /\ v.inbox = r.inbox /\ v.wire = r.wire /\ v.rx = r.rx
        /\ v.armed = r.armed /\ v.got = r.got /\ v.panic = r.panic
    BY <1>5 DEF Sys
  <2> HIDE DEF v
  <2> QED  BY <2>1, <2>2, <2>3
<1> HIDE DEF v
<1>9. CASE role = "up"
  <2>1. x = v
    BY <1>9
  <2> HIDE DEF x
  <2> QED  BY <1>2, <1>3, <1>6, <1>8, <1>9, <2>1 DEF a, w, Makes
<1>10. CASE role # "up"
  <2>1. x = r
    BY <1>10
  <2> HIDE DEF x
  <2> QED  BY <1>2, <1>3, <1>5, <1>6, <1>10, <2>1 DEF w, Makes
<1> QED  BY <1>9, <1>10

(* t is s with one connection n more.                                      *)
Adopted(s, t, n, role) ==
    /\ Good(t) /\ t.peer = s.peer /\ n \in t.rings /\ t.paused = s.paused
    /\ t.role = [s.role EXCEPT ![n] = role]

LEMMA AdoptGood ==
    ASSUME NEW s, NEW n \in Conn, NEW f \in FD, NEW e \in EP \cup {Nil},
           NEW role \in {"down", "up", "connecting"}, NEW tx \in {"open", "syn"},
           Good(s), s.role[n] = "new", s.tab[f] = Nil
    PROVE  Adopted(s, Adopt(s, n, f, role, e, tx), n, role)
<1>1. s \in Sys
  BY DEF Good, Sound
<1>a. PICK x \in Sys : /\ Adopt(s, n, f, role, e, tx) = Arm(x, n)
                       /\ Makes(s, x, n, f, e, role, tx)
  BY <1>1, AdoptMakes
<1>2. /\ x.tab = [s.tab EXCEPT ![f] = n] /\ x.fd = [s.fd EXCEPT ![n] = f]
      /\ x.role = [s.role EXCEPT ![n] = role] /\ x.ring = s.ring
      /\ x.peer = s.peer /\ x.rings = s.rings \cup {n} /\ x.paused = s.paused
  BY <1>a DEF Makes
<1>3. /\ n \notin s.rings /\ s.peer[n] = Nil /\ n # Nil
       /\ \A g \in FD : s.tab[g] # n
  <2>1. n \notin s.rings /\ s.peer[n] = Nil
    BY DEF Good, Sound, Blank
  <2>2. ~Live(s, n)
    BY <2>1 DEF Good, Sound, RingsLive
  <2>3. ASSUME NEW g \in FD, s.tab[g] = n PROVE FALSE
    BY <2>2, <2>3, ReactorAssumption DEF Good, Sound, TableOwned, Live, Sock
  <2> QED  BY <2>1, <2>3, ReactorAssumption
<1>4. Bounded(x)
  BY <1>2 DEF Good, Sound, Bounded
<1>5. TableOwned(x)
  <2> SUFFICES ASSUME NEW g \in FD, x.tab[g] # Nil
               PROVE  x.fd[x.tab[g]] = g
    BY DEF TableOwned
  <2>1. CASE g = f
    BY <1>1, <1>2, <2>1 DEF Sys
  <2>2. CASE g # f
    <3>1. x.tab[g] = s.tab[g] /\ s.tab[g] # n
      BY <1>1, <1>2, <1>3, <2>2 DEF Sys
    <3>2. s.fd[s.tab[g]] = g /\ s.tab[g] \in Conn
      BY <1>1, <3>1 DEF Good, Sound, TableOwned, Sys
    <3> QED  BY <1>1, <1>2, <3>1, <3>2 DEF Sys
  <2> QED  BY <2>1, <2>2
<1>6. RingsLive(x)
  <2> SUFFICES ASSUME NEW c \in Conn
               PROVE  x.tab[x.fd[c]] = c <=> c \in x.rings
    BY DEF RingsLive, Live, Sock
  <2>1. CASE c = n
    BY <1>1, <1>2, <2>1 DEF Sys
  <2>2. CASE c # n
    <3>1. x.fd[c] = s.fd[c] /\ s.fd[c] \in FD /\ (c \in x.rings <=> c \in s.rings)
      BY <1>1, <1>2, <2>2 DEF Sys
    <3>2. s.tab[s.fd[c]] = c <=> c \in s.rings
      BY DEF Good, Sound, RingsLive, Live, Sock
    <3>3. x.tab[s.fd[c]] = c <=> s.tab[s.fd[c]] = c
      <4>1. CASE s.fd[c] = f
        BY <1>1, <1>2, <2>2, <4>1, ReactorAssumption DEF Sys
      <4>2. CASE s.fd[c] # f
        BY <1>1, <1>2, <3>1, <4>2 DEF Sys
      <4> QED  BY <4>1, <4>2
    <3> QED  BY <3>1, <3>2, <3>3
  <2> QED  BY <2>1, <2>2
<1>7. /\ x.role[n] = role
       /\ \A c \in Conn : c # n => x.role[c] = s.role[c]
  BY <1>1, <1>2 DEF Sys
<1>8. Blank(x)
  BY <1>2, <1>7 DEF Good, Sound, Blank
<1>9. Paired(x)
  <2> SUFFICES ASSUME NEW c \in Conn, s.peer[c] # Nil
               PROVE  /\ s.peer[s.peer[c]] = c
                      /\ x.role[c] = "down" <=> IsUp(x, s.peer[c])
                      /\ IsUp(x, c) => c \in x.rings
    BY <1>2 DEF Paired
  <2>1. s.peer[c] \in Conn /\ s.peer[s.peer[c]] = c
    BY PeerApart DEF Good, Paired
  <2>2. c # n /\ s.peer[c] # n
    BY <1>3, <2>1, ReactorAssumption
  <2>3. /\ s.role[c] = "down" <=> IsUp(s, s.peer[c])
        /\ IsUp(s, c) => c \in s.rings
    BY DEF Good, Paired
  <2> QED  BY <1>2, <1>7, <2>1, <2>2, <2>3 DEF IsUp
<1>10. Good(x)
  BY <1>4, <1>5, <1>6, <1>8, <1>9 DEF Good, Sound
<1>11. Closes(x, Arm(x, n)) /\ Same(x, Arm(x, n))
  BY <1>10, ArmKeeps, SameCloses
<1> QED  BY <1>a, <1>2, <1>11 DEF Closes, Same, Adopted

(* Linking a client without upstream to a new connection.                  *)
LEMMA LinkGood ==
    ASSUME NEW s, NEW c \in Conn, NEW n \in Conn, Good(s),
           s.role[c] = "down", s.peer[c] = Nil,
           IsUp(s, n), s.peer[n] = Nil, n \in s.rings
    PROVE  Good([s EXCEPT !.peer[n] = c, !.peer[c] = n])
<1> DEFINE t == [s EXCEPT !.peer[n] = c, !.peer[c] = n]
<1>1. s \in Sys /\ n # c
  BY DEF Good, Sound, IsUp
<1>2. /\ t \in Sys /\ t.ring = s.ring /\ t.rings = s.rings /\ t.role = s.role
      /\ t.tab = s.tab /\ t.fd = s.fd /\ t.paused = s.paused
      /\ t.peer = [s.peer EXCEPT ![n] = c, ![c] = n]
  BY <1>1 DEF Sys
<1> HIDE DEF t
<1>3. /\ t.peer[n] = c /\ t.peer[c] = n
      /\ \A x \in Conn : x \notin {c, n} => t.peer[x] = s.peer[x]
  BY <1>1, <1>2 DEF Sys
<1>4. Bounded(t) /\ TableOwned(t) /\ RingsLive(t)
  BY <1>2 DEF Good, Sound, Bounded, TableOwned, RingsLive, Live, Sock
<1>5. Blank(t)
  BY <1>2, <1>3 DEF Good, Sound, Blank, IsUp
<1>6. Paired(t)
  <2> SUFFICES ASSUME NEW x \in Conn, t.peer[x] # Nil
               PROVE  /\ t.peer[t.peer[x]] = x
                      /\ t.role[x] = "down" <=> IsUp(t, t.peer[x])
                      /\ IsUp(t, x) => x \in t.rings
    BY DEF Paired
  <2>1. CASE x \in {c, n}
    BY <1>2, <1>3, <2>1 DEF IsUp
  <2>2. CASE x \notin {c, n}
    <3>1. /\ t.peer[x] = s.peer[x] /\ s.peer[x] # Nil
          /\ s.peer[x] \in Conn /\ s.peer[s.peer[x]] = x
      BY <1>3, <2>2, PeerApart DEF Good, Paired
    <3>2. s.peer[x] \notin {c, n}
      BY <3>1, ReactorAssumption
    <3> QED  BY <1>2, <1>3, <3>1, <3>2 DEF Good, Paired, IsUp
  <2> QED  BY <2>1, <2>2
<1> QED  BY <1>2, <1>4, <1>5, <1>6 DEF Good, Sound, t

LEMMA OnDialledResumes ==
    ASSUME NEW s, NEW c \in Conn, NEW h \in Frame, NEW e \in EP,
           NEW n \in Conn, NEW f \in FD, NEW how,
           Good(s), s.role[c] = "down", s.peer[c] = Nil,
           s.role[n] = "new", s.tab[f] = Nil
    PROVE  Resumes(s, OnDialled(s, c, h, e, n, f, how), c)
<1> DEFINE sock == IF how = "instant" THEN "open" ELSE "syn"
           kind == DialRole(how)
           t == Adopt(s, n, f, kind, e, sock)
           l == [t EXCEPT !.peer[n] = c, !.peer[c] = n]
           u == Hold(l, c, h)
<1>1. sock \in {"open", "syn"} /\ kind \in {"up", "connecting"}
  BY DEF DialRole
<1>2. OnDialled(s, c, h, e, n, f, how) =
          IF kind = "up" THEN SendPending(u, c, n) ELSE u
  BY DEF OnDialled
<1> HIDE DEF sock, kind
<1>3. Adopted(s, t, n, kind)
  <2>1. kind \in {"down", "up", "connecting"} /\ e \in EP \cup {Nil}
    BY <1>1
  <2> QED  BY <1>1, <2>1, AdoptGood
<1> HIDE DEF t
<1>4. /\ IsUp(t, n) /\ t.role[c] = "down"
      /\ t.peer[n] = Nil /\ t.peer[c] = Nil
  <2>1. s.role \in [Conn -> Roles] /\ s.peer[n] = Nil /\ n # c
    BY DEF Good, Sound, Sys, Blank
  <2> QED  BY <1>1, <1>3, <2>1 DEF IsUp, Adopted
<1>5. Good(l) /\ l.paused = s.paused
  <2>1. Good(l)
    BY <1>3, <1>4, LinkGood DEF Adopted
  <2>2. l.paused = t.paused
    BY <1>3, GoodSys DEF Adopted, Sys
  <2> QED  BY <1>3, <2>1, <2>2 DEF Adopted
<1> HIDE DEF l
<1>6. Good(u) /\ u.paused = s.paused
  BY <1>5, HoldCloses DEF Closes
<1> HIDE DEF u
<1> QED  BY <1>2, <1>6, SendPendingResumes DEF Resumes

LEMMA NextFrameType ==
    ASSUME NEW s \in Sys, NEW c \in Conn,
           c \in s.have \/ s.ring[c] # <<>>
    PROVE  NextFrame(s, c) \in Frame
<1>1. CASE c \in s.have
  BY <1>1, HdrType DEF NextFrame
<1>2. CASE c \notin s.have
  <2>1. s.ring[c] \in Seq(Cell) /\ s.ring[c] # <<>>
    BY <1>2 DEF Sys
  <2>2. s.ring[c][1] \in Cell
    BY <2>1, EmptySeq, ElementOfSeq, LenProperties
  <2> QED  BY <1>2, <2>2 DEF NextFrame, Cell
<1> QED  BY <1>1, <1>2

LEMMA TakeHdrCloses ==
    ASSUME NEW s, NEW c \in Conn, Good(s), c \in s.have \/ s.ring[c] # <<>>
    PROVE  Closes(s, TakeHdr(s, c))
<1>1. CASE c \in s.have
  BY <1>1 DEF TakeHdr, Closes
<1>2. CASE c \notin s.have
  <2> DEFINE g == s.ring[c][1][1]
             q == s.ring[c]
             r == Tail(q)
             t == [s EXCEPT !.hdr[c] = g, !.have = @ \cup {c}, !.ring[c] = r]
  <2>1. s \in Sys
    BY DEF Good, Sound
  <2>2. g \in Frame
    BY <1>2, <2>1, NextFrameType DEF NextFrame
  <2>3. r \in Seq(Cell) /\ Len(r) <= Len(q) /\ q \in Seq(Cell)
    BY <1>2, <2>1, HeadTailProperties, LenProperties DEF Sys
  <2>4. TakeHdr(s, c) = t
    BY <1>2 DEF TakeHdr
  <2> HIDE DEF g, r
  <2>5. t \in Sys /\ Same(s, t) /\ t.ring = [s.ring EXCEPT ![c] = r]
    BY <2>1, <2>2, <2>3, ZenonT(60) DEF Sys, Same
  <2> HIDE DEF t
  <2>6. \A d \in Conn : Len(t.ring[d]) <= Len(s.ring[d])
    <3>1. s.ring \in [Conn -> Seq(Cell)]
      BY <2>1 DEF Sys
    <3>2. \A d \in Conn : Len(s.ring[d]) \in Nat
      BY <3>1, LenProperties
    <3>3. \A d \in Conn : t.ring[d] = IF d = c THEN r ELSE s.ring[d]
      BY <2>5, <3>1
    <3>4. Len(t.ring[c]) <= Len(s.ring[c])
      BY <2>3, <3>3
    <3>5. \A d \in Conn : d # c => Len(t.ring[d]) <= Len(s.ring[d])
      BY <3>2, <3>3
    <3> QED  BY <3>4, <3>5
  <2> QED  BY <2>4, <2>5, <2>6, ShorterCloses
<1> QED  BY <1>1, <1>2

----------------------------------------------------------------------------
(* The inductive invariant: the structure of sys, and the types of what    *)
(* the goroutine's loops and the far ends keep.                            *)

Events == (FD \cup {Nil}) \X SUBSET {"R", "W", "E"}

(* readLoop works on a connection, and on one that is not paused.          *)
LoopsOK ==
    /\ pc \in {"loop", "accept", "read", "parse", "shutdown", "stopped"}
    /\ cur \in Conn \cup {Nil} /\ ret \in {"loop", "accept"}
    /\ pc \in {"read", "parse"} => cur \in Conn
    /\ pc \in {"read", "parse"} /\ ~sys.panic => cur \notin sys.paused

EnvOK ==
    /\ backlog \in Nat /\ lArmed \in BOOLEAN
    /\ eligible \subseteq EP /\ asker \in [1 .. MaxReq -> Conn \cup {Nil}]
    /\ nreq \in 0 .. MaxReq /\ nclients \in 0 .. MaxClients
    /\ nslow \in 0 .. MaxSlow

IInv == Good(sys) /\ LoopsOK /\ batch \in Seq(Events) /\ EnvOK

LEMMA PanicGood ==
    ASSUME NEW s, Good(s)
    PROVE  Good([s EXCEPT !.panic = TRUE])
<1> DEFINE t == [s EXCEPT !.panic = TRUE]
<1>1. s \in Sys
  BY GoodSys
<1>2. t \in Sys
  BY <1>1 DEF Sys
<1>3. Same(s, t) /\ t.ring = s.ring
  BY <1>1 DEF Sys, Same
<1> HIDE DEF t
<1>4. Closes(s, t)
  BY <1>2, <1>3, SameCloses
<1> QED  BY <1>4 DEF Closes, t

Loops == {"loop", "accept", "read", "parse", "shutdown", "stopped"}
Inner == {"read", "parse"}

(* A step of the goroutine to a good state.                                *)
LEMMA ThenGood ==
    ASSUME NEW t, NEW p \in Loops, NEW c \in Conn \cup {Nil},
           NEW r \in {"loop", "accept"}, Good(sys), Good(t),
           p \in Inner => c \in Conn /\ c \notin t.paused,
           Then(t, p, c, r)
    PROVE  Good(sys') /\ LoopsOK'
<1>1. Good([sys EXCEPT !.panic = TRUE]) /\ [sys EXCEPT !.panic = TRUE].panic
  BY PanicGood, GoodSys DEF Sys
<1>2. CASE t.panic
  BY <1>1, <1>2 DEF Then, LoopsOK, Loops, Inner
<1>3. CASE ~t.panic
  BY <1>3 DEF Then, LoopsOK, Loops, Inner
<1> QED  BY <1>2, <1>3

LEMMA GotoGood ==
    ASSUME NEW t, NEW p \in Loops, Good(sys), Good(t), LoopsOK,
           p \in Inner => cur \in Conn /\ cur \notin t.paused,
           Goto(t, p)
    PROVE  Good(sys') /\ LoopsOK'
BY ThenGood DEF Goto, LoopsOK

(* A handler from the event loop may resume any paused connection; one     *)
(* that dispatch called for cur, which is not paused, resumes none.        *)
LEMMA ThenResumeLoop ==
    ASSUME NEW t, Good(sys), Good(t), LoopsOK, ThenResume(t, "loop")
    PROVE  Good(sys') /\ LoopsOK'
<1> DEFINE resumed == sys.paused \ t.paused
           c == CHOOSE x \in resumed : TRUE
<1>1. resumed \subseteq Conn
  BY GoodSys DEF Sys
<1>2. CASE resumed = {}
  BY <1>2, GotoGood DEF ThenResume, Loops, Inner
<1>3. CASE resumed # {}
  <2>1. c \in resumed
    BY <1>3
  <2>2. Then(t, "read", c, "loop")
    BY <1>3 DEF ThenResume
  <2>3. c \in Conn /\ c \notin t.paused
    BY <1>1, <2>1
  <2> HIDE DEF c
  <2> QED  BY <2>2, <2>3, ThenGood DEF Loops, Inner
<1> QED  BY <1>2, <1>3

LEMMA ThenResumeParse ==
    ASSUME NEW s, NEW t, Good(sys), LoopsOK, s.paused = sys.paused,
           cur \in Conn, cur \notin sys.paused,
           Resumes(s, t, cur), ThenResume(t, "parse")
    PROVE  Good(sys') /\ LoopsOK'
<1>1. t.paused = sys.paused
  BY DEF Resumes
<1>2. Goto(t, "parse")
  BY <1>1 DEF ThenResume
<1> QED  BY <1>1, <1>2, GotoGood DEF Resumes, Loops, Inner

----------------------------------------------------------------------------
(* The steps of the goroutine.                                             *)

LEMMA FieldGood ==
    ASSUME NEW s, NEW t, Good(s), t \in Sys, t.ring = s.ring, Same(s, t)
    PROVE  Good(t)
BY SameCloses DEF Closes

LEMMA ReadyFinite ==
    ASSUME Good(sys)
    PROVE  /\ ReadyEvents \subseteq Events /\ IsFiniteSet(ReadyEvents)
           /\ Cardinality(ReadyEvents) \in Nat
<1>1. \A c \in Conn : sys.fd[c] \in FD /\ sys.want[c] \subseteq {"R", "W"}
  BY GoodSys DEF Sys
<1>2. \A c \in Conn : Bits(sys, c) \subseteq {"R", "W", "E"}
  BY <1>1 DEF Bits
<1>3. sys.armed \subseteq Conn
  BY GoodSys DEF Sys
<1>4. ReadyEvents \subseteq Events
  BY <1>1, <1>2, <1>3 DEF ReadyEvents, Events
<1>5. IsFiniteSet(Events)
  <2>1. IsFiniteSet(FD \cup {Nil})
    BY FS_Singleton, FS_Union, ReactorAssumption
  <2>2. IsFiniteSet({"R", "W", "E"})
    <3>1. IsFiniteSet({"R"} \cup {"W"})
      BY FS_Singleton, FS_Union
    <3>2. IsFiniteSet(({"R"} \cup {"W"}) \cup {"E"})
      BY <3>1, FS_Singleton, FS_Union
    <3>3. ({"R"} \cup {"W"}) \cup {"E"} = {"R", "W", "E"}
      OBVIOUS
    <3> QED  BY <3>2, <3>3
  <2>3. IsFiniteSet(SUBSET {"R", "W", "E"})
    BY <2>2, FS_SUBSET
  <2> QED  BY <2>1, <2>3, FS_Product DEF Events
<1> QED  BY <1>4, <1>5, FS_Subset, FS_CardinalityType

LEMMA WaitStep == IInv /\ Wait => IInv'
<1> SUFFICES ASSUME IInv, Wait PROVE IInv'
  OBVIOUS
<1> USE DEF IInv, Wait
<1>1. Good(sys')
  <2> DEFINE t == [sys EXCEPT !.armed = {}]
  <2>1. sys \in Sys /\ sys' = t
    BY GoodSys
  <2>2. t \in Sys
    BY <2>1 DEF Sys
  <2>3. Same(sys, t) /\ t.ring = sys.ring
    BY <2>1 DEF Sys, Same
  <2> HIDE DEF t
  <2> QED  BY <2>1, <2>2, <2>3, FieldGood
<1>2. sys'.paused = sys.paused /\ sys'.panic = sys.panic
  BY GoodSys DEF Sys
<1>3. batch' \in Seq(Events)
  <2>1. batch' \in [1 .. Cardinality(ReadyEvents) -> ReadyEvents]
    OBVIOUS
  <2>2. batch' \in [1 .. Cardinality(ReadyEvents) -> Events]
    BY <2>1, ReadyFinite
  <2> QED  BY <2>2, ReadyFinite, SeqDef
<1>4. LoopsOK'
  BY <1>2 DEF LoopsOK
<1>5. EnvOK'
  BY DEF EnvOK
<1> QED  BY <1>1, <1>3, <1>4, <1>5

LEMMA EnvKept == EnvOK /\ UNCHANGED env => EnvOK'
BY DEF EnvOK, env

(* An event is for the listener, for nobody any more, or for a connection  *)
(* the table holds.                                                        *)
LEMMA HandledLive ==
    ASSUME IInv, batch # <<>>
    PROVE  LET f == Head(batch)[1]
               c == IF f = Nil THEN Nil ELSE sys.tab[f]
           IN  c # Nil => c \in Conn /\ Live(sys, c)
<1> DEFINE f == Head(batch)[1]
           c == IF f = Nil THEN Nil ELSE sys.tab[f]
<1>1. batch \in Seq(Events)
  BY DEF IInv
<1>2. Head(batch) \in Events
  BY <1>1, HeadTailProperties
<1>3. f \in FD \cup {Nil} /\ Good(sys) /\ sys \in Sys
  BY <1>2, GoodSys DEF Events, IInv
<1>4. ASSUME c # Nil PROVE c \in Conn /\ Live(sys, c)
  <2>1. f \in FD /\ c = sys.tab[f] /\ c \in Conn
    BY <1>3, <1>4 DEF Sys
  <2>2. sys.fd[c] = f
    BY <1>3, <1>4, <2>1 DEF Good, Sound, TableOwned
  <2> QED  BY <2>1, <2>2 DEF Live, Sock
<1> QED  BY <1>4

LEMMA HandleStep == IInv /\ Handle => IInv'
<1> SUFFICES ASSUME IInv, Handle PROVE IInv'
  OBVIOUS
<1> DEFINE f    == Head(batch)[1]
           bits == Head(batch)[2]
           c    == IF f = Nil THEN Nil ELSE sys.tab[f]
<1>1. batch \in Seq(Events) /\ batch # <<>> /\ batch' = Tail(batch)
  BY DEF IInv, Handle
<1>2. Head(batch) \in Events /\ batch' \in Seq(Events)
  BY <1>1, HeadTailProperties
<1>3. f \in FD \cup {Nil}
  BY <1>2 DEF Events
<1>4. Good(sys) /\ LoopsOK /\ sys \in Sys
  BY GoodSys DEF IInv
<1>5. c # Nil => c \in Conn /\ Live(sys, c)
  BY <1>1, HandledLive
<1>6. \/ HandleStale(f) \/ HandleListen(f)
      \/ HandleConnect(c, bits) \/ HandleIO(c, bits)
  BY DEF Handle
<1> HIDE DEF f, bits, c
<1>e. EnvOK' /\ batch' \in Seq(Events)
  BY <1>2, EnvKept DEF IInv, Handle
<1> SUFFICES Good(sys') /\ LoopsOK'
  BY <1>e DEF IInv
<1>7. CASE HandleStale(f)
  BY <1>4, <1>7, GotoGood DEF HandleStale, Loops, Inner
<1>8. CASE HandleListen(f)
  BY <1>4, <1>8, GotoGood DEF HandleListen, Loops, Inner
<1>9. CASE HandleConnect(c, bits)
  <2>1. Good(FinishConnect(sys, c))
    BY <1>4, <1>5, <1>9, FinishConnectGood DEF HandleConnect, Connects
  <2> QED  BY <1>4, <1>9, <2>1, ThenResumeLoop DEF HandleConnect
<1>10. CASE HandleIO(c, bits)
  <2> DEFINE t == IF "W" \in bits THEN FlushRemain(sys, c) ELSE sys
             u == CloseConn(sys, c)
  <2>1. c \in Conn /\ Good(u)
    BY <1>4, <1>5, <1>10, CloseConnCloses DEF HandleIO, Closes
  <2>2. Good(t) /\ t.paused = sys.paused
    BY <1>4, <2>1, FlushRemainCloses DEF Closes
  <2>3. \/ Goto(u, "loop")
        \/ c \notin sys.paused /\ Then(t, "read", c, "loop")
        \/ Goto(t, "loop")
    BY <1>10 DEF HandleIO
  <2> HIDE DEF t, u
  <2>4. CASE Goto(u, "loop") \/ Goto(t, "loop")
    BY <1>4, <2>1, <2>2, <2>4, GotoGood DEF Loops, Inner
  <2>5. CASE c \notin sys.paused /\ Then(t, "read", c, "loop")
    BY <1>4, <2>1, <2>2, <2>5, ThenGood DEF Loops, Inner
  <2> QED  BY <2>3, <2>4, <2>5
<1> QED  BY <1>6, <1>7, <1>8, <1>9, <1>10

(* The object and the descriptor adopt takes.                              *)
LEMMA FreshType ==
    ASSUME NEW s, Good(s)
    PROVE  /\ NewConns(s) # {} => /\ Fresh(s) \in Conn
                                  /\ s.role[Fresh(s)] = "new"
           /\ FreeFDs(s) # {} => FreeFD(s) \in FD /\ s.tab[FreeFD(s)] = Nil
<1>1. NewConns(s) # {} => Fresh(s) \in NewConns(s)
  BY DEF Fresh
<1>2. FreeFDs(s) # {} => FreeFD(s) \in FreeFDs(s)
  BY DEF FreeFD
<1> QED  BY <1>1, <1>2 DEF NewConns, FreeFDs

LEMMA AcceptStep == IInv /\ (Accept \/ AcceptDrops \/ AcceptAgain \/ AcceptFails) => IInv'
<1> SUFFICES ASSUME IInv, Accept \/ AcceptDrops \/ AcceptAgain \/ AcceptFails PROVE IInv'
  OBVIOUS
<1>1. Good(sys) /\ LoopsOK /\ EnvOK /\ batch \in Seq(Events)
  BY DEF IInv
<1>2. CASE Accept
  <2> DEFINE c == Fresh(sys)
             f == FreeFD(sys)
             t == Adopt(sys, c, f, "down", Nil, "open")
  <2>1. AcceptThen("accept")
    BY <1>2 DEF Accept
  <2>2. /\ c \in Conn /\ sys.role[c] = "new" /\ f \in FD /\ sys.tab[f] = Nil
    BY <1>1, <2>1, FreshType DEF AcceptThen
  <2>3. Then(t, "read", c, "accept")
    BY <2>1 DEF AcceptThen
  <2> HIDE DEF c, f
  <2>4. Adopted(sys, t, c, "down")
    BY <1>1, <2>2, AdoptGood
  <2>5. c \notin sys.paused
    BY <1>1, <2>2 DEF Good, Sound, Blank
  <2> HIDE DEF t
  <2>6. Good(sys') /\ LoopsOK'
    BY <1>1, <2>2, <2>3, <2>4, <2>5, ThenGood DEF Adopted, Loops, Inner
  <2>7. EnvOK' /\ batch' = batch
    BY <1>1, <2>1 DEF AcceptThen, EnvOK
  <2> QED  BY <1>1, <2>6, <2>7 DEF IInv
<1>3. CASE AcceptDrops \/ AcceptAgain \/ AcceptFails
  <2>1. PICK p \in {"loop", "accept"} : Goto(sys, p)
    BY <1>3 DEF AcceptDrops, AcceptAgain, AcceptFails
  <2>2. Good(sys') /\ LoopsOK'
    BY <1>1, <2>1, GotoGood DEF Loops, Inner
  <2>3. EnvOK' /\ batch' = batch
    BY <1>1, <1>3 DEF AcceptDrops, AcceptAgain, AcceptFails, EnvOK, env
  <2> QED  BY <1>1, <2>2, <2>3 DEF IInv
<1> QED  BY <1>2, <1>3

(* A step that only moves the goroutine within or out of readLoop.         *)
LEMMA LoopStep ==
    ASSUME IInv, Good(sys') /\ LoopsOK', UNCHANGED <<batch, env>>
    PROVE  IInv'
BY EnvKept DEF IInv

Read == ReadGone \/ ReadPauses \/ ReadReturns \/ ReadCloses \/ ReadSome

LEMMA ReadStep == IInv /\ Read => IInv'
<1> SUFFICES ASSUME IInv, Read PROVE IInv'
  OBVIOUS
<1>1. /\ Good(sys) /\ LoopsOK /\ sys \in Sys
      /\ cur \in Conn /\ cur \notin sys.paused
      /\ ret \in {"loop", "accept"} /\ ret \notin Inner
  BY GoodSys DEF IInv, Read, ReadGone, ReadPauses, ReadReturns, ReadCloses,
                 ReadSome, Reading, At, Running, LoopsOK, Inner
<1>2. UNCHANGED <<batch, env>>
  BY DEF Read, ReadGone, ReadPauses, ReadReturns, ReadCloses, ReadSome, Reading
<1> SUFFICES Good(sys') /\ LoopsOK'
  BY <1>2, LoopStep
<1>3. CASE ReadGone \/ ReadReturns
  BY <1>1, <1>3, GotoGood DEF ReadGone, ReadReturns, Loops
<1>4. CASE ReadPauses
  <2> DEFINE t == [sys EXCEPT !.paused = @ \cup {cur}]
  <2>1. Goto(t, ret) /\ cur \in sys.rings
    BY <1>4 DEF ReadPauses
  <2>2. /\ t \in Sys /\ t.tab = sys.tab /\ t.fd = sys.fd /\ t.rings = sys.rings
        /\ t.peer = sys.peer /\ t.role = sys.role /\ t.ring = sys.ring
        /\ t.paused = sys.paused \cup {cur}
    BY <1>1 DEF Sys
  <2> HIDE DEF t
  <2>3. Bounded(t) /\ TableOwned(t) /\ RingsLive(t)
    BY <1>1, <2>2 DEF Good, Sound, Bounded, TableOwned, RingsLive, Live, Sock
  <2>4. Blank(t) /\ Paired(t)
    BY <1>1, <2>1, <2>2 DEF Good, Sound, Blank, Paired, IsUp
  <2>5. Good(t)
    BY <2>2, <2>3, <2>4 DEF Good, Sound
  <2> QED  BY <1>1, <2>1, <2>5, GotoGood DEF Loops
<1>5. CASE ReadCloses
  <2>1. Good(CloseConn(sys, cur))
    BY <1>1, CloseConnCloses DEF Closes
  <2> QED  BY <1>1, <1>5, <2>1, GotoGood DEF ReadCloses, Loops
<1>6. CASE ReadSome
  <2> DEFINE in == sys.inbox[cur]
             q  == sys.ring[cur]
  <2>1. PICK n \in 1 .. Free(sys, cur) :
           /\ n <= Len(in)
           /\ Goto([sys EXCEPT !.ring[cur] = q \o SubSeq(in, 1, n),
                               !.inbox[cur] = SubSeq(in, n + 1, Len(in))], "parse")
    BY <1>6 DEF ReadSome
  <2> DEFINE r == q \o SubSeq(in, 1, n)
             w == SubSeq(in, n + 1, Len(in))
             t == [sys EXCEPT !.ring[cur] = r, !.inbox[cur] = w]
  <2>2. in \in Seq(Cell) /\ q \in Seq(Cell) /\ Len(q) \in Nat /\ Len(in) \in Nat
    BY <1>1, LenProperties DEF Sys
  <2>3. n \in Nat /\ n <= Cap - 1 - Len(q)
    BY <2>2, ReactorAssumption DEF Free, Used
  <2>4. SubSeq(in, 1, n) \in Seq(Cell) /\ Len(SubSeq(in, 1, n)) = n
    BY <2>1, <2>2, <2>3, SubSeqProperties
  <2>5. r \in Seq(Cell) /\ Len(r) < Cap
    BY <2>2, <2>3, <2>4, ConcatProperties, ReactorAssumption
  <2>6. w \in Seq(Cell)
    BY <2>2, <2>3, DropPrefix
  <2> HIDE DEF r, w
  <2>7. /\ t \in Sys /\ Same(sys, t)
        /\ t.ring = [sys.ring EXCEPT ![cur] = r]
    <3>1. t \in Sys
      BY <1>1, <2>5, <2>6 DEF Sys
    <3>2. Same(sys, t) /\ t.ring = [sys.ring EXCEPT ![cur] = r]
      BY <1>1 DEF Sys, Same
    <3> QED  BY <3>1, <3>2
  <2>8. Goto(t, "parse")
    BY <2>1 DEF r, w
  <2> HIDE DEF t
  <2>9. Bounded(t)
    <3>1. sys.ring \in [Conn -> Seq(Cell)] /\ Bounded(sys)
      BY <1>1 DEF Sys, Good, Sound
    <3>2. \A d \in Conn : t.ring[d] = IF d = cur THEN r ELSE sys.ring[d]
      BY <2>7, <3>1
    <3> QED  BY <2>5, <3>1, <3>2 DEF Bounded
  <2>10. Good(t) /\ cur \notin t.paused
    BY <1>1, <2>7, <2>9, SameSound, SamePaired DEF Good, Same
  <2> QED  BY <1>1, <2>8, <2>10, GotoGood DEF Loops
<1> QED  BY <1>3, <1>4, <1>5, <1>6 DEF Read

Parse == ParseEnds \/ ParsePanics \/ ParseRejects \/ ParseWaits

LEMMA ParseStep == IInv /\ Parse => IInv'
<1> SUFFICES ASSUME IInv, Parse PROVE IInv'
  OBVIOUS
<1>1. /\ Good(sys) /\ LoopsOK /\ sys \in Sys /\ cur \in Conn
      /\ pc = "parse" /\ cur \notin sys.paused
      /\ ret \in {"loop", "accept"} /\ ret \notin Inner
  BY GoodSys DEF IInv, Parse, ParseEnds, ParsePanics, ParseRejects, ParseWaits,
                 CanParse, Parsing, At, Running, LoopsOK, Inner
<1>2. UNCHANGED <<batch, env>>
  BY DEF Parse, ParseEnds, ParsePanics, ParseRejects, ParseWaits, CanParse, Parsing
<1> SUFFICES Good(sys') /\ LoopsOK'
  BY <1>2, LoopStep
<1>3. CASE ParseEnds
  BY <1>1, <1>3, GotoGood DEF ParseEnds, Loops
<1>4. CASE ParsePanics
  <2> DEFINE t == [sys EXCEPT !.panic = TRUE]
  <2>1. Good(t) /\ t.paused = sys.paused
    BY <1>1, PanicGood DEF Sys
  <2>2. Goto(t, "parse")
    BY <1>1, <1>4 DEF ParsePanics
  <2> HIDE DEF t
  <2> QED  BY <1>1, <2>1, <2>2, GotoGood DEF Loops
<1>5. CASE ParseRejects
  <2> DEFINE t == IF sys.role[cur] = "down" THEN Reply(sys, cur, 0) ELSE sys
             u == CloseConn(t, cur)
  <2>1. Goto(u, ret)
    BY <1>5 DEF ParseRejects
  <2>2. 0 \in 0 .. MaxReq
    BY ReactorAssumption
  <2>3. Good(t)
    BY <1>1, <2>2, ReplyCloses DEF Closes
  <2> HIDE DEF t
  <2>4. Good(u)
    BY <1>1, <2>3, CloseConnCloses DEF Closes
  <2> HIDE DEF u
  <2> QED  BY <1>1, <2>1, <2>4, GotoGood DEF Loops
<1>6. CASE ParseWaits
  <2> DEFINE t == TakeHdr(sys, cur)
  <2>1. Closes(sys, t)
    BY <1>1, <1>6, TakeHdrCloses DEF ParseWaits, CanParse
  <2>2. Goto(t, "read")
    BY <1>6 DEF ParseWaits
  <2> HIDE DEF t
  <2> QED  BY <1>1, <2>1, <2>2, GotoGood DEF Loops, Closes
<1> QED  BY <1>3, <1>4, <1>5, <1>6 DEF Parse

(* dispatch of the frame h, with its header taken.                         *)
LEMMA DownStep ==
    ASSUME NEW t, NEW h \in Frame, IInv, cur \in Conn, cur \notin sys.paused,
           Closes(sys, t), t.role[cur] = "down",
           \/ DownPing(t, h) \/ DownClose(t, h) \/ DownError(t, h)
           \/ DownRefused(t, h) \/ DownPooled(t, h)
           \/ DownUndialled(t, h) \/ DownDialled(t, h)
    PROVE  Good(sys') /\ LoopsOK'
<1>1. /\ Good(sys) /\ LoopsOK /\ Good(t) /\ t.paused = sys.paused
  BY DEF IInv, Closes
<1>2. ASSUME NEW u, Closes(t, u), Goto(u, "parse")
      PROVE  Good(sys') /\ LoopsOK'
  BY <1>1, <1>2, GotoGood DEF Closes, Loops
<1>3. CASE DownPing(t, h)
  <2> DEFINE u == Flush(t, cur, Pong(h))
             v == Consume(u, cur)
  <2>1. Closes(t, u)
    BY <1>1, MadeFrames, FlushCloses
  <2>2. Goto(v, "parse")
    BY <1>3 DEF DownPing
  <2> HIDE DEF u
  <2>3. Closes(u, v)
    BY <2>1, ConsumeCloses DEF Closes
  <2> HIDE DEF v
  <2> QED  BY <1>2, <2>1, <2>2, <2>3, ClosesTrans
<1>4. CASE DownClose(t, h)
  <2> DEFINE u == Consume(t, cur)
             v == CloseConn(u, cur)
  <2>1. Closes(t, u)
    BY <1>1, ConsumeCloses
  <2>2. Goto(v, "parse")
    BY <1>4 DEF DownClose
  <2> HIDE DEF u
  <2>3. Closes(u, v)
    BY <2>1, CloseConnCloses DEF Closes
  <2> HIDE DEF v
  <2> QED  BY <1>2, <2>1, <2>2, <2>3, ClosesTrans
<1>5. CASE DownError(t, h)
  BY <1>1, <1>2, <1>5, ConsumeCloses DEF DownError
<1>6. CASE DownRefused(t, h)
  BY <1>1, <1>2, <1>6, OnNoDialCloses DEF DownRefused
<1>7. CASE DownPooled(t, h)
  <2>1. t.peer[cur] # Nil
    BY <1>7 DEF DownPooled, Reuses, Upstream
  <2>2. Resumes(t, OnPooled(t, cur, h), cur)
    BY <1>1, <2>1, OnPooledResumes
  <2> QED  BY <1>1, <1>7, <2>2, ThenResumeParse DEF DownPooled
<1>8. CASE DownUndialled(t, h)
  <2> DEFINE u == Reselect(t, cur)
             v == OnNoDial(u, cur, h)
  <2>1. Closes(t, u)
    BY <1>1, ReselectCloses
  <2>2. Goto(v, "parse")
    BY <1>8 DEF DownUndialled
  <2> HIDE DEF u
  <2>3. Closes(u, v)
    BY <2>1, OnNoDialCloses DEF Closes
  <2> HIDE DEF v
  <2> QED  BY <1>2, <2>1, <2>2, <2>3, ClosesTrans
<1>9. CASE DownDialled(t, h)
  <2> DEFINE u == Reselect(t, cur)
             n == Fresh(t)
             f == FreeFD(u)
  <2>1. PICK e \in EP, how \in {"progress"} \cup ({"instant"} \cap Faults) :
           /\ FreeFDs(u) # {}
           /\ ThenResume(OnDialled(u, cur, h, e, n, f, how), "parse")
    <3>1. eligible \subseteq EP
      BY DEF IInv, EnvOK
    <3> QED  BY <1>9, <3>1 DEF DownDialled
  <2>2. Closes(t, u) /\ u.peer[cur] = Nil
    BY <1>1, ReselectCloses
  <2>3. n \in Conn /\ t.role[n] = "new"
    BY <1>1, <1>9, FreshType DEF DownDialled
  <2>4. f \in FD /\ u.tab[f] = Nil
    BY <2>1, <2>2, FreshType DEF Closes
  <2> HIDE DEF u, n, f
  <2>5. Resumes(u, OnDialled(u, cur, h, e, n, f, how), cur)
    BY <2>2, <2>3, <2>4, OnDialledResumes DEF Closes
  <2> QED  BY <1>1, <2>1, <2>2, <2>5, ThenResumeParse DEF Closes
<1> QED  BY <1>3, <1>4, <1>5, <1>6, <1>7, <1>8, <1>9

LEMMA DispatchStep == IInv /\ Dispatch => IInv'
<1> SUFFICES ASSUME IInv, Dispatch PROVE IInv'
  OBVIOUS
<1> DEFINE t == TakeHdr(sys, cur)
           h == t.hdr[cur]
<1>1. /\ Good(sys) /\ LoopsOK /\ cur \in Conn /\ cur \notin sys.paused
  BY DEF IInv, Dispatch, CanParse, Parsing, At, Running, LoopsOK
<1>2. UNCHANGED <<batch, env>>
  BY DEF Dispatch, CanParse, Parsing
<1> SUFFICES Good(sys') /\ LoopsOK'
  BY <1>2, LoopStep
<1>3. Closes(sys, t)
  BY <1>1, TakeHdrCloses DEF Dispatch, CanParse
<1>4. /\ sys.role[cur] = "down" =>
            \/ DownPing(t, h) \/ DownClose(t, h) \/ DownError(t, h)
            \/ DownRefused(t, h) \/ DownPooled(t, h)
            \/ DownUndialled(t, h) \/ DownDialled(t, h)
      /\ sys.role[cur] = "up" => Goto(OnUp(t, cur, h), "parse")
      /\ sys.role[cur] \notin {"down", "up"} => Goto(Consume(t, cur), "parse")
  BY DEF Dispatch
<1> HIDE DEF t
<1>5. h \in Frame
  BY <1>1, <1>3, HdrType, GoodSys DEF Closes
<1> HIDE DEF h
<1>6. Good(t) /\ t.paused = sys.paused /\ t.role = sys.role
  BY <1>3 DEF Closes
<1>7. CASE sys.role[cur] = "down"
  BY <1>1, <1>3, <1>4, <1>5, <1>6, <1>7, DownStep
<1>8. CASE sys.role[cur] = "up"
  <2>1. Closes(t, OnUp(t, cur, h))
    BY <1>1, <1>5, <1>6, OnUpCloses
  <2> QED  BY <1>1, <1>4, <1>6, <1>8, <2>1, GotoGood DEF Closes, Loops
<1>9. CASE sys.role[cur] \notin {"down", "up"}
  <2>1. Closes(t, Consume(t, cur))
    BY <1>1, <1>6, ConsumeCloses
  <2> QED  BY <1>1, <1>4, <1>6, <1>9, <2>1, GotoGood DEF Closes, Loops
<1> QED  BY <1>7, <1>8, <1>9

Ending == SweepIdle \/ Stop \/ ShutdownOne \/ ShutdownEnds

LEMMA EndingStep == IInv /\ Ending => IInv'
<1> SUFFICES ASSUME IInv, Ending PROVE IInv'
  OBVIOUS
<1>1. Good(sys) /\ LoopsOK
  BY DEF IInv
<1>2. UNCHANGED <<batch, env>>
  BY DEF Ending, SweepIdle, Stop, ShutdownOne, ShutdownEnds
<1> SUFFICES Good(sys') /\ LoopsOK'
  BY <1>2, LoopStep
<1>3. CASE Stop \/ ShutdownEnds
  <2>1. Goto(sys, "shutdown") \/ Goto(sys, "stopped")
    BY <1>3 DEF Stop, ShutdownEnds
  <2> QED  BY <1>1, <2>1, GotoGood DEF Loops, Inner
<1>4. CASE SweepIdle \/ ShutdownOne
  <2>1. PICK c \in Conn : \/ Goto(CloseConn(sys, c), "loop")
                          \/ Goto(CloseConn(sys, c), "shutdown")
    BY <1>4 DEF SweepIdle, ShutdownOne
  <2>2. Good(CloseConn(sys, c))
    BY <1>1, CloseConnCloses DEF Closes
  <2> QED  BY <1>1, <2>1, <2>2, GotoGood DEF Loops, Inner
<1> QED  BY <1>3, <1>4 DEF Ending

----------------------------------------------------------------------------
(* The steps of the kernel and the far ends.                               *)

(* They change sys in what a socket holds, and no more.                    *)
SocketStep ==
    /\ Running /\ Good(sys') /\ Same(sys, sys') /\ sys'.panic = sys.panic
    /\ UNCHANGED control

LEMMA SocketKeeps ==
    ASSUME IInv, SocketStep, EnvOK'
    PROVE  IInv'
BY DEF IInv, SocketStep, Same, LoopsOK, control

LEMMA ArmGood ==
    ASSUME NEW s, NEW t, NEW c \in Conn, Good(s), t \in Sys, t.ring = s.ring,
           Same(s, t), t.panic = s.panic
    PROVE  /\ Good(Arm(t, c)) /\ Same(s, Arm(t, c))
           /\ Arm(t, c).panic = s.panic
<1>1. Good(t)
  BY FieldGood
<1>2. /\ Arm(t, c) \in Sys /\ Same(t, Arm(t, c)) /\ Arm(t, c).ring = t.ring
      /\ Arm(t, c).panic = t.panic
  BY ArmKeeps
<1> HIDE DEF Arm
<1>3. Good(Arm(t, c))
  BY <1>1, <1>2, FieldGood
<1> QED  BY <1>2, <1>3 DEF Same

LEMMA CellsType ==
    ASSUME NEW f \in Frame
    PROVE  Cells(f) \in Seq(Cell) /\ Len(Cells(f)) = f.len + 1
<1>1. f.len \in Nat
  BY DEF Frame
<1>2. Cells(f) \in [1 .. f.len + 1 -> Cell]
  BY <1>1 DEF Cells, Cell
<1> QED  BY <1>1, <1>2, SeqDef, LenProperties

LEMMA ArriveGood ==
    ASSUME NEW s, NEW c \in Conn, NEW f \in Frame, NEW k \in 1 .. f.len + 1,
           Good(s)
    PROVE  /\ Good(Arrive(s, c, f, k)) /\ Same(s, Arrive(s, c, f, k))
           /\ Arrive(s, c, f, k).panic = s.panic
<1> DEFINE cells == Cells(f)
           in == s.inbox[c] \o SubSeq(cells, 1, k)
           w  == SubSeq(cells, k + 1, Len(cells))
           t  == [s EXCEPT !.inbox[c] = in, !.wire[c] = w]
<1>0. s \in Sys /\ f.len \in Nat
  BY GoodSys DEF Frame
<1>1. s \in Sys /\ f.len \in Nat /\ s.inbox[c] \in Seq(Cell)
  BY <1>0 DEF Sys
<1>2. cells \in Seq(Cell) /\ Len(cells) = f.len + 1
  BY CellsType
<1> HIDE DEF cells
<1>3. SubSeq(cells, 1, k) \in Seq(Cell)
  BY <1>1, <1>2, SubSeqProperties
<1>4. in \in Seq(Cell) /\ w \in Seq(Cell)
  BY <1>1, <1>2, <1>3, DropPrefix, ConcatProperties
<1>5. Arrive(s, c, f, k) = Arm(t, c)
  BY DEF Arrive, cells
<1> HIDE DEF in, w
<1>6. t \in Sys
  BY <1>1, <1>4 DEF Sys
<1>7. t.ring = s.ring /\ Same(s, t) /\ t.panic = s.panic
  BY <1>1 DEF Sys, Same
<1> HIDE DEF t
<1> QED  BY <1>5, <1>6, <1>7, ArmGood

LEMMA ResetGood ==
    ASSUME NEW s, NEW c \in Conn, Good(s)
    PROVE  /\ Good(Reset(s, c)) /\ Same(s, Reset(s, c))
           /\ Reset(s, c).panic = s.panic
<1> DEFINE t == [s EXCEPT !.rx[c] = "err", !.tx[c] = "broken",
                          !.inbox[c] = <<>>, !.wire[c] = <<>>]
<1>1. s \in Sys /\ <<>> \in Seq(Cell)
  BY GoodSys, EmptySeq
<1>2. t \in Sys
  BY <1>1 DEF Sys
<1>3. t.ring = s.ring /\ Same(s, t) /\ t.panic = s.panic
  BY <1>1 DEF Sys, Same
<1>4. Reset(s, c) = Arm(t, c)
  BY DEF Reset
<1> HIDE DEF t
<1> QED  BY <1>2, <1>3, <1>4, ArmGood

LEMMA ClientStep ==
    ASSUME NEW c \in Conn, IInv,
           \/ ClientConnects \/ HealthChanges \/ ClientSends(c) \/ Slows(c)
    PROVE  IInv'
<1>1. Good(sys) /\ EnvOK /\ sys \in Sys
  BY GoodSys DEF IInv
<1>2. CASE ClientConnects \/ HealthChanges
  <2>1. SocketStep
    BY <1>1, <1>2 DEF ClientConnects, HealthChanges, SocketStep, Same
  <2>2. EnvOK'
    <3>1. CASE ClientConnects
      <4>1. /\ backlog' \in Nat /\ lArmed' \in BOOLEAN
            /\ nclients' \in 0 .. MaxClients
        BY <1>1, <3>1, ReactorAssumption DEF ClientConnects, EnvOK
      <4> QED  BY <1>1, <3>1, <4>1 DEF ClientConnects, EnvOK
    <3>2. CASE HealthChanges
      BY <1>1, <3>2 DEF HealthChanges, EnvOK
    <3> QED  BY <1>2, <3>1, <3>2
  <2> QED  BY <2>1, <2>2, SocketKeeps
<1>3. CASE ClientSends(c)
  <2>0. PICK m \in ClientKinds : \E k \in 1 .. m.len + 1 :
           sys' = Arrive(sys, c, [op |-> m.op, id |-> nreq', len |-> m.len], k)
    BY <1>3 DEF ClientSends
  <2>1. PICK k \in 1 .. m.len + 1 :
           sys' = Arrive(sys, c, [op |-> m.op, id |-> nreq', len |-> m.len], k)
    BY <2>0
  <2>2. nreq' = nreq + 1 /\ nreq' \in 0 .. MaxReq
    BY <1>1, <1>3, ReactorAssumption DEF ClientSends, EnvOK
  <2> DEFINE f == [op |-> m.op, id |-> nreq', len |-> m.len]
  <2>3. f \in Frame /\ f.len = m.len
    BY <2>2, ReactorAssumption DEF Frame
  <2> HIDE DEF f
  <2>4. Good(sys') /\ Same(sys, sys') /\ sys'.panic = sys.panic
    BY <1>1, <2>1, <2>3, ArriveGood DEF f
  <2>5. SocketStep
    BY <1>3, <2>4 DEF ClientSends, Sends, Open, SocketStep
  <2>6. EnvOK'
    BY <1>1, <1>3, <2>2 DEF ClientSends, EnvOK
  <2> QED  BY <2>5, <2>6, SocketKeeps
<1>4. CASE Slows(c)
  <2>1. PICK r \in {"tight", "full"} : sys' = [sys EXCEPT !.tx[c] = r]
    BY <1>4 DEF Slows
  <2> DEFINE t == [sys EXCEPT !.tx[c] = r]
  <2>2. t \in Sys
    BY <1>1 DEF Sys
  <2>3. t.ring = sys.ring /\ Same(sys, t) /\ t.panic = sys.panic
    BY <1>1 DEF Sys, Same
  <2>4. sys' = t
    BY <2>1
  <2> HIDE DEF t
  <2>5. SocketStep
    BY <1>1, <1>4, <2>2, <2>3, <2>4, FieldGood DEF Slows, Open, SocketStep
  <2>6. EnvOK'
    BY <1>1, <1>4, ReactorAssumption DEF Slows, EnvOK
  <2> QED  BY <2>5, <2>6, SocketKeeps
<1> QED  BY <1>2, <1>3, <1>4

LEMMA FarStep ==
    ASSUME NEW c \in Conn, IInv,
           \/ UpstreamAnswers(c) \/ RestArrives(c) \/ PeerCloses(c)
           \/ PeerResets(c) \/ ConnectCompletes(c) \/ Drains(c)
    PROVE  IInv'
<1>1. Good(sys) /\ EnvOK /\ sys \in Sys /\ <<>> \in Seq(Cell)
  BY GoodSys, EmptySeq DEF IInv
<1>2. UNCHANGED <<control, env>> /\ Running
  BY DEF UpstreamAnswers, RestArrives, PeerCloses, PeerResets,
         ConnectCompletes, Drains, Sends, Open
<1> SUFFICES Good(sys') /\ Same(sys, sys') /\ sys'.panic = sys.panic
  BY <1>1, <1>2, EnvKept, SocketKeeps DEF SocketStep
<1>3. CASE UpstreamAnswers(c)
  <2>0. PICK m \in UpKinds : \E k \in 1 .. m.len + 1 :
           sys' = [Arrive(sys, c, [op |-> m.op, id |-> Head(sys.got[c]).id,
                                   len |-> m.len], k) EXCEPT !.got[c] = Tail(@)]
    BY <1>3 DEF UpstreamAnswers
  <2>1. PICK k \in 1 .. m.len + 1 :
           sys' = [Arrive(sys, c, [op |-> m.op, id |-> Head(sys.got[c]).id,
                                   len |-> m.len], k) EXCEPT !.got[c] = Tail(@)]
    BY <2>0
  <2> DEFINE f == [op |-> m.op, id |-> Head(sys.got[c]).id, len |-> m.len]
             t == Arrive(sys, c, f, k)
             g == Tail(t.got[c])
  <2>2. sys.got[c] \in Seq(Frame) /\ sys.got[c] # <<>>
    BY <1>1, <1>3 DEF UpstreamAnswers, Sys
  <2>3. Head(sys.got[c]) \in Frame
    BY <2>2, HeadTailProperties
  <2>4. f \in Frame /\ f.len = m.len
    BY <2>3, ReactorAssumption DEF Frame
  <2>5. sys' = [t EXCEPT !.got[c] = g]
    BY <2>1
  <2>6. t.got = sys.got
    BY <1>1 DEF Arrive, Arm, Sys
  <2> HIDE DEF f
  <2>7. Good(t) /\ Same(sys, t) /\ t.panic = sys.panic
    BY <1>1, <2>4, ArriveGood
  <2>8. g \in Seq(Frame)
    BY <2>2, <2>6, HeadTailProperties
  <2> HIDE DEF t, g
  <2> DEFINE u == [t EXCEPT !.got[c] = g]
  <2>a. t \in Sys
    BY <2>7, GoodSys
  <2>9. u \in Sys
    BY <2>8, <2>a DEF Sys
  <2>10. Same(t, u) /\ u.ring = t.ring /\ u.panic = t.panic
    BY <2>a DEF Sys, Same
  <2>11. sys' = u
    BY <2>5
  <2> HIDE DEF u
  <2> QED  BY <2>7, <2>9, <2>10, <2>11, FieldGood DEF Same
<1>4. CASE RestArrives(c)
  <2> DEFINE in == sys.inbox[c] \o sys.wire[c]
             t  == [sys EXCEPT !.inbox[c] = in, !.wire[c] = <<>>]
  <2>1. in \in Seq(Cell)
    BY <1>1, ConcatProperties DEF Sys
  <2>2. sys' = Arm(t, c)
    BY <1>4 DEF RestArrives
  <2> HIDE DEF in
  <2>3. t \in Sys
    BY <1>1, <2>1 DEF Sys
  <2>4. t.ring = sys.ring /\ Same(sys, t) /\ t.panic = sys.panic
    BY <1>1 DEF Sys, Same
  <2> HIDE DEF t
  <2> QED  BY <1>1, <2>2, <2>3, <2>4, ArmGood
<1>5. CASE PeerCloses(c)
  <2> DEFINE t == [sys EXCEPT !.rx[c] = "eof", !.wire[c] = <<>>]
  <2>1. t \in Sys
    BY <1>1 DEF Sys
  <2>2. t.ring = sys.ring /\ Same(sys, t) /\ t.panic = sys.panic
    BY <1>1 DEF Sys, Same
  <2>3. sys' = Arm(t, c)
    BY <1>5 DEF PeerCloses
  <2> HIDE DEF t
  <2> QED  BY <1>1, <2>1, <2>2, <2>3, ArmGood
<1>6. CASE sys' = Reset(sys, c)
  BY <1>1, <1>6, ResetGood
<1>7. CASE sys' = Arm([sys EXCEPT !.tx[c] = "open"], c)
  <2> DEFINE t == [sys EXCEPT !.tx[c] = "open"]
  <2>1. t \in Sys
    BY <1>1 DEF Sys
  <2>2. t.ring = sys.ring /\ Same(sys, t) /\ t.panic = sys.panic
    BY <1>1 DEF Sys, Same
  <2>3. sys' = Arm(t, c)
    BY <1>7
  <2> HIDE DEF t
  <2> QED  BY <1>1, <2>1, <2>2, <2>3, ArmGood
<1> QED
  BY <1>3, <1>4, <1>5, <1>6, <1>7 DEF PeerResets, ConnectCompletes, Drains

----------------------------------------------------------------------------
(* The theorems.                                                           *)

LEMMA InitIInv == Init => IInv
<1> SUFFICES ASSUME Init PROVE IInv
  OBVIOUS
<1>1. sys \in Sys
  <2>1. NoFrame \in Frame /\ <<>> \in Seq(Cell) /\ <<>> \in Seq(Frame)
    BY MadeFrames, EmptySeq
  <2>2. (CHOOSE f \in FD : TRUE) \in FD
    BY ReactorAssumption
  <2> QED  BY <2>1, <2>2 DEF Init, Sys, Roles
<1>2. Good(sys)
  <2>1. Bounded(sys)
    <3>1. Len(<<>>) < Cap
      BY ReactorAssumption
    <3> QED  BY <3>1 DEF Init, Bounded
  <2>2. TableOwned(sys) /\ RingsLive(sys) /\ Blank(sys) /\ Paired(sys)
    BY ReactorAssumption
       DEF Init, TableOwned, RingsLive, Live, Sock, Blank, Paired
  <2> QED  BY <1>1, <2>1, <2>2 DEF Good, Sound
<1>3. LoopsOK
  BY DEF Init, LoopsOK
<1>4. batch \in Seq(Events)
  BY EmptySeq DEF Init
<1>5. EnvOK
  <2>1. lArmed \in BOOLEAN
    BY DEF Init
  <2>2. asker \in [1 .. MaxReq -> Conn \cup {Nil}]
    BY DEF Init
  <2>3. eligible \subseteq EP
    BY DEF Init
  <2>4. /\ backlog \in Nat /\ nreq \in 0 .. MaxReq
        /\ nclients \in 0 .. MaxClients /\ nslow \in 0 .. MaxSlow
    BY ReactorAssumption DEF Init
  <2> QED  BY <2>1, <2>2, <2>3, <2>4 DEF EnvOK
<1> QED  BY <1>2, <1>3, <1>4, <1>5 DEF IInv

LEMMA NextIInv == IInv /\ [Next]_vars => IInv'
<1> SUFFICES ASSUME IInv, [Next]_vars PROVE IInv'
  OBVIOUS
<1>1. CASE Run
  BY <1>1, WaitStep, HandleStep, AcceptStep, ReadStep, ParseStep, DispatchStep,
     EndingStep DEF Run, Work, Read, Parse, Ending
<1>2. CASE Environment
  BY <1>2, ClientStep, FarStep, ReactorAssumption DEF Environment
<1>3. CASE UNCHANGED vars
  BY <1>3 DEF vars, IInv, LoopsOK, EnvOK
<1> QED  BY <1>1, <1>2, <1>3 DEF Next

LEMMA Invariance == Spec => []IInv
BY InitIInv, NextIInv, PTL DEF Spec

(* Every variable keeps its type and every ring a free cell, whatever the  *)
(* clients, the upstreams and the kernel do.                               *)
THEOREM TypesHold == Spec => []TypeOK
<1>1. IInv => TypeOK
  BY DEF IInv, Good, Sound, Bounded, Used, LoopsOK, EnvOK, Events, TypeOK
<1> QED  BY <1>1, Invariance, PTL

(* A connection owns its ring exactly while the table maps its descriptor  *)
(* to it: closeConn, adopt and the failures of a dial never leave one      *)
(* without the other, also when the descriptor is reused.                  *)
THEOREM TableAndRingsAgree == Spec => []TableMatchesRings
<1>1. IInv => TableMatchesRings
  BY DEF IInv, Good, Sound, RingsLive, TableMatchesRings
<1> QED  BY <1>1, Invariance, PTL

(* Peers point at each other and are a client and its upstream, through    *)
(* every close, failed connect, reselection and resumed read.              *)
THEOREM PeersStayPaired == Spec => []PeersPaired
<1>1. IInv => PeersPaired
  BY DEF IInv, Good, Paired, IsUp, Up, PeersPaired
<1> QED  BY <1>1, Invariance, PTL

----------------------------------------------------------------------------
(* Streams of cells.                                                       *)

(* Every cell knows where its frame begins and which cells belong to it.   *)
(* Unlike Framed this says it of the whole frame at once, so that the      *)
(* frame's first cell can be taken without an induction over the stream.   *)
Framing(q) ==
    \A i \in 1 .. Len(q) :
        /\ q[i][2] <= q[i][1].len /\ q[i][2] < i
        /\ \A m \in 0 .. q[i][1].len :
              i - q[i][2] + m <= Len(q) => q[i - q[i][2] + m] = <<q[i][1], m>>
        /\ q[i][2] = q[i][1].len /\ i < Len(q) => q[i + 1][2] = 0

(* The last frame is complete.                                             *)
EndsWhole(q) == q # <<>> => q[Len(q)][2] = q[Len(q)][1].len

LEMMA CellParts ==
    ASSUME NEW q \in Seq(Cell), NEW i \in 1 .. Len(q)
    PROVE  /\ q[i] = <<q[i][1], q[i][2]>>
           /\ q[i][1] \in Frame /\ q[i][1].len \in Nat /\ q[i][2] \in Nat
<1>1. q[i] \in Frame \X Nat
  BY ElementOfSeq DEF Cell
<1> QED  BY <1>1 DEF Frame

LEMMA FramingFramed ==
    ASSUME NEW q \in Seq(Cell), Framing(q)
    PROVE  Framed(q) /\ (q # <<>> => q[1][2] = 0)
<1>0. Len(q) \in Nat
  BY LenProperties
<1>1. ASSUME q # <<>> PROVE q[1][2] = 0
  <2>1. 1 \in 1 .. Len(q)
    BY <1>0, <1>1, EmptySeq
  <2> QED  BY <2>1, CellParts DEF Framing
<1>2. ASSUME NEW i \in 1 .. Len(q), q[i][2] = 0, i # 1
      PROVE  q[i - 1][2] = q[i - 1][1].len
  <2> DEFINE f == q[i - 1][1]
             k == q[i - 1][2]
  <2>1. i - 1 \in 1 .. Len(q)
    BY <1>0, <1>2
  <2>2. f.len \in Nat /\ k \in Nat /\ k <= f.len /\ k < i - 1
    BY <2>1, CellParts DEF Framing
  <2>3. CASE k < f.len
    <3>1. k + 1 \in 0 .. f.len /\ i - 1 - k + (k + 1) = i
      BY <1>0, <2>2, <2>3
    <3>2. q[i] = <<f, k + 1>>
      BY <1>0, <2>1, <3>1 DEF Framing
    <3> QED  BY <1>2, <2>2, <3>2
  <2> QED  BY <2>2, <2>3
<1>3. ASSUME NEW i \in 1 .. Len(q), q[i][2] # 0
      PROVE  i > 1 /\ q[i - 1] = <<q[i][1], q[i][2] - 1>>
  <2> DEFINE f == q[i][1]
             k == q[i][2]
  <2>1. f.len \in Nat /\ k \in Nat /\ k <= f.len /\ k < i
    BY CellParts DEF Framing
  <2>2. k - 1 \in 0 .. f.len /\ i - k + (k - 1) = i - 1 /\ i - 1 <= Len(q)
    BY <1>0, <1>3, <2>1
  <2>3. q[i - k + (k - 1)] = <<f, k - 1>>
    BY <2>2 DEF Framing
  <2> QED  BY <1>3, <2>1, <2>2, <2>3
<1> QED  BY <1>1, <1>2, <1>3 DEF Framed

(* A stream cut short is still framed.                                     *)
LEMMA FramingPrefix ==
    ASSUME NEW p \in Seq(Cell), NEW q \in Seq(Cell), Framing(p \o q)
    PROVE  Framing(p)
<1> DEFINE r == p \o q
<1>1. /\ Len(p) \in Nat /\ Len(q) \in Nat /\ Len(r) = Len(p) + Len(q)
      /\ \A i \in 1 .. Len(p) : r[i] = p[i]
  BY LenProperties, ConcatProperties
<1> HIDE DEF r
<1> SUFFICES ASSUME NEW i \in 1 .. Len(p)
             PROVE  /\ p[i][2] <= p[i][1].len /\ p[i][2] < i
                    /\ \A m \in 0 .. p[i][1].len :
                          i - p[i][2] + m <= Len(p) =>
                              p[i - p[i][2] + m] = <<p[i][1], m>>
                    /\ p[i][2] = p[i][1].len /\ i < Len(p) => p[i + 1][2] = 0
  BY DEF Framing
<1>2. i \in 1 .. Len(r) /\ r[i] = p[i]
  BY <1>1
<1>3. Framing(r)
  BY DEF r
<1>4. /\ p[i][2] <= p[i][1].len /\ p[i][2] < i
      /\ \A m \in 0 .. p[i][1].len : i - p[i][2] + m <= Len(r) =>
            r[i - p[i][2] + m] = <<p[i][1], m>>
      /\ p[i][2] = p[i][1].len /\ i < Len(r) => r[i + 1][2] = 0
  BY <1>2, <1>3 DEF Framing
<1>5. p[i][2] \in Nat /\ p[i][1].len \in Nat
  BY CellParts
<1>6. ASSUME NEW m \in 0 .. p[i][1].len, i - p[i][2] + m <= Len(p)
      PROVE  p[i - p[i][2] + m] = <<p[i][1], m>>
  <2>1. i - p[i][2] + m \in 1 .. Len(p) /\ i - p[i][2] + m <= Len(r)
    BY <1>1, <1>4, <1>5, <1>6
  <2> QED  BY <1>1, <1>4, <2>1
<1>7. ASSUME p[i][2] = p[i][1].len, i < Len(p) PROVE p[i + 1][2] = 0
  BY <1>1, <1>4, <1>7
<1> QED  BY <1>4, <1>6, <1>7

(* Taking the first frame off, and putting another one at the end.         *)
LEMMA FramingDrop ==
    ASSUME NEW q \in Seq(Cell), NEW n \in Nat, Framing(q), q # <<>>,
           q[1][1].len = n, Len(q) >= n + 1
    PROVE  LET r == SubSeq(q, n + 2, Len(q))
           IN  r \in Seq(Cell) /\ Framing(r) /\ (EndsWhole(q) => EndsWhole(r))
<1> DEFINE r == SubSeq(q, n + 2, Len(q))
<1>1. Len(q) \in Nat /\ 1 \in 1 .. Len(q)
  BY LenProperties, EmptySeq
<1>2. /\ r \in Seq(Cell) /\ Len(r) = Len(q) - n - 1
      /\ \A i \in 1 .. Len(r) : r[i] = q[i + n + 1]
  <2>1. \A i \in n + 2 .. Len(q) : q[i] \in Cell
    BY <1>1, ElementOfSeq
  <2>2. /\ r \in Seq(Cell)
        /\ Len(r) = IF n + 2 <= Len(q) THEN Len(q) - (n + 2) + 1 ELSE 0
        /\ \A i \in 1 .. Len(q) - (n + 2) + 1 : r[i] = q[(n + 2) + i - 1]
    BY <1>1, <2>1, SubSeqProperties
  <2>3. Len(r) = Len(q) - n - 1
    BY <1>1, <2>2
  <2>4. \A i \in 1 .. Len(r) : (n + 2) + i - 1 = i + n + 1
    BY <1>1, <2>3
  <2> QED  BY <1>1, <2>2, <2>3, <2>4
<1> HIDE DEF r
<1>3. \A h \in 1 .. n + 1 : q[h] = <<q[1][1], h - 1>>
  <2> SUFFICES ASSUME NEW h \in 1 .. n + 1 PROVE q[h] = <<q[1][1], h - 1>>
    OBVIOUS
  <2>1. q[1][2] = 0
    BY <1>1, CellParts DEF Framing
  <2>2. h - 1 \in 0 .. n /\ 1 - 0 + (h - 1) = h /\ h <= Len(q)
    BY <1>1
  <2>3. 1 \in 1 .. Len(q)
    BY <1>1
  <2>4. \A m \in 0 .. q[1][1].len :
           1 - q[1][2] + m <= Len(q) => q[1 - q[1][2] + m] = <<q[1][1], m>>
    BY <2>3 DEF Framing
  <2>5. 1 - 0 + (h - 1) <= Len(q) => q[1 - 0 + (h - 1)] = <<q[1][1], h - 1>>
    BY <2>1, <2>2, <2>4
  <2> QED  BY <2>2, <2>5
<1>4. ASSUME NEW i \in 1 .. Len(r)
      PROVE  /\ r[i][2] <= r[i][1].len /\ r[i][2] < i
             /\ \A m \in 0 .. r[i][1].len :
                   i - r[i][2] + m <= Len(r) => r[i - r[i][2] + m] = <<r[i][1], m>>
             /\ r[i][2] = r[i][1].len /\ i < Len(r) => r[i + 1][2] = 0
  <2> DEFINE j == i + n + 1
             f == q[j][1]
             k == q[j][2]
  <2>1. j \in 1 .. Len(q) /\ r[i] = q[j] /\ j = i + n + 1
    BY <1>1, <1>2
  <2>2. f.len \in Nat /\ k \in Nat /\ k <= f.len /\ k < j
    BY <2>1, CellParts DEF Framing
  <2>3. \A m \in 0 .. f.len : j - k + m <= Len(q) => q[j - k + m] = <<f, m>>
    BY <2>1 DEF Framing
  <2>4. k = f.len /\ j < Len(q) => q[j + 1][2] = 0
    BY <2>1 DEF Framing
  <2> HIDE DEF j, f, k
  <2>5. k < i
    <3> SUFFICES ASSUME k >= i PROVE FALSE
      BY <2>1, <2>2
    <3>1. j - k \in 1 .. n + 1 /\ j - k + 0 = j - k /\ j - k <= Len(q)
      BY <1>1, <2>1, <2>2
    <3>2. q[j - k] = <<f, 0>>
      BY <2>2, <2>3, <3>1
    <3>3. q[j - k] = <<q[1][1], j - k - 1>>
      BY <1>3, <3>1
    <3>4. j - k = 1 /\ f = q[1][1]
      BY <2>1, <2>2, <3>2, <3>3
    <3> QED  BY <2>1, <2>2, <3>4
  <2>6. ASSUME NEW m \in 0 .. f.len, i - k + m <= Len(r)
        PROVE  r[i - k + m] = <<f, m>>
    <3>1. /\ i - k + m \in 1 .. Len(r)
          /\ i - k + m + n + 1 = j - k + m /\ j - k + m <= Len(q)
      BY <1>1, <1>2, <2>1, <2>2, <2>5, <2>6
    <3> QED  BY <1>2, <2>3, <3>1
  <2>7. ASSUME k = f.len, i < Len(r) PROVE r[i + 1][2] = 0
    <3>1. i + 1 \in 1 .. Len(r) /\ i + 1 + n + 1 = j + 1 /\ j < Len(q)
      BY <1>1, <1>2, <2>1, <2>7
    <3> QED  BY <1>2, <2>4, <2>7, <3>1
  <2> QED  BY <2>1, <2>2, <2>5, <2>6, <2>7 DEF f, k
<1>5. ASSUME EndsWhole(q) PROVE EndsWhole(r)
  <2> SUFFICES ASSUME r # <<>> PROVE r[Len(r)][2] = r[Len(r)][1].len
    BY DEF EndsWhole
  <2>1. Len(r) \in 1 .. Len(r) /\ Len(r) + n + 1 = Len(q)
    BY <1>1, <1>2, EmptySeq
  <2> QED  BY <1>2, <1>5, <2>1 DEF EndsWhole
<1> QED  BY <1>2, <1>4, <1>5 DEF Framing, r

LEMMA FramingAppend ==
    ASSUME NEW q \in Seq(Cell), NEW g \in Frame, Framing(q), EndsWhole(q)
    PROVE  Framing(q \o Cells(g)) /\ EndsWhole(q \o Cells(g))
<1> DEFINE c == Cells(g)
           r == q \o c
           L == Len(q)
<1>1. L \in Nat /\ g.len \in Nat
  BY LenProperties DEF Frame
<1>2. /\ r \in Seq(Cell) /\ Len(r) = L + g.len + 1
      /\ \A i \in 1 .. L : r[i] = q[i]
      /\ \A m \in 0 .. g.len : r[L + 1 + m] = <<g, m>>
  <2>1. /\ c \in Seq(Cell) /\ Len(c) = g.len + 1
        /\ \A i \in 1 .. g.len + 1 : c[i] = <<g, i - 1>>
    BY CellsType DEF Cells
  <2> HIDE DEF c
  <2>2. /\ r \in Seq(Cell) /\ Len(r) = Len(q) + Len(c)
        /\ \A i \in 1 .. Len(q) + Len(c) :
              r[i] = IF i <= Len(q) THEN q[i] ELSE c[i - Len(q)]
    BY <2>1, ConcatProperties
  <2> HIDE DEF r
  <2>3. ASSUME NEW i \in 1 .. L PROVE r[i] = q[i]
    <3>1. i \in 1 .. Len(q) + Len(c) /\ i <= Len(q)
      BY <1>1, <2>1
    <3> QED  BY <2>2, <3>1
  <2>4. ASSUME NEW m \in 0 .. g.len PROVE r[L + 1 + m] = <<g, m>>
    <3> DEFINE i == L + 1 + m
               j == m + 1
    <3>1. /\ i \in 1 .. Len(q) + Len(c) /\ ~(i <= Len(q))
          /\ i - Len(q) = j /\ j \in 1 .. g.len + 1 /\ j - 1 = m
      BY <1>1, <2>1
    <3> HIDE DEF i, j
    <3>2. r[i] = c[j]
      BY <2>2, <3>1
    <3>3. c[j] = <<g, m>>
      BY <2>1, <3>1
    <3> QED  BY <3>2, <3>3 DEF i
  <2> QED  BY <1>1, <2>1, <2>2, <2>3, <2>4
<1> HIDE DEF c, r, L
<1>l. Len(r) = L + g.len + 1
  BY <1>2
<1>3. ASSUME NEW i \in 1 .. L
      PROVE  /\ r[i][2] <= r[i][1].len /\ r[i][2] < i
             /\ \A m \in 0 .. r[i][1].len :
                   i - r[i][2] + m <= Len(r) => r[i - r[i][2] + m] = <<r[i][1], m>>
             /\ r[i][2] = r[i][1].len /\ i < Len(r) => r[i + 1][2] = 0
  <2> DEFINE f == q[i][1]
             k == q[i][2]
  <2>1. /\ r[i] = q[i] /\ f.len \in Nat /\ k \in Nat /\ k <= f.len /\ k < i
    BY <1>2, CellParts DEF Framing, L
  <2>2. \A m \in 0 .. f.len : i - k + m <= L => q[i - k + m] = <<f, m>>
    BY DEF Framing, L
  <2>3. k = f.len /\ i < L => q[i + 1][2] = 0
    BY DEF Framing, L
  <2> HIDE DEF f, k
  <2>4. ASSUME NEW m \in 0 .. f.len, i - k + m <= Len(r)
        PROVE  r[i - k + m] = <<f, m>>
    <3>1. CASE i - k + m <= L
      <4>1. i - k + m \in 1 .. L
        BY <1>1, <2>1, <3>1
      <4> QED  BY <1>2, <2>2, <3>1, <4>1
    <3>2. CASE i - k + m > L
      <4> DEFINE d == L - (i - k)
      <4>a. i \in Int /\ k \in Int /\ L \in Int /\ f.len \in Int /\ m \in Int
        BY <1>1, <2>1
      <4>b. i - k + m > L /\ m <= f.len /\ i <= L /\ 0 <= k
        BY <1>1, <2>1, <3>2
      <4>1. /\ d \in 0 .. f.len /\ i - k + d = L /\ d < f.len /\ L <= L
        <5>1. d \in Int /\ i - k + d = L /\ L <= L
          BY <4>a
        <5>2. 0 <= d /\ d < f.len
          BY <4>a, <4>b
        <5> QED  BY <4>a, <5>1, <5>2
      <4> HIDE DEF d
      <4>2. q[L] = <<f, d>>
        BY <2>2, <4>1
      <4>3. q # <<>>
        BY <1>1, EmptySeq DEF L
      <4>4. d = f.len
        BY <4>2, <4>3 DEF EndsWhole, L
      <4> QED  BY <4>1, <4>4
    <3> QED  BY <1>1, <2>1, <3>1, <3>2
  <2>5. ASSUME k = f.len, i < Len(r) PROVE r[i + 1][2] = 0
    <3>1. CASE i < L
      BY <1>1, <1>2, <2>3, <2>5, <3>1
    <3>2. CASE i = L
      <4>1. 0 \in 0 .. g.len /\ i + 1 = L + 1 + 0
        BY <1>1, <3>2
      <4>2. r[L + 1 + 0] = <<g, 0>>
        BY <1>2, <4>1
      <4> QED  BY <4>1, <4>2
    <3> QED  BY <1>1, <3>1, <3>2
  <2> QED  BY <2>1, <2>4, <2>5 DEF f, k
<1>4. ASSUME NEW i \in L + 1 .. L + g.len + 1
      PROVE  /\ r[i][2] <= r[i][1].len /\ r[i][2] < i
             /\ \A m \in 0 .. r[i][1].len :
                   i - r[i][2] + m <= Len(r) => r[i - r[i][2] + m] = <<r[i][1], m>>
             /\ r[i][2] = r[i][1].len /\ i < Len(r) => r[i + 1][2] = 0
  <2> DEFINE k == i - L - 1
  <2>1. k \in 0 .. g.len /\ i = L + 1 + k /\ i - k = L + 1
    BY <1>1
  <2> HIDE DEF k
  <2>2. r[i] = <<g, k>>
    BY <1>2, <2>1
  <2> QED  BY <1>1, <1>2, <2>1, <2>2
<1>5. Framing(r)
  <2>1. \A i \in 1 .. Len(r) : i \in 1 .. L \/ i \in L + 1 .. L + g.len + 1
    BY <1>1, <1>2
  <2> QED  BY <1>3, <1>4, <2>1 DEF Framing
<1>6. EndsWhole(r)
  <2>1. g.len \in 0 .. g.len /\ Len(r) = L + 1 + g.len
    BY <1>1, <1>l
  <2>2. r[Len(r)] = <<g, g.len>>
    BY <1>2, <2>1
  <2> QED  BY <2>2 DEF EndsWhole
<1> QED  BY <1>5, <1>6 DEF r, c

(* A sequence without its first n elements.                                *)
LEMMA DropSeq ==
    ASSUME NEW S, NEW a \in Seq(S), NEW n \in Nat, n <= Len(a),
           NEW p, p = SubSeq(a, n + 1, Len(a))
    PROVE  /\ p \in Seq(S) /\ Len(p) = Len(a) - n
           /\ \A i \in 1 .. Len(a) - n : p[i] = a[n + i]
<1>1. Len(a) \in Nat
  BY LenProperties
<1> DEFINE m == n + 1
           l == Len(a)
<1>2. m \in Int /\ l \in Int /\ m = n + 1 /\ l = Len(a) /\ p = SubSeq(a, m, l)
  BY <1>1
<1>3. \A i \in m .. l : a[i] \in S
  BY <1>1, ElementOfSeq
<1> HIDE DEF m, l
<1>4. SubSeq(a, m, l) \in Seq(S)
  BY <1>2, <1>3, SubSeqProperties
<1>5. Len(SubSeq(a, m, l)) = IF m <= l THEN l - m + 1 ELSE 0
  BY <1>2, <1>3, SubSeqProperties
<1>6. \A i \in 1 .. l - m + 1 : SubSeq(a, m, l)[i] = a[m + i - 1]
  BY <1>2, <1>3, SubSeqProperties
<1>7. Len(p) = Len(a) - n
  BY <1>1, <1>2, <1>5
<1>8. ASSUME NEW i \in 1 .. Len(a) - n PROVE p[i] = a[n + i]
  <2> DEFINE j == m + i - 1
  <2>1. i \in 1 .. l - m + 1 /\ j = n + i
    BY <1>1, <1>2
  <2>2. p[i] = a[j]
    BY <1>2, <1>6, <2>1
  <2> HIDE DEF j
  <2> QED  BY <2>1, <2>2
<1> QED  BY <1>2, <1>4, <1>7, <1>8

(* The same of two pieces: of the first, or of one element and the second. *)
LEMMA DropConcat ==
    ASSUME NEW S, NEW a \in Seq(S), NEW b \in Seq(S), NEW n \in Nat, n <= Len(a)
    PROVE  SubSeq(a \o b, n + 1, Len(a \o b)) = SubSeq(a, n + 1, Len(a)) \o b
<1> DEFINE q == a \o b
           p == SubSeq(a, n + 1, Len(a))
           l == SubSeq(q, n + 1, Len(q))
           r == p \o b
<1>1. Len(a) \in Nat /\ Len(b) \in Nat
  BY LenProperties
<1>2. /\ q \in Seq(S) /\ Len(q) = Len(a) + Len(b)
      /\ \A i \in 1 .. Len(a) + Len(b) :
            q[i] = IF i <= Len(a) THEN a[i] ELSE b[i - Len(a)]
  BY ConcatProperties
<1> HIDE DEF q
<1>3. /\ p \in Seq(S) /\ Len(p) = Len(a) - n
      /\ \A i \in 1 .. Len(a) - n : p[i] = a[n + i]
  BY DropSeq
<1> HIDE DEF p
<1>4. /\ l \in Seq(S) /\ Len(l) = Len(q) - n
      /\ \A i \in 1 .. Len(q) - n : l[i] = q[n + i]
  <2>1. q \in Seq(S) /\ n <= Len(q)
    BY <1>1, <1>2
  <2> HIDE DEF r
  <2> QED  BY <2>1, DropSeq
<1> HIDE DEF l
<1>5. /\ r \in Seq(S) /\ Len(r) = Len(p) + Len(b)
      /\ \A i \in 1 .. Len(p) + Len(b) :
            r[i] = IF i <= Len(p) THEN p[i] ELSE b[i - Len(p)]
  BY <1>3, ConcatProperties
<1> HIDE DEF r
<1>6. Len(l) = Len(r)
  BY <1>1, <1>2, <1>3, <1>4, <1>5
<1>7. ASSUME NEW i \in 1 .. Len(l) PROVE l[i] = r[i]
  <2> DEFINE j == n + i
  <2>1. /\ i \in 1 .. Len(q) - n /\ j \in 1 .. Len(a) + Len(b)
        /\ i \in 1 .. Len(p) + Len(b) /\ j = n + i
    BY <1>1, <1>2, <1>3, <1>4
  <2> HIDE DEF j
  <2>2. l[i] = IF j <= Len(a) THEN a[j] ELSE b[j - Len(a)]
    BY <1>2, <1>4, <2>1
  <2>4. r[i] = IF i <= Len(p) THEN p[i] ELSE b[i - Len(p)]
    BY <1>5, <2>1
  <2>5. CASE j <= Len(a)
    <3>1. i <= Len(p) /\ i \in 1 .. Len(a) - n
      BY <1>1, <1>3, <2>1, <2>5
    <3> QED  BY <1>3, <2>1, <2>2, <2>4, <2>5, <3>1
  <2>6. CASE ~(j <= Len(a))
    <3>1. ~(i <= Len(p)) /\ i - Len(p) = j - Len(a)
      BY <1>1, <1>3, <2>1, <2>6
    <3> QED  BY <2>2, <2>4, <2>6, <3>1
  <2> QED  BY <2>5, <2>6
<1> QED  BY <1>4, <1>5, <1>6, <1>7, SeqEqual DEF l, r, p, q

LEMMA DropHead ==
    ASSUME NEW S, NEW x \in S, NEW a \in Seq(S), NEW n \in Nat, n <= Len(a)
    PROVE  LET q == <<x>> \o a
           IN  /\ q \in Seq(S) /\ Len(q) = 1 + Len(a) /\ q[1] = x
               /\ SubSeq(q, n + 2, Len(q)) = SubSeq(a, n + 1, Len(a))
<1> DEFINE h == <<x>>
           q == h \o a
           m == n + 1
           l == SubSeq(q, m + 1, Len(q))
           r == SubSeq(a, n + 1, Len(a))
<1>1. Len(a) \in Nat
  BY LenProperties
<1>2. h \in Seq(S) /\ Len(h) = 1 /\ h[1] = x
  OBVIOUS
<1> HIDE DEF h
<1>3. /\ q \in Seq(S) /\ Len(q) = Len(h) + Len(a)
      /\ \A i \in 1 .. Len(h) + Len(a) :
            q[i] = IF i <= Len(h) THEN h[i] ELSE a[i - Len(h)]
  BY <1>2, ConcatProperties
<1> HIDE DEF q
<1>4. m \in Nat /\ m = n + 1 /\ m <= Len(q) /\ n + 2 = m + 1
  BY <1>1, <1>2, <1>3
<1> HIDE DEF m
<1>5. /\ l \in Seq(S) /\ Len(l) = Len(q) - m
      /\ \A i \in 1 .. Len(q) - m : l[i] = q[m + i]
  BY <1>3, <1>4, DropSeq
<1>6. /\ r \in Seq(S) /\ Len(r) = Len(a) - n
      /\ \A i \in 1 .. Len(a) - n : r[i] = a[n + i]
  BY DropSeq
<1> HIDE DEF l, r
<1>7. Len(l) = Len(r)
  BY <1>1, <1>2, <1>3, <1>4, <1>5, <1>6
<1>8. ASSUME NEW i \in 1 .. Len(l) PROVE l[i] = r[i]
  <2> DEFINE j == m + i
  <2>1. /\ i \in 1 .. Len(q) - m /\ i \in 1 .. Len(a) - n /\ j = m + i
        /\ j \in 1 .. Len(h) + Len(a) /\ ~(j <= Len(h)) /\ j - Len(h) = n + i
    BY <1>1, <1>2, <1>3, <1>4, <1>5
  <2> HIDE DEF j
  <2> QED  BY <1>3, <1>5, <1>6, <2>1
<1>9. l = r
  BY <1>5, <1>6, <1>7, <1>8, SeqEqual
<1>10. 1 \in 1 .. Len(h) + Len(a) /\ 1 <= Len(h)
  BY <1>1, <1>2
<1>11. q[1] = x /\ Len(q) = 1 + Len(a)
  BY <1>2, <1>3, <1>10
<1> QED  BY <1>3, <1>4, <1>9, <1>11 DEF q, h, l, r

(* What is buffered of c's input, from where its parser stands.            *)
HeadOf(s, c) == IF c \in s.have THEN << <<s.hdr[c], 0>> >> ELSE <<>>
StreamOf(s, c) == HeadOf(s, c) \o s.ring[c] \o s.inbox[c] \o s.wire[c]

(* It is whole frames, but for the last one if the far end has gone.       *)
Fed(s, c) ==
    /\ Framing(StreamOf(s, c))
    /\ s.rx[c] = "open" => EndsWhole(StreamOf(s, c))

LEMMA StreamType ==
    ASSUME NEW s \in Sys, NEW c \in Conn
    PROVE  /\ HeadOf(s, c) \in Seq(Cell) /\ s.ring[c] \in Seq(Cell)
           /\ s.inbox[c] \in Seq(Cell) /\ s.wire[c] \in Seq(Cell)
           /\ HeadOf(s, c) \o s.ring[c] \in Seq(Cell)
           /\ HeadOf(s, c) \o s.ring[c] \o s.inbox[c] \in Seq(Cell)
           /\ StreamOf(s, c) \in Seq(Cell)
<1>1. /\ s.ring[c] \in Seq(Cell) /\ s.inbox[c] \in Seq(Cell)
      /\ s.wire[c] \in Seq(Cell) /\ s.hdr[c] \in Frame
  BY DEF Sys
<1>2. <<s.hdr[c], 0>> \in Cell
  BY <1>1 DEF Cell
<1>3. HeadOf(s, c) \in Seq(Cell)
  BY <1>2, EmptySeq DEF HeadOf
<1>4. HeadOf(s, c) \o s.ring[c] \in Seq(Cell)
  BY <1>1, <1>3, ConcatProperties
<1>5. HeadOf(s, c) \o s.ring[c] \o s.inbox[c] \in Seq(Cell)
  BY <1>1, <1>4, ConcatProperties
<1>6. StreamOf(s, c) \in Seq(Cell)
  BY <1>1, <1>5, ConcatProperties DEF StreamOf
<1> QED  BY <1>1, <1>3, <1>4, <1>5, <1>6

(* The same stream with its pieces nested the other way.                   *)
LEMMA StreamNested ==
    ASSUME NEW s \in Sys, NEW c \in Conn
    PROVE  /\ s.inbox[c] \o s.wire[c] \in Seq(Cell)
           /\ s.ring[c] \o (s.inbox[c] \o s.wire[c]) \in Seq(Cell)
           /\ StreamOf(s, c)
                = HeadOf(s, c) \o (s.ring[c] \o (s.inbox[c] \o s.wire[c]))
<1> DEFINE h == HeadOf(s, c)
           a == s.ring[c]
           i == s.inbox[c]
           w == s.wire[c]
<1>1. /\ h \in Seq(Cell) /\ a \in Seq(Cell) /\ i \in Seq(Cell) /\ w \in Seq(Cell)
      /\ StreamOf(s, c) = ((h \o a) \o i) \o w /\ h \o a \in Seq(Cell)
  BY StreamType DEF StreamOf
<1> HIDE DEF h, a, i, w
<1>2. i \o w \in Seq(Cell) /\ a \o (i \o w) \in Seq(Cell)
  BY <1>1, ConcatProperties
<1>3. ((h \o a) \o i) \o w = (h \o a) \o (i \o w)
  <2> DEFINE b == h \o a
  <2>1. b \in Seq(Cell)
    BY <1>1
  <2> HIDE DEF b
  <2>2. (b \o i) \o w = b \o (i \o w)
    BY <1>1, <2>1, ConcatAssociative
  <2> QED  BY <2>2 DEF b
<1> DEFINE d == i \o w
<1>4. d \in Seq(Cell)
  BY <1>2
<1> HIDE DEF d
<1>5. (h \o a) \o d = h \o (a \o d)
  <2>1. h \in Seq(Cell) /\ a \in Seq(Cell)
    BY <1>1
  <2> QED  BY <1>4, <2>1, ConcatAssociative
<1> QED  BY <1>1, <1>2, <1>3, <1>5 DEF h, a, i, w, d

(* The payload the parser's header announces leaves the ring.              *)
LEMMA FedConsume ==
    ASSUME NEW s \in Sys, NEW t \in Sys, NEW c \in Conn, Fed(s, c),
           c \in s.have, c \notin t.have, s.hdr[c].len <= Len(s.ring[c]),
           t.ring[c] = SubSeq(s.ring[c], s.hdr[c].len + 1, Len(s.ring[c])),
           t.inbox[c] = s.inbox[c], t.wire[c] = s.wire[c], t.rx[c] = s.rx[c]
    PROVE  /\ Fed(t, c)
           /\ LET q == StreamOf(s, c)
              IN  StreamOf(t, c) = SubSeq(q, s.hdr[c].len + 2, Len(q))
<1> DEFINE n == s.hdr[c].len
           x == <<s.hdr[c], 0>>
           a == s.ring[c]
           z == s.inbox[c] \o s.wire[c]
           b == SubSeq(a, n + 1, Len(a))
           y == a \o z
           q == <<x>> \o y
           r == SubSeq(q, n + 2, Len(q))
<1>1. /\ a \in Seq(Cell) /\ z \in Seq(Cell) /\ y \in Seq(Cell)
      /\ x \in Cell /\ StreamOf(s, c) = q /\ n \in Nat /\ n <= Len(a)
      /\ x[1].len = n
  <2>1. s.hdr[c] \in Frame /\ n \in Nat
    BY HdrType
  <2>2. x \in Cell
    BY <2>1 DEF Cell
  <2> QED  BY <2>1, <2>2, StreamNested, StreamType DEF HeadOf
<1>2. /\ b = t.ring[c] /\ z = t.inbox[c] \o t.wire[c]
  OBVIOUS
<1>3. b \in Seq(Cell) /\ StreamOf(t, c) = b \o z
  <2>1. HeadOf(t, c) = <<>> /\ t.ring[c] \o (t.inbox[c] \o t.wire[c]) \in Seq(Cell)
    BY StreamNested DEF HeadOf
  <2>2. <<>> \o (t.ring[c] \o (t.inbox[c] \o t.wire[c]))
            = t.ring[c] \o (t.inbox[c] \o t.wire[c])
    BY <2>1, ConcatEmptySeq
  <2> QED  BY <1>2, <2>1, <2>2, StreamNested, StreamType
<1> HIDE DEF n, x, a, z
<1>4. Len(a) \in Nat /\ Len(z) \in Nat /\ Len(y) = Len(a) + Len(z)
  BY <1>1, LenProperties, ConcatProperties
<1>5. SubSeq(y, n + 1, Len(y)) = b \o z
  BY <1>1, DropConcat
<1> HIDE DEF y, b
<1>6. n <= Len(y)
  BY <1>1, <1>4
<1>7. /\ q \in Seq(Cell) /\ Len(q) = 1 + Len(y) /\ q[1] = x
      /\ r = SubSeq(y, n + 1, Len(y))
  BY <1>1, <1>6, DropHead
<1> HIDE DEF q
<1>8. Framing(q) /\ (s.rx[c] = "open" => EndsWhole(q))
  BY <1>1 DEF Fed
<1>9. q # <<>> /\ Len(q) >= n + 1 /\ q[1][1].len = n
  BY <1>1, <1>4, <1>6, <1>7, EmptySeq
<1>10. Framing(r) /\ (EndsWhole(q) => EndsWhole(r))
  BY <1>1, <1>7, <1>8, <1>9, FramingDrop
<1>11. Fed(t, c) /\ StreamOf(t, c) = r
  BY <1>3, <1>5, <1>7, <1>8, <1>10 DEF Fed
<1> QED  BY <1>1, <1>11 DEF n

(* A header taken off the ring stays in the stream.                        *)
LEMMA FedTake ==
    ASSUME NEW s \in Sys, NEW t \in Sys, NEW c \in Conn, Fed(s, c),
           c \notin s.have, c \in t.have, s.ring[c] # <<>>,
           t.hdr[c] = s.ring[c][1][1], t.ring[c] = Tail(s.ring[c]),
           t.inbox[c] = s.inbox[c], t.wire[c] = s.wire[c], t.rx[c] = s.rx[c]
    PROVE  Fed(t, c) /\ StreamOf(t, c) = StreamOf(s, c)
<1> DEFINE a == s.ring[c]
           b == Tail(a)
           x == a[1]
           z == s.inbox[c] \o s.wire[c]
           h == <<x>>
<1>1. /\ a \in Seq(Cell) /\ z \in Seq(Cell) /\ a # <<>>
      /\ StreamOf(s, c) = a \o z /\ a \o z \in Seq(Cell)
  <2>1. /\ HeadOf(s, c) = <<>> /\ a \o z \in Seq(Cell) /\ z \in Seq(Cell)
        /\ StreamOf(s, c) = HeadOf(s, c) \o (a \o z)
    BY StreamNested DEF HeadOf
  <2>2. <<>> \o (a \o z) = a \o z
    BY <2>1, ConcatEmptySeq
  <2> QED  BY <2>1, <2>2, StreamType
<1>2. StreamOf(t, c) = << <<x[1], 0>> >> \o (b \o z)
  BY StreamNested DEF HeadOf
<1> HIDE DEF a, z
<1>3. Len(a) \in Nat /\ 1 \in 1 .. Len(a) /\ x \in Cell /\ b \in Seq(Cell)
  BY <1>1, EmptySeq, LenProperties, ElementOfSeq, HeadTailProperties
<1>4. x = <<x[1], 0>>
  <2> DEFINE q == a \o z
  <2>1. /\ Framing(q) /\ q \in Seq(Cell) /\ Len(q) = Len(a) + Len(z)
        /\ \A i \in 1 .. Len(a) : q[i] = a[i]
    BY <1>1, ConcatProperties, LenProperties DEF Fed
  <2>2. q # <<>> /\ q[1] = x /\ 1 \in 1 .. Len(q)
    BY <1>1, <1>3, <2>1, EmptySeq, LenProperties
  <2> HIDE DEF q
  <2>3. q[1][2] = 0 /\ q[1] = <<q[1][1], q[1][2]>>
    BY <2>1, <2>2, FramingFramed, CellParts
  <2> QED  BY <2>2, <2>3
<1>5. a = h \o b /\ h \in Seq(Cell)
  <2>1. h \in Seq(Cell) /\ Len(h) = 1 /\ h[1] = x
    BY <1>3
  <2>2. Len(b) = Len(a) - 1 /\ \A i \in 1 .. Len(b) : b[i] = a[i + 1]
    BY <1>1, HeadTailProperties
  <2> HIDE DEF h, b
  <2> DEFINE q == h \o b
  <2>3. /\ q \in Seq(Cell) /\ Len(q) = Len(h) + Len(b)
        /\ \A i \in 1 .. Len(h) + Len(b) :
              q[i] = IF i <= Len(h) THEN h[i] ELSE b[i - Len(h)]
    BY <1>3, <2>1, ConcatProperties
  <2> HIDE DEF q
  <2>4. ASSUME NEW i \in 1 .. Len(a) PROVE a[i] = q[i]
    <3>1. i \in 1 .. Len(h) + Len(b)
      BY <1>3, <2>1, <2>2
    <3>2. CASE i = 1
      BY <2>1, <2>3, <3>1, <3>2
    <3>3. CASE i # 1
      <4> DEFINE j == i - 1
      <4>1. ~(i <= Len(h)) /\ i - Len(h) = j /\ j \in 1 .. Len(b) /\ j + 1 = i
        BY <1>3, <2>1, <2>2, <3>3
      <4> HIDE DEF j
      <4> QED  BY <2>2, <2>3, <3>1, <4>1
    <3> QED  BY <3>2, <3>3
  <2>5. Len(a) = Len(q)
    BY <1>3, <2>1, <2>2, <2>3
  <2>6. a = q
    BY <1>1, <2>3, <2>4, <2>5, SeqEqual
  <2> QED  BY <2>1, <2>6 DEF q
<1>6. h \o (b \o z) = (h \o b) \o z
  <2>1. b \in Seq(Cell) /\ z \in Seq(Cell) /\ h \in Seq(Cell)
    BY <1>1, <1>3, <1>5
  <2> HIDE DEF b, h
  <2> QED  BY <2>1, ConcatAssociative
<1>7. StreamOf(t, c) = StreamOf(s, c)
  <2>1. h = << <<x[1], 0>> >>
    BY <1>4
  <2> HIDE DEF b, h, x
  <2> QED  BY <1>1, <1>2, <1>5, <1>6, <2>1
<1> QED  BY <1>7 DEF Fed

(* Bytes that move from one buffer to the next stay in the stream.         *)
LEMMA FedMove ==
    ASSUME NEW s \in Sys, NEW t \in Sys, NEW c \in Conn, Fed(s, c),
           HeadOf(t, c) = HeadOf(s, c), t.rx[c] = s.rx[c],
           \/ /\ t.wire[c] = s.wire[c]
              /\ \E n \in 1 .. Len(s.inbox[c]) :
                    /\ t.ring[c] = s.ring[c] \o SubSeq(s.inbox[c], 1, n)
                    /\ t.inbox[c] = SubSeq(s.inbox[c], n + 1, Len(s.inbox[c]))
           \/ /\ t.ring[c] = s.ring[c] /\ t.wire[c] = <<>>
              /\ t.inbox[c] = s.inbox[c] \o s.wire[c]
    PROVE  Fed(t, c) /\ StreamOf(t, c) = StreamOf(s, c)
<1> DEFINE h == HeadOf(s, c)
           a == s.ring[c]
           i == s.inbox[c]
           w == s.wire[c]
           z == i \o w
<1>1. /\ a \in Seq(Cell) /\ i \in Seq(Cell) /\ w \in Seq(Cell) /\ z \in Seq(Cell)
      /\ StreamOf(s, c) = h \o (a \o z)
  BY StreamType, StreamNested
<1>2. StreamOf(t, c) = h \o (t.ring[c] \o (t.inbox[c] \o t.wire[c]))
  BY StreamNested
<1>3. t.ring[c] \o (t.inbox[c] \o t.wire[c]) = a \o z
  <2>1. ASSUME NEW n \in 1 .. Len(i), t.wire[c] = w,
               t.ring[c] = a \o SubSeq(i, 1, n),
               t.inbox[c] = SubSeq(i, n + 1, Len(i))
        PROVE  t.ring[c] \o (t.inbox[c] \o t.wire[c]) = a \o z
    <3> DEFINE p == SubSeq(i, 1, n)
               q == SubSeq(i, n + 1, Len(i))
               y == q \o w
    <3>0. Len(i) \in Nat
      BY <1>1, LenProperties
    <3> HIDE DEF i
    <3>1. p \in Seq(Cell)
      <4>1. \A k \in 1 .. n : i[k] \in Cell
        BY <1>1, <3>0, ElementOfSeq
      <4> QED  BY <4>1, SubSeqProperties
    <3>2. q \in Seq(Cell)
      BY <1>1, <3>0, DropPrefix
    <3>3. p \o q = i
      <4>1. SubSeq(i, 1, n) \o SubSeq(i, n + 1, Len(i)) = SubSeq(i, 1, Len(i))
        <5>1. /\ 1 \in 1 .. Len(i) + 1 /\ n \in 1 - 1 .. Len(i)
              /\ Len(i) \in n .. Len(i)
          BY <3>0
        <5> QED  BY <1>1, <5>1, ConcatAdjacentSubSeq
      <4>2. SubSeq(i, 1, Len(i)) = i
        BY <1>1, SubSeqFull
      <4> QED  BY <4>1, <4>2
    <3>4. t.ring[c] = a \o p /\ t.inbox[c] = q
      BY <2>1 DEF i
    <3> HIDE DEF p, q, a, w
    <3>5. y \in Seq(Cell)
      BY <1>1, <3>2, ConcatProperties
    <3>6. z = p \o y
      <4>1. w \in Seq(Cell)
        BY <1>1
      <4>2. (p \o q) \o w = p \o y
        BY <3>1, <3>2, <4>1, ConcatAssociative
      <4> QED  BY <3>3, <4>2
    <3> HIDE DEF y, z
    <3>7. (a \o p) \o y = a \o (p \o y)
      <4>1. a \in Seq(Cell)
        BY <1>1
      <4> QED  BY <3>1, <3>5, <4>1, ConcatAssociative
    <3> QED  BY <2>1, <3>4, <3>6, <3>7 DEF y, w
  <2>2. ASSUME t.ring[c] = a, t.wire[c] = <<>>, t.inbox[c] = i \o w
        PROVE  t.ring[c] \o (t.inbox[c] \o t.wire[c]) = a \o z
    <3>1. z \o <<>> = z
      BY <1>1, ConcatEmptySeq
    <3> QED  BY <2>2, <3>1
  <2> QED  BY <2>1, <2>2
<1>4. StreamOf(t, c) = StreamOf(s, c)
  BY <1>1, <1>2, <1>3
<1> QED  BY <1>4 DEF Fed

(* A frame the far end sends follows whole frames.                         *)
LEMMA FedArrive ==
    ASSUME NEW s \in Sys, NEW t \in Sys, NEW c \in Conn, NEW f \in Frame,
           NEW k \in 1 .. f.len + 1, Fed(s, c), s.rx[c] = "open",
           s.wire[c] = <<>>, HeadOf(t, c) = HeadOf(s, c),
           t.ring[c] = s.ring[c], t.rx[c] = s.rx[c],
           t.inbox[c] = s.inbox[c] \o SubSeq(Cells(f), 1, k),
           t.wire[c] = SubSeq(Cells(f), k + 1, Len(Cells(f)))
    PROVE  Fed(t, c) /\ StreamOf(t, c) = StreamOf(s, c) \o Cells(f)
<1> DEFINE h == HeadOf(s, c) \o s.ring[c]
           i == s.inbox[c]
           g == Cells(f)
           p == SubSeq(g, 1, k)
           q == SubSeq(g, k + 1, Len(g))
           y == h \o i
<1>1. /\ h \in Seq(Cell) /\ i \in Seq(Cell) /\ y \in Seq(Cell)
      /\ StreamOf(s, c) = y \o <<>>
      /\ StreamOf(t, c) = (h \o (i \o p)) \o q
  BY StreamType DEF StreamOf
<1>2. g \in Seq(Cell) /\ Len(g) = f.len + 1 /\ f.len \in Nat
  BY CellsType DEF Frame
<1> HIDE DEF h, i, g
<1>3. p \in Seq(Cell) /\ q \in Seq(Cell)
  <2>1. \A m \in 1 .. k : g[m] \in Cell
    BY <1>2, ElementOfSeq
  <2>2. p \in Seq(Cell)
    BY <1>2, <2>1, SubSeqProperties
  <2> QED  BY <1>2, <2>2, DropPrefix
<1>4. p \o q = g
  <2>1. SubSeq(g, 1, k) \o SubSeq(g, k + 1, Len(g)) = SubSeq(g, 1, Len(g))
    <3>1. /\ 1 \in 1 .. Len(g) + 1 /\ k \in 1 - 1 .. Len(g)
          /\ Len(g) \in k .. Len(g)
      BY <1>2
    <3> QED  BY <1>2, <3>1, ConcatAdjacentSubSeq
  <2>2. SubSeq(g, 1, Len(g)) = g
    BY <1>2, SubSeqFull
  <2> QED  BY <2>1, <2>2
<1> HIDE DEF p, q
<1>5. h \o (i \o p) = y \o p
  <2>1. h \in Seq(Cell) /\ i \in Seq(Cell) /\ p \in Seq(Cell)
    BY <1>1, <1>3
  <2>2. (h \o i) \o p = h \o (i \o p)
    BY <2>1, ConcatAssociative
  <2> QED  BY <2>2
<1> HIDE DEF y
<1>6. (y \o p) \o q = y \o g
  <2>1. y \in Seq(Cell)
    BY <1>1
  <2>2. (y \o p) \o q = y \o (p \o q)
    BY <1>3, <2>1, ConcatAssociative
  <2> QED  BY <1>4, <2>2
<1>7. y \o <<>> = y
  BY <1>1, ConcatEmptySeq
<1>8. Framing(y) /\ EndsWhole(y)
  BY <1>1, <1>7 DEF Fed
<1>9. Framing(y \o g) /\ EndsWhole(y \o g)
  BY <1>1, <1>8, FramingAppend DEF g
<1> QED  BY <1>1, <1>5, <1>6, <1>7, <1>9 DEF Fed, g

(* What is lost with a far end that goes is the end of the stream.         *)
LEMMA FedCut ==
    ASSUME NEW s \in Sys, NEW t \in Sys, NEW c \in Conn, Fed(s, c),
           HeadOf(t, c) = HeadOf(s, c), t.ring[c] = s.ring[c],
           t.rx[c] # "open", t.wire[c] = <<>>, t.inbox[c] \in {s.inbox[c], <<>>}
    PROVE  /\ Fed(t, c)
           /\ \E z \in Seq(Cell) : StreamOf(s, c) = StreamOf(t, c) \o z
<1> DEFINE h == HeadOf(s, c) \o s.ring[c]
           i == s.inbox[c]
           w == s.wire[c]
<1>1. /\ h \in Seq(Cell) /\ i \in Seq(Cell) /\ w \in Seq(Cell)
      /\ h \o i \in Seq(Cell) /\ i \o w \in Seq(Cell)
      /\ StreamOf(s, c) = (h \o i) \o w
      /\ StreamOf(t, c) = (h \o t.inbox[c]) \o <<>>
  BY StreamType, StreamNested DEF StreamOf
<1>2. Framing((h \o i) \o w)
  BY <1>1 DEF Fed
<1> HIDE DEF h, i, w
<1>3. CASE t.inbox[c] = i
  <2>1. Framing(h \o i)
    BY <1>1, <1>2, FramingPrefix
  <2>2. (h \o i) \o <<>> = h \o i
    BY <1>1, ConcatEmptySeq
  <2>3. StreamOf(t, c) = h \o i
    BY <1>1, <1>3, <2>2
  <2>4. w \in Seq(Cell) /\ StreamOf(s, c) = StreamOf(t, c) \o w
    BY <1>1, <2>3
  <2>5. \E z \in Seq(Cell) : StreamOf(s, c) = StreamOf(t, c) \o z
    BY <2>4
  <2> QED  BY <2>1, <2>3, <2>5 DEF Fed
<1>4. CASE t.inbox[c] = <<>>
  <2>1. (h \o i) \o w = h \o (i \o w)
    BY <1>1, ConcatAssociative
  <2>2. Framing(h)
    <3> DEFINE z == i \o w
    <3>1. z \in Seq(Cell) /\ Framing(h \o z)
      BY <1>1, <1>2, <2>1
    <3> HIDE DEF z
    <3> QED  BY <1>1, <3>1, FramingPrefix
  <2>3. (h \o <<>>) \o <<>> = h
    BY <1>1, ConcatEmptySeq
  <2>4. StreamOf(t, c) = h
    BY <1>1, <1>4, <2>3
  <2>5. \E z \in Seq(Cell) : StreamOf(s, c) = StreamOf(t, c) \o z
    <3> DEFINE z == i \o w
    <3>1. z \in Seq(Cell) /\ StreamOf(s, c) = StreamOf(t, c) \o z
      BY <1>1, <2>1, <2>4
    <3> HIDE DEF z
    <3> QED  BY <3>1
  <2> QED  BY <2>2, <2>4, <2>5 DEF Fed
<1> QED  BY <1>3, <1>4 DEF i

----------------------------------------------------------------------------
(* What writing and closing leave of the input and of the counts.          *)

(* The open upstream connections of endpoint e.                            *)
Ups(s, e) == {c \in Conn : c \in s.rings /\ s.role[c] = "up" /\ s.ep[c] = e}

(* Dialled connections, and no others, have an endpoint.                   *)
Endpoints(s) == \A c \in Conn : IsUp(s, c) <=> s.ep[c] # Nil
Counted(s)   == \A e \in EP : s.active[e] = Cardinality(Ups(s, e))

(* The request c keeps is the one its parser stands at, whole.             *)
KeptWhole(s, c) ==
    c \in s.held => /\ c \in s.have /\ s.pend[c] = s.hdr[c]
                    /\ Len(s.ring[c]) >= s.hdr[c].len

InputAt(s, c) == Fed(s, c) /\ KeptWhole(s, c)

(* A connection object not yet made has no input.                          *)
Unused(s) ==
    \A c \in Conn : s.role[c] = "new" =>
        /\ s.ring[c] = <<>> /\ s.inbox[c] = <<>> /\ s.wire[c] = <<>>
        /\ c \notin s.have /\ c \notin s.held

Tidy(s) ==
    /\ Endpoints(s) /\ Counted(s) /\ Unused(s)
    /\ \A c \in s.rings : InputAt(s, c)

(* t has the input and the counts of s.                                    *)
Quiet(s, t) ==
    /\ t.rings = s.rings /\ t.role = s.role /\ t.ep = s.ep
    /\ t.active = s.active /\ t.ring = s.ring /\ t.inbox = s.inbox
    /\ t.wire = s.wire /\ t.rx = s.rx /\ t.hdr = s.hdr /\ t.have = s.have
    /\ t.pend = s.pend /\ t.held = s.held

(* t has the input of s but for connections that closed.                   *)
Trims(s, t) ==
    /\ t.rings \subseteq s.rings /\ t.role = s.role /\ t.ep = s.ep
    /\ t.rx = s.rx /\ t.hdr = s.hdr /\ t.have = s.have
    /\ t.pend = s.pend /\ t.held = s.held
    /\ \A x \in Conn : x \in t.rings \/ s.role[x] = "new" =>
          t.ring[x] = s.ring[x] /\ t.inbox[x] = s.inbox[x] /\ t.wire[x] = s.wire[x]
    /\ Endpoints(s) /\ Counted(s) => Counted(t)

LEMMA QuietTrims ==
    ASSUME NEW s, NEW t, Quiet(s, t)
    PROVE  Trims(s, t)
BY DEF Quiet, Trims, Counted, Ups

LEMMA TrimsTrans ==
    ASSUME NEW s, NEW t, NEW u, Trims(s, t), Trims(t, u)
    PROVE  Trims(s, u)
<1>1. Endpoints(s) => Endpoints(t)
  BY DEF Trims, Endpoints, IsUp
<1> QED  BY <1>1 DEF Trims

LEMMA TrimsTidy ==
    ASSUME NEW s \in Sys, NEW t, Tidy(s), Trims(s, t)
    PROVE  Tidy(t)
<1>1. Endpoints(t) /\ Counted(t)
  BY DEF Tidy, Trims, Endpoints, IsUp
<1>2. Unused(t)
  BY DEF Tidy, Trims, Unused
<1>3. ASSUME NEW c \in t.rings PROVE InputAt(t, c)
  <2>1. c \in s.rings /\ c \in Conn
    BY DEF Trims, Sys
  <2>2. InputAt(s, c)
    BY <2>1 DEF Tidy
  <2> QED
    BY <2>1, <2>2 DEF Trims, InputAt, Fed, StreamOf, HeadOf, KeptWhole
<1> QED  BY <1>1, <1>2, <1>3 DEF Tidy

LEMMA QuietTidy ==
    ASSUME NEW s \in Sys, NEW t, Tidy(s), Quiet(s, t)
    PROVE  Tidy(t)
BY QuietTrims, TrimsTidy

LEMMA ArmQuiet ==
    ASSUME NEW s \in Sys, NEW c
    PROVE  Quiet(s, Arm(s, c))
BY ZenonT(60) DEF Sys, Arm, Quiet

LEMMA ModQuiet ==
    ASSUME NEW s \in Sys, NEW c \in Conn, NEW bits \in SUBSET {"R", "W"}
    PROVE  Quiet(s, Mod(s, c, bits))
<1> DEFINE d == Sock(s, c)
           t == [s EXCEPT !.want[d] = bits]
<1>1. CASE d = Nil
  BY <1>1 DEF Mod, Quiet
<1>2. CASE d # Nil
  <2>1. d \in Conn
    BY <1>2, SockType
  <2>2. t \in Sys /\ Quiet(s, t)
    BY <2>1 DEF Sys, Quiet
  <2>3. Mod(s, c, bits) = Arm(t, d)
    BY <1>2 DEF Mod
  <2> HIDE DEF t
  <2>4. Quiet(t, Arm(t, d))
    BY <2>2, ArmQuiet
  <2> QED  BY <2>2, <2>3, <2>4 DEF Quiet
<1> QED  BY <1>1, <1>2

LEMMA OutQuiet ==
    ASSUME NEW s \in Sys, NEW c, NEW g, NEW r
    PROVE  /\ Quiet(s, [s EXCEPT !.got[c] = g])
           /\ Quiet(s, [s EXCEPT !.remain[c] = r])
           /\ Quiet(s, [s EXCEPT !.tx[c] = r])
BY DEF Sys, Quiet

LEMMA PeerQuiet ==
    ASSUME NEW s \in Sys, NEW c, NEW p
    PROVE  Quiet(s, [s EXCEPT !.peer[c] = p])
BY DEF Sys, Quiet

LEMMA SpillQuiet ==
    ASSUME NEW s \in Sys, NEW c, NEW f
    PROVE  Quiet(s, Spill(s, c, f))
BY DEF Sys, Spill, Quiet

LEMMA ResendQuiet ==
    ASSUME NEW s \in Sys, NEW c \in Conn
    PROVE  Quiet(s, Resend(s, c))
<1> DEFINE r == s.remain[c]
<1>0. r \in Seq(Frame)
  BY DEF Sys
<1>1. CASE r = <<>> \/ Room(s, c) \notin {"open", "tight"}
  BY <1>1 DEF Resend, Quiet
<1>2. CASE r # <<>> /\ Room(s, c) = "open"
  <2> DEFINE t == Deliver(s, c, r)
             u == [t EXCEPT !.remain[c] = <<>>]
  <2>1. t \in Sys
    BY <1>0, <1>2, SockType, DeliverKeeps
  <2>2. Quiet(s, t)
    BY OutQuiet DEF Deliver
  <2>3. Resend(s, c) = Mod(u, c, {"R"})
    BY <1>2 DEF Resend
  <2> HIDE DEF t
  <2>4. u \in Sys /\ Quiet(t, u)
    BY <2>1, EmptySeq, RemainKeeps, OutQuiet
  <2> HIDE DEF u
  <2>5. Quiet(u, Mod(u, c, {"R"}))
    BY <2>4, ModQuiet
  <2> QED  BY <2>2, <2>3, <2>4, <2>5 DEF Quiet
<1>3. CASE r # <<>> /\ Room(s, c) = "tight"
  <2> DEFINE q == SubSeq(r, 1, Len(r) - 1)
             w == <<r[Len(r)]>>
             t == Deliver(s, c, q)
             u == [t EXCEPT !.remain[c] = w]
             v == [u EXCEPT !.tx[Sock(s, c)] = "full"]
  <2>1. q \in Seq(Frame) /\ w \in Seq(Frame)
    BY <1>0, <1>3, SubSeqProperties, LenProperties, EmptySeq
  <2>2. t \in Sys
    BY <1>3, <2>1, SockType, DeliverKeeps
  <2>3. Quiet(s, t)
    BY OutQuiet DEF Deliver
  <2>4. Resend(s, c) = v
    BY <1>3 DEF Resend
  <2> HIDE DEF t, w
  <2>5. u \in Sys /\ Quiet(t, u)
    BY <2>1, <2>2, RemainKeeps, OutQuiet
  <2> HIDE DEF u
  <2>6. Quiet(u, v)
    BY <2>5, OutQuiet
  <2> HIDE DEF v
  <2> QED  BY <2>3, <2>4, <2>5, <2>6 DEF Quiet
<1> QED  BY <1>1, <1>2, <1>3

LEMMA WritevQuiet ==
    ASSUME NEW s \in Sys, NEW c \in Conn, NEW f \in Frame
    PROVE  Quiet(s, Writev(s, c, f))
<1>1. CASE Room(s, c) = "open"
  BY <1>1, OutQuiet DEF Writev, Deliver
<1>2. CASE Room(s, c) = "tight"
  <2> DEFINE t == [s EXCEPT !.remain[c] = <<f>>, !.tx[Sock(s, c)] = "full"]
  <2>0. <<f>> \in Seq(Frame)
    OBVIOUS
  <2>1. t \in Sys /\ Quiet(s, t)
    BY <2>0 DEF Sys, Quiet
  <2>2. Writev(s, c, f) = Mod(t, c, WantStashed)
    BY <1>2 DEF Writev
  <2> HIDE DEF t
  <2>3. Quiet(t, Mod(t, c, WantStashed))
    BY <2>1, ModQuiet DEF WantStashed
  <2> QED  BY <2>1, <2>2, <2>3 DEF Quiet
<1>3. CASE Room(s, c) \notin {"open", "tight"}
  BY <1>3 DEF Writev, Sys, Quiet
<1> QED  BY <1>1, <1>2, <1>3

LEMMA WriteQuiet ==
    ASSUME NEW s \in Sys, NEW c \in Conn, NEW f \in Frame
    PROVE  Quiet(s, Write(s, c, f))
<1> DEFINE t == Resend(s, c)
<1>1. t \in Sys /\ Quiet(s, t)
  BY ResendKeeps, ResendQuiet
<1>2. Write(s, c, f) = IF t.remain[c] = <<>> THEN Writev(t, c, f)
                       ELSE [t EXCEPT !.remain[c] = Append(t.remain[c], f)]
  BY <1>1 DEF Write, Sys
<1> HIDE DEF t
<1>3. Quiet(t, Writev(t, c, f))
  BY <1>1, WritevQuiet
<1>4. Quiet(t, [t EXCEPT !.remain[c] = Append(t.remain[c], f)])
  BY <1>1, OutQuiet
<1> QED  BY <1>1, <1>2, <1>3, <1>4 DEF Quiet

(* The connections that own a ring have different descriptors.             *)
LEMMA UpsFinite ==
    ASSUME NEW s, NEW e, Sound(s)
    PROVE  IsFiniteSet(Ups(s, e))
<1> DEFINE g == [c \in s.rings |-> s.fd[c]]
<1>1. s \in Sys /\ \A c \in s.rings : c \in Conn /\ s.tab[s.fd[c]] = c
  BY DEF Sound, RingsLive, Live, Sock, Sys
<1>2. g \in [s.rings -> FD]
  BY <1>1 DEF Sys
<1>3. \A c, d \in s.rings : g[c] = g[d] => c = d
  BY <1>1
<1>4. g \in Injection(s.rings, FD)
  BY <1>2, <1>3 DEF Injection, IsInjective
<1>5. IsFiniteSet(s.rings)
  BY <1>4, FS_Injection, ReactorAssumption
<1>6. Ups(s, e) \in SUBSET s.rings
  BY DEF Ups
<1> QED  BY <1>5, <1>6, FS_Subset

LEMMA DropTrims ==
    ASSUME NEW s, NEW c \in Conn, Sound(s), Live(s, c)
    PROVE  Trims(s, Drop(s, c))
<1> DEFINE t == Drop(s, c)
<1>1. /\ s \in Sys /\ c \in s.rings /\ s.role[c] # "new"
  BY DEF Sound, RingsLive, Blank
<1>2. /\ t.rings = s.rings \ {c} /\ t.role = s.role /\ t.ep = s.ep
      /\ t.rx = s.rx /\ t.hdr = s.hdr /\ t.have = s.have
      /\ t.pend = s.pend /\ t.held = s.held
      /\ t.ring = [s.ring EXCEPT ![c] = <<>>]
      /\ t.inbox = [s.inbox EXCEPT ![c] = <<>>]
      /\ t.wire = [s.wire EXCEPT ![c] = <<>>]
      /\ t.active = [e \in EP |-> IF e = s.ep[c]
                                  THEN s.active[e] - ActiveOf(s, c) ELSE s.active[e]]
  BY <1>1 DEF Drop, Sys
<1> HIDE DEF t
<1>3. ASSUME NEW x \in Conn, x \in t.rings \/ s.role[x] = "new"
      PROVE  /\ t.ring[x] = s.ring[x] /\ t.inbox[x] = s.inbox[x]
             /\ t.wire[x] = s.wire[x]
  BY <1>1, <1>2, <1>3 DEF Sys
<1>4. ASSUME Endpoints(s), Counted(s), NEW e \in EP
      PROVE  t.active[e] = Cardinality(Ups(t, e))
  <2>1. Ups(t, e) = Ups(s, e) \ {c}
    BY <1>2 DEF Ups
  <2>2. s.active[e] = Cardinality(Ups(s, e)) /\ IsFiniteSet(Ups(s, e))
    BY <1>4, UpsFinite DEF Counted
  <2>3. Cardinality(Ups(t, e)) = IF c \in Ups(s, e) THEN s.active[e] - 1 ELSE s.active[e]
    BY <2>1, <2>2, FS_RemoveElement
  <2>4. s.active[e] \in Int
    BY <1>1 DEF Sys
  <2>5. c \in Ups(s, e) <=> s.role[c] = "up" /\ s.ep[c] = e
    BY <1>1 DEF Ups
  <2>6. e = s.ep[c] => s.role[c] \in {"up", "connecting"}
    BY <1>4, ReactorAssumption DEF Endpoints, IsUp
  <2>7. t.active[e] = IF e = s.ep[c] THEN s.active[e] - ActiveOf(s, c) ELSE s.active[e]
    BY <1>2
  <2>8. e = s.ep[c] => ActiveOf(s, c) = IF s.role[c] = "connecting" THEN 0 ELSE 1
    BY ReactorAssumption DEF ActiveOf
  <2> QED  BY <2>3, <2>4, <2>5, <2>6, <2>7, <2>8
<1> QED  BY <1>2, <1>3, <1>4 DEF Trims, Counted, t

LEMMA DropLiveTrims ==
    ASSUME NEW s, NEW c \in Conn, Sound(s)
    PROVE  Trims(s, DropLive(s, c))
BY DropTrims, QuietTrims DEF DropLive, Quiet

LEMMA ReplyAloneTrims ==
    ASSUME NEW s, NEW c \in Conn, NEW f \in Frame, Good(s), s.peer[c] = Nil
    PROVE  Trims(s, ReplyAlone(s, c, f))
<1> DEFINE t == DropLive(s, c)
<1>1. Trims(s, t) /\ t \in Sys /\ s \in Sys
  BY DropLiveTrims, DropLiveCloses DEF Closes, Good, Sound
<1> HIDE DEF t
<1>2. Trims(t, Spill(t, c, f)) /\ Trims(s, Write(s, c, f))
  BY <1>1, SpillQuiet, WriteQuiet, QuietTrims
<1> QED  BY <1>1, <1>2, TrimsTrans DEF ReplyAlone, t

LEMMA CloseConnTrims ==
    ASSUME NEW s, NEW c \in Conn, Good(s)
    PROVE  Trims(s, CloseConn(s, c))
<1>1. CASE ~Live(s, c)
  BY <1>1, QuietTrims DEF CloseConn, Quiet
<1>2. CASE Live(s, c) /\ s.peer[c] = Nil
  BY <1>2, DropTrims DEF CloseConn, Good
<1>3. CASE Live(s, c) /\ s.peer[c] # Nil
  <2> DEFINE p == s.peer[c]
             t == Drop(s, c)
             u == Unlink(t, p)
             f == ErrorOf(u.pend[p].id)
  <2>1. /\ t \in Sys /\ t.peer[p] = c /\ p \in Conn /\ Good(u)
        /\ u.peer[p] = Nil /\ f \in Frame
    BY <1>3, UnlinkCloses DEF Closes
  <2>2. CloseConn(s, c) = IF u.role[p] = "down"
                          THEN ReplyAlone(u, p, f) ELSE DropLive(u, p)
    BY <1>3, <2>1 DEF CloseConn
  <2>3. Trims(s, t)
    BY <1>3, DropTrims DEF Good
  <2> HIDE DEF t, f
  <2>4. Trims(t, u)
    BY <2>1, PeerQuiet, QuietTrims DEF Unlink
  <2> HIDE DEF u
  <2>5. Trims(u, CloseConn(s, c))
    BY <2>1, <2>2, ReplyAloneTrims, DropLiveTrims DEF Good
  <2> QED  BY <2>3, <2>4, <2>5, TrimsTrans
<1> QED  BY <1>1, <1>2, <1>3

LEMMA FlushTrims ==
    ASSUME NEW s, NEW c \in Conn, NEW f \in Frame, Good(s)
    PROVE  Trims(s, Flush(s, c, f))
<1> DEFINE t == CloseConn(s, c)
<1>1. Trims(s, t) /\ t \in Sys /\ s \in Sys
  BY CloseConnTrims, CloseConnCloses, GoodSys DEF Closes
<1> HIDE DEF t
<1>2. Trims(t, Spill(t, c, f)) /\ Trims(s, Write(s, c, f))
  BY <1>1, SpillQuiet, WriteQuiet, QuietTrims
<1> QED  BY <1>1, <1>2, TrimsTrans DEF Flush, t

LEMMA FlushRemainTrims ==
    ASSUME NEW s, NEW c \in Conn, Good(s)
    PROVE  Trims(s, FlushRemain(s, c))
<1>1. Trims(s, CloseConn(s, c)) /\ Trims(s, Resend(s, c))
  BY CloseConnTrims, ResendQuiet, QuietTrims, GoodSys
<1> QED  BY <1>1 DEF FlushRemain

LEMMA ReplyTrims ==
    ASSUME NEW s, NEW c \in Conn, NEW i \in 0 .. MaxReq, Good(s)
    PROVE  Trims(s, Reply(s, c, i))
BY FlushTrims, MadeFrames DEF Reply

LEMMA ReselectTrims ==
    ASSUME NEW s, NEW c \in Conn, Good(s)
    PROVE  Trims(s, Reselect(s, c))
<1> DEFINE p == s.peer[c]
           t == CloseConn(s, p)
<1>1. CASE p = Nil
  BY <1>1, QuietTrims DEF Reselect, Quiet
<1>2. CASE p # Nil
  <2>1. p \in Conn
    BY <1>2, PeerApart
  <2>2. Trims(s, t) /\ t \in Sys
    BY <2>1, CloseConnTrims, CloseConnCloses, GoodSys DEF Closes
  <2>3. Reselect(s, c) = [t EXCEPT !.peer[c] = Nil]
    BY <1>2 DEF Reselect
  <2> HIDE DEF t
  <2>4. Trims(t, Reselect(s, c))
    BY <2>2, <2>3, PeerQuiet, QuietTrims
  <2> QED  BY <2>2, <2>4, TrimsTrans
<1> QED  BY <1>1, <1>2

----------------------------------------------------------------------------
(* The parser's handlers keep the input in step and the counts exact.      *)

(* Only the input of c changes.                                            *)
OnlyInput(s, t, c) ==
    /\ t.rings = s.rings /\ t.role = s.role /\ t.ep = s.ep /\ t.active = s.active
    /\ t.have \ {c} = s.have \ {c} /\ t.held \ {c} = s.held \ {c}
    /\ \A x \in Conn : x # c =>
          /\ t.ring[x] = s.ring[x] /\ t.inbox[x] = s.inbox[x]
          /\ t.wire[x] = s.wire[x] /\ t.rx[x] = s.rx[x]
          /\ t.hdr[x] = s.hdr[x] /\ t.pend[x] = s.pend[x]

LEMMA InputTidy ==
    ASSUME NEW s \in Sys, NEW t, NEW c \in Conn, Tidy(s), OnlyInput(s, t, c),
           s.role[c] # "new", c \in s.rings => InputAt(t, c)
    PROVE  Tidy(t)
<1>1. Endpoints(t) /\ Counted(t)
  BY DEF Tidy, OnlyInput, Endpoints, IsUp, Counted, Ups
<1>2. Unused(t)
  BY DEF Tidy, OnlyInput, Unused
<1>3. ASSUME NEW x \in t.rings PROVE InputAt(t, x)
  <2>1. x \in Conn /\ x \in s.rings
    BY DEF OnlyInput, Sys
  <2>2. CASE x # c
    BY <2>1, <2>2
       DEF Tidy, OnlyInput, InputAt, Fed, StreamOf, HeadOf, KeptWhole
  <2> QED  BY <2>1, <2>2
<1> QED  BY <1>1, <1>2, <1>3 DEF Tidy

(* c is at a complete frame.                                               *)
AtFrame(s, c) ==
    c \in s.rings => c \in s.have /\ Len(s.ring[c]) >= s.hdr[c].len

LEMMA TrimsAtFrame ==
    ASSUME NEW s \in Sys, NEW t, NEW c \in Conn, AtFrame(s, c), Trims(s, t)
    PROVE  AtFrame(t, c)
BY DEF AtFrame, Trims

LEMMA LessHeld ==
    ASSUME NEW s \in Sys, NEW c \in Conn, NEW t, Consume(s, c) \in Sys,
           OnlyInput(s, Consume(s, c), c), t = Consume(s, c) \/ t = Release(s, c)
    PROVE  LET u == Consume(s, c)
           IN  /\ OnlyInput(s, t, c)
               /\ t.have = u.have /\ t.ring = u.ring /\ t.inbox = u.inbox
               /\ t.wire = u.wire /\ t.rx = u.rx
<1> DEFINE u == Consume(s, c)
           v == [u EXCEPT !.held = @ \ {c}]
<1>1. t = u \/ t = v
  BY DEF Release
<1>2. u \in Sys /\ OnlyInput(s, u, c)
  OBVIOUS
<1> HIDE DEF u
<1>3. /\ v.rings = u.rings /\ v.role = u.role /\ v.ep = u.ep
      /\ v.active = u.active /\ v.hdr = u.hdr /\ v.pend = u.pend
      /\ v.held = u.held \ {c} /\ v.inbox = u.inbox /\ v.wire = u.wire
      /\ v.rx = u.rx /\ v.have = u.have /\ v.ring = u.ring
  BY <1>2 DEF Sys
<1> HIDE DEF v
<1>4. OnlyInput(s, v, c)
  BY <1>2, <1>3 DEF OnlyInput
<1> QED  BY <1>1, <1>2, <1>3, <1>4 DEF u

(* The payload of a frame that is not kept for later, or no longer.        *)
LEMMA TakenTidy ==
    ASSUME NEW s, NEW c \in Conn, NEW t \in Sys, Good(s), Tidy(s), s.role[c] # "new",
           AtFrame(s, c), t = Consume(s, c) \/ t = Release(s, c), c \notin t.held
    PROVE  Tidy(t)
<1> DEFINE n == s.hdr[c].len
           u == Consume(s, c)
<1>1. s \in Sys /\ u \in Sys
  BY ConsumeCloses, GoodSys DEF Closes
<1>2. CASE c \notin s.rings
  <2>1. OnlyInput(s, u, c)
    <3>1. /\ Quiet([s EXCEPT !.have = u.have], u)
          /\ u.have \in {s.have, s.have \ {c}}
      BY <1>1, <1>2, ZenonT(60) DEF Consume, Quiet, Sys
    <3> HIDE DEF u
    <3> QED  BY <1>1, <3>1 DEF OnlyInput, Quiet, Sys
  <2>3. OnlyInput(s, t, c)
    BY <1>1, <2>1, LessHeld
  <2> QED  BY <1>1, <1>2, <2>3, InputTidy
<1>3. CASE c \in s.rings
  <2> DEFINE b == SubSeq(s.ring[c], n + 1, Len(s.ring[c]))
  <2>1. u = [s EXCEPT !.have = @ \ {c}, !.ring[c] = b]
    BY <1>3 DEF Consume
  <2> HIDE DEF b, u
  <2>2. /\ u.rings = s.rings /\ u.role = s.role /\ u.ep = s.ep
        /\ u.active = s.active /\ u.hdr = s.hdr /\ u.pend = s.pend
        /\ u.held = s.held /\ u.inbox = s.inbox /\ u.wire = s.wire /\ u.rx = s.rx
        /\ u.have = s.have \ {c} /\ u.ring = [s.ring EXCEPT ![c] = b]
    BY <1>1, <2>1 DEF Sys
  <2>3. OnlyInput(s, u, c) /\ c \notin u.have /\ u.ring[c] = b
    BY <1>1, <2>2 DEF OnlyInput, Sys
  <2>4. /\ OnlyInput(s, t, c)
        /\ t.have = u.have /\ t.ring = u.ring /\ t.inbox = u.inbox
        /\ t.wire = u.wire /\ t.rx = u.rx
    BY <1>1, <2>3, LessHeld DEF u
  <2>5. OnlyInput(s, t, c) /\ c \notin t.have /\ t.ring[c] = b
        /\ t.inbox[c] = s.inbox[c] /\ t.wire[c] = s.wire[c] /\ t.rx[c] = s.rx[c]
    BY <2>2, <2>3, <2>4
  <2>6. /\ c \in s.have /\ n <= Len(s.ring[c]) /\ Fed(s, c)
    BY <1>1, <1>3, HdrType, LenProperties DEF AtFrame, Tidy, InputAt, Sys
  <2>7. Fed(t, c)
    BY <1>1, <2>5, <2>6, FedConsume DEF b
  <2>8. InputAt(t, c)
    BY <2>7 DEF InputAt, KeptWhole
  <2> QED  BY <1>1, <2>5, <2>8, InputTidy
<1> QED  BY <1>2, <1>3

LEMMA ConsumeTidy ==
    ASSUME NEW s, NEW c \in Conn, Good(s), Tidy(s), s.role[c] # "new",
           AtFrame(s, c), c \notin s.held
    PROVE  Tidy(Consume(s, c))
<1>1. Consume(s, c) \in Sys
  BY ConsumeCloses, GoodSys DEF Closes
<1>2. Consume(s, c).held = s.held
  BY GoodSys DEF Consume, Sys
<1> QED  BY <1>1, <1>2, TakenTidy

LEMMA ReleaseTidy ==
    ASSUME NEW s, NEW c \in Conn, Good(s), Tidy(s), c \in s.held
    PROVE  Tidy(Release(s, c))
<1>1. Release(s, c) \in Sys
  BY ReleaseCloses, GoodSys DEF Closes
<1>2. c \notin Release(s, c).held
  BY ConsumeCloses, GoodSys DEF Release, Closes, Sys
<1>3. s.role[c] # "new"
  BY DEF Tidy, Unused
<1>4. AtFrame(s, c)
  BY DEF Tidy, InputAt, KeptWhole, AtFrame
<1> QED  BY <1>1, <1>2, <1>3, <1>4, TakenTidy

LEMMA PauseTidy ==
    ASSUME NEW s \in Sys, NEW P, NEW b, Tidy(s)
    PROVE  /\ Tidy([s EXCEPT !.paused = P])
           /\ Tidy([s EXCEPT !.panic = b])
<1>1. Quiet(s, [s EXCEPT !.paused = P]) /\ Quiet(s, [s EXCEPT !.panic = b])
  BY DEF Sys, Quiet
<1> QED  BY <1>1, QuietTidy

LEMMA SendPendingTidy ==
    ASSUME NEW s, NEW down \in Conn, NEW up \in Conn, Good(s), Tidy(s),
           down \in s.held
    PROVE  Tidy(SendPending(s, down, up))
<1> DEFINE r == Flush(s, up, s.pend[down])
           t == Release(r, down)
           y == [t EXCEPT !.paused = @ \ {down}]
<1>1. Good(r) /\ Trims(s, r) /\ s \in Sys
  BY FlushCloses, FlushTrims, HdrType, GoodSys DEF Closes
<1>2. SendPending(s, down, up) \in {t, [t EXCEPT !.panic = TRUE], y}
  BY DEF SendPending
<1> HIDE DEF r
<1>3. Tidy(r) /\ down \in r.held
  BY <1>1, TrimsTidy DEF Trims
<1>4. Tidy(t) /\ t \in Sys
  BY <1>1, <1>3, ReleaseTidy, ReleaseCloses, GoodSys DEF Closes
<1> HIDE DEF t
<1>5. Tidy([t EXCEPT !.panic = TRUE]) /\ Tidy(y)
  BY <1>4, PauseTidy
<1> QED  BY <1>2, <1>4, <1>5

LEMMA ConnectFailedTidy ==
    ASSUME NEW s, NEW c \in Conn, Good(s), Live(s, c), Tidy(s)
    PROVE  Tidy(ConnectFailed(s, c))
<1> DEFINE d == s.peer[c]
           t == CloseConn(s, c)
           u == Reply(t, d, t.pend[d].id)
           v == IF d \in u.held THEN Release(u, d) ELSE u
           w == [v EXCEPT !.peer[d] = Nil]
<1>1. Good(t) /\ Tidy(t) /\ t \in Sys
  BY CloseConnCloses, CloseConnTrims, TrimsTidy, GoodSys DEF Closes
<1>2. ConnectFailed(s, c) = IF d = Nil THEN t ELSE w
  BY DEF ConnectFailed
<1> HIDE DEF t
<1>3. ASSUME d # Nil PROVE Tidy(w)
  <2>1. d \in Conn
    BY <1>3, PeerApart
  <2>2. Good(u) /\ Trims(t, u)
    BY <1>1, <2>1, HdrType, ReplyCloses, ReplyTrims DEF Closes
  <2> HIDE DEF u
  <2>3. Tidy(u) /\ u \in Sys
    BY <1>1, <2>2, TrimsTidy, GoodSys
  <2>4. Tidy(v) /\ v \in Sys
    BY <2>1, <2>2, <2>3, ReleaseTidy, ReleaseCloses, GoodSys DEF Closes
  <2> HIDE DEF v
  <2> QED  BY <2>4, PeerQuiet, QuietTidy
<1> QED  BY <1>1, <1>2, <1>3

(* Going up is what counts a connection in.                                *)
LEMMA ConnectOnlyTidy ==
    ASSUME NEW s, NEW c \in Conn, Good(s), s.role[c] = "connecting", Tidy(s),
           c \in s.rings
    PROVE  Tidy(ConnectOnly(s, c))
<1> DEFINE k == s.ep[c]
           a == [s.active EXCEPT ![k] = @ + 1]
           q == [s EXCEPT !.role[c] = "up"]
           t == [s EXCEPT !.role[c] = "up", !.active = a]
<1>1. s \in Sys /\ a \in [EP -> Int]
  <2>1. s \in Sys
    BY GoodSys
  <2>2. s.active \in [EP -> Int]
    BY <2>1 DEF Sys
  <2> QED  BY <2>1, <2>2, CountType
<1>2. ConnectOnly(s, c) = Mod(t, c, {"R", "W"})
  BY DEF ConnectOnly
<1> HIDE DEF a
<1>3. /\ t.role = [s.role EXCEPT ![c] = "up"] /\ t.active = a
      /\ t.ep = s.ep /\ t.rings = s.rings /\ t.ring = s.ring
      /\ t.inbox = s.inbox /\ t.wire = s.wire /\ t.rx = s.rx /\ t.hdr = s.hdr
      /\ t.have = s.have /\ t.pend = s.pend /\ t.held = s.held
  BY <1>1 DEF Sys
<1>4. t \in Sys
  <2>1. q \in Sys
    BY <1>1 DEF Sys, Roles
  <2>2. t = [q EXCEPT !.active = a]
    BY <1>1 DEF Sys
  <2> HIDE DEF q, t
  <2> QED  BY <1>1, <2>1, <2>2 DEF Sys
<1> HIDE DEF t
<1>5. /\ t.role[c] = "up" /\ \A x \in Conn : x # c => t.role[x] = s.role[x]
  BY <1>1, <1>3 DEF Sys
<1>6. Endpoints(t) /\ Unused(t)
  BY <1>3, <1>5 DEF Tidy, Endpoints, IsUp, Unused
<1>7. k \in EP
  BY <1>1 DEF Tidy, Endpoints, IsUp, Sys
<1>8. Counted(t)
  <2> SUFFICES ASSUME NEW e \in EP PROVE t.active[e] = Cardinality(Ups(t, e))
    BY DEF Counted
  <2>1. Ups(t, e) = IF e = k THEN Ups(s, e) \cup {c} ELSE Ups(s, e)
    BY <1>3, <1>5 DEF Ups
  <2>2. c \notin Ups(s, e)
    BY DEF Ups
  <2>3. s.active[e] = Cardinality(Ups(s, e)) /\ IsFiniteSet(Ups(s, e))
    BY UpsFinite DEF Tidy, Counted, Good
  <2>4. Cardinality(Ups(s, e) \cup {c}) = s.active[e] + 1
    BY <2>2, <2>3, FS_AddElement
  <2>5. t.active[e] = IF e = k THEN s.active[e] + 1 ELSE s.active[e]
    BY <1>1, <1>3 DEF a, Sys
  <2> QED  BY <2>1, <2>3, <2>4, <2>5
<1>9. ASSUME NEW x \in t.rings PROVE InputAt(t, x)
  BY <1>3 DEF Tidy, InputAt, Fed, StreamOf, HeadOf, KeptWhole
<1>10. Tidy(t)
  BY <1>6, <1>8, <1>9 DEF Tidy
<1> QED  BY <1>2, <1>4, <1>10, ModQuiet, QuietTidy

LEMMA FinishConnectTidy ==
    ASSUME NEW s, NEW c \in Conn, Good(s), Live(s, c), s.role[c] = "connecting",
           Tidy(s)
    PROVE  Tidy(FinishConnect(s, c))
<1> DEFINE d == s.peer[c]
           t == ConnectOnly(s, c)
<1>1. Tidy(ConnectFailed(s, c))
  BY ConnectFailedTidy
<1>2. Tidy(t) /\ Good(t)
  BY ConnectOnlyTidy, ConnectOnlyGood DEF Good, Sound, RingsLive
<1>3. ConnectMade(s, c) = IF d # Nil /\ d \in t.held
                          THEN SendPending(t, d, c) ELSE t
  BY DEF ConnectMade
<1> HIDE DEF t
<1>4. d # Nil /\ d \in t.held => Tidy(SendPending(t, d, c))
  BY <1>2, PeerApart, SendPendingTidy
<1> QED  BY <1>1, <1>2, <1>3, <1>4 DEF FinishConnect

(* The frame the parser stands at is kept for later.                       *)
LEMMA HoldTidy ==
    ASSUME NEW s, NEW c \in Conn, Good(s), Tidy(s), s.role[c] # "new",
           AtFrame(s, c)
    PROVE  Tidy(Hold(s, c, s.hdr[c]))
<1> DEFINE t == Hold(s, c, s.hdr[c])
<1>1. /\ s \in Sys /\ t.rings = s.rings /\ t.role = s.role /\ t.ep = s.ep
      /\ t.active = s.active /\ t.ring = s.ring /\ t.inbox = s.inbox
      /\ t.wire = s.wire /\ t.rx = s.rx /\ t.hdr = s.hdr /\ t.have = s.have
      /\ t.held = s.held \cup {c} /\ t.pend = [s.pend EXCEPT ![c] = s.hdr[c]]
  BY GoodSys DEF Hold, Sys
<1> HIDE DEF t
<1>2. t.pend[c] = s.hdr[c] /\ \A x \in Conn : x # c => t.pend[x] = s.pend[x]
  BY <1>1 DEF Sys
<1>3. OnlyInput(s, t, c)
  BY <1>1, <1>2 DEF OnlyInput
<1>4. ASSUME c \in s.rings PROVE InputAt(t, c)
  <2>1. Fed(t, c)
    BY <1>1, <1>4 DEF Tidy, InputAt, Fed, StreamOf, HeadOf
  <2>2. KeptWhole(t, c)
    BY <1>1, <1>2, <1>4 DEF AtFrame, KeptWhole
  <2> QED  BY <2>1, <2>2 DEF InputAt
<1> QED  BY <1>1, <1>3, <1>4, InputTidy DEF t

LEMMA OnPooledTidy ==
    ASSUME NEW s, NEW c \in Conn, Good(s), Tidy(s), s.peer[c] # Nil, AtFrame(s, c)
    PROVE  Tidy(OnPooled(s, c, s.hdr[c]))
<1> DEFINE h == s.hdr[c]
           t == Hold(s, c, h)
<1>1. s.peer[c] \in Conn /\ s.role[c] # "new" /\ h \in Frame
  BY PeerApart, HdrType, GoodSys DEF Good, Sound, Blank
<1>2. Tidy(t) /\ Good(t)
  BY <1>1, HoldTidy, HoldCloses DEF Closes
<1>4. c \in t.held
  BY GoodSys DEF Hold, Sys
<1>3. OnPooled(s, c, h) = SendPending(t, c, s.peer[c])
  BY DEF OnPooled, Upstream
<1> HIDE DEF t
<1> QED  BY <1>1, <1>2, <1>3, <1>4, SendPendingTidy

LEMMA OnNoDialTidy ==
    ASSUME NEW s, NEW c \in Conn, NEW h \in Frame, Good(s), Tidy(s),
           s.role[c] # "new", AtFrame(s, c), c \notin s.held
    PROVE  Tidy(OnNoDial(s, c, h))
<1> DEFINE t == Reply(s, c, h.id)
<1>1. Good(t) /\ Trims(s, t) /\ s \in Sys
  BY ReplyCloses, ReplyTrims, GoodSys DEF Closes, Frame
<1> HIDE DEF t
<1>2. Tidy(t) /\ AtFrame(t, c) /\ t.role = s.role /\ t.held = s.held
  BY <1>1, TrimsTidy, TrimsAtFrame DEF Trims
<1>3. Tidy(Consume(t, c))
  BY <1>1, <1>2, ConsumeTidy
<1> QED  BY <1>3 DEF OnNoDial, t

LEMMA OnUpTidy ==
    ASSUME NEW s, NEW c \in Conn, NEW h \in Frame, Good(s), Tidy(s),
           s.role[c] # "new", AtFrame(s, c), c \notin s.held
    PROVE  Tidy(OnUp(s, c, h))
<1> DEFINE p == s.peer[c]
           t == Flush(s, p, h)
<1>1. CASE p = Nil
  BY <1>1, ConsumeTidy DEF OnUp
<1>2. CASE p # Nil
  <2>1. Good(t) /\ Trims(s, t) /\ s \in Sys
    BY <1>2, PeerApart, FlushCloses, FlushTrims, GoodSys DEF Closes
  <2>2. OnUp(s, c, h) = Consume(t, c)
    BY <1>2 DEF OnUp
  <2> HIDE DEF t
  <2>3. Tidy(t) /\ AtFrame(t, c) /\ t.role = s.role /\ t.held = s.held
    BY <2>1, TrimsTidy, TrimsAtFrame DEF Trims
  <2> QED  BY <2>1, <2>2, <2>3, ConsumeTidy
<1> QED  BY <1>1, <1>2

(* A new connection has no input yet, and counts if it is up at once.      *)
LEMMA AdoptTidy ==
    ASSUME NEW s, NEW n \in Conn, NEW f \in FD, NEW e \in EP \cup {Nil},
           NEW role \in {"down", "up", "connecting"}, NEW tx \in {"open", "syn"},
           Good(s), s.role[n] = "new", e = Nil <=> role = "down", Tidy(s)
    PROVE  LET t == Adopt(s, n, f, role, e, tx)
           IN  /\ Tidy(t)
               /\ \A x \in Conn : x # n /\ AtFrame(s, x) => AtFrame(t, x)
               /\ t.hdr = s.hdr
<1> DEFINE t == Adopt(s, n, f, role, e, tx)
<1>1. s \in Sys
  BY GoodSys
<1>2. PICK y \in Sys : t = Arm(y, n) /\ Makes(s, y, n, f, e, role, tx)
  BY <1>1, AdoptMakes
<1> HIDE DEF t
<1>3. /\ y.role[n] = role /\ \A x \in Conn : x # n => y.role[x] = s.role[x]
      /\ y.ep[n] = e /\ \A x \in Conn : x # n => y.ep[x] = s.ep[x]
      /\ y.rings = s.rings \cup {n}
      /\ y.active = IF role = "up" THEN [s.active EXCEPT ![e] = @ + 1] ELSE s.active
      /\ y.ring = s.ring /\ y.hdr = s.hdr /\ y.have = s.have /\ y.pend = s.pend
      /\ y.held = s.held /\ y.inbox = s.inbox /\ y.wire = s.wire /\ y.rx = s.rx
  BY <1>1, <1>2 DEF Makes, Sys
<1>4. /\ n \notin s.rings /\ s.ring[n] = <<>> /\ s.inbox[n] = <<>>
      /\ s.wire[n] = <<>> /\ n \notin s.have /\ n \notin s.held
  BY DEF Good, Sound, Blank, Tidy, Unused
<1>5. Endpoints(y) /\ Unused(y)
  BY <1>3 DEF Tidy, Endpoints, IsUp, Unused
<1>6. Counted(y)
  <2> SUFFICES ASSUME NEW k \in EP PROVE y.active[k] = Cardinality(Ups(y, k))
    BY DEF Counted
  <2>1. Ups(y, k) = IF role = "up" /\ k = e THEN Ups(s, k) \cup {n} ELSE Ups(s, k)
    BY <1>3, <1>4 DEF Ups
  <2>2. n \notin Ups(s, k)
    BY <1>4 DEF Ups
  <2>3. s.active[k] = Cardinality(Ups(s, k)) /\ IsFiniteSet(Ups(s, k))
    BY UpsFinite DEF Tidy, Counted, Good
  <2>4. Cardinality(Ups(s, k) \cup {n}) = s.active[k] + 1
    BY <2>2, <2>3, FS_AddElement
  <2>5. y.active[k] = IF role = "up" /\ k = e THEN s.active[k] + 1 ELSE s.active[k]
    BY <1>1, <1>3 DEF Sys
  <2> QED  BY <2>1, <2>3, <2>4, <2>5
<1>7. ASSUME NEW x \in y.rings PROVE InputAt(y, x)
  <2>1. CASE x # n
    BY <1>3, <2>1 DEF Tidy, InputAt, Fed, StreamOf, HeadOf, KeptWhole
  <2>2. CASE x = n
    <3>1. StreamOf(y, n) = ((<<>> \o <<>>) \o <<>>) \o <<>>
      BY <1>3, <1>4 DEF StreamOf, HeadOf
    <3>2. <<>> \o <<>> = <<>> /\ <<>> \in Seq(Cell) /\ Len(<<>>) = 0
      BY EmptySeq, ConcatEmptySeq
    <3>3. StreamOf(y, n) = <<>>
      BY <3>1, <3>2
    <3>4. Framing(<<>>) /\ EndsWhole(<<>>)
      BY <3>2 DEF Framing, EndsWhole
    <3> QED  BY <1>3, <1>4, <2>2, <3>3, <3>4 DEF InputAt, Fed, KeptWhole
  <2> QED  BY <2>1, <2>2
<1>8. Tidy(y)
  BY <1>5, <1>6, <1>7 DEF Tidy
<1>9. Quiet(y, t) /\ Tidy(t)
  BY <1>2, <1>8, ArmQuiet, QuietTidy
<1>10. t.hdr = s.hdr /\ t.ring = s.ring /\ t.have = s.have /\ t.rings = s.rings \cup {n}
  BY <1>3, <1>9 DEF Quiet
<1> QED  BY <1>9, <1>10 DEF AtFrame, t

LEMMA OnDialledTidy ==
    ASSUME NEW s, NEW c \in Conn, NEW e \in EP, NEW n \in Conn, NEW f \in FD,
           NEW how, Good(s), Tidy(s), s.role[c] = "down", s.peer[c] = Nil,
           s.role[n] = "new", s.tab[f] = Nil, AtFrame(s, c)
    PROVE  Tidy(OnDialled(s, c, s.hdr[c], e, n, f, how))
<1> DEFINE h == s.hdr[c]
           sock == IF how = "instant" THEN "open" ELSE "syn"
           kind == DialRole(how)
           t == Adopt(s, n, f, kind, e, sock)
           l == [t EXCEPT !.peer[n] = c, !.peer[c] = n]
           u == Hold(l, c, h)
<1>1. /\ sock \in {"open", "syn"} /\ kind \in {"down", "up", "connecting"}
      /\ kind # "down" /\ e \in EP \cup {Nil} /\ e # Nil
  BY ReactorAssumption DEF DialRole
<1>2. OnDialled(s, c, h, e, n, f, how) =
          IF kind = "up" THEN SendPending(u, c, n) ELSE u
  BY DEF OnDialled
<1> HIDE DEF sock, kind
<1>3. Adopted(s, t, n, kind)
  BY <1>1, AdoptGood
<1>4. /\ Tidy(t) /\ t.hdr = s.hdr
      /\ \A x \in Conn : x # n /\ AtFrame(s, x) => AtFrame(t, x)
  BY <1>1, AdoptTidy
<1> HIDE DEF t
<1>5. /\ IsUp(t, n) /\ t.role[c] = "down" /\ n # c
      /\ t.peer[n] = Nil /\ t.peer[c] = Nil /\ t \in Sys
  <2>1. s.role \in [Conn -> Roles] /\ s.peer[n] = Nil /\ n # c
    BY DEF Good, Sound, Sys, Blank
  <2> QED  BY <1>1, <1>3, <2>1, GoodSys DEF IsUp, Adopted
<1>6. Good(l)
  BY <1>3, <1>5, LinkGood DEF Adopted
<1>7. Quiet(t, l) /\ Tidy(l)
  <2>1. Quiet(t, l)
    BY <1>5 DEF Quiet, Sys
  <2> HIDE DEF l
  <2> QED  BY <1>4, <1>5, <2>1, QuietTidy
<1> HIDE DEF l
<1>8. AtFrame(l, c) /\ l.role[c] = "down" /\ h = l.hdr[c]
  BY <1>4, <1>5, <1>7 DEF Quiet, AtFrame
<1> HIDE DEF h
<1>9. Good(u) /\ Tidy(u) /\ c \in u.held
  <2>1. h \in Frame /\ l \in Sys
    BY <1>6, <1>8, HdrType, GoodSys
  <2>2. Good(u)
    BY <1>6, <2>1, HoldCloses DEF Closes
  <2>3. Tidy(u)
    BY <1>6, <1>7, <1>8, HoldTidy
  <2>4. c \in u.held
    BY <2>1 DEF Hold, Sys
  <2> QED  BY <2>2, <2>3, <2>4
<1> HIDE DEF u
<1> QED  BY <1>2, <1>9, SendPendingTidy DEF h

LEMMA TakeHdrTidy ==
    ASSUME NEW s, NEW c \in Conn, Good(s), Tidy(s), c \in s.rings, c \notin s.held,
           c \in s.have \/ s.ring[c] # <<>>
    PROVE  LET t == TakeHdr(s, c)
           IN  Tidy(t) /\ c \in t.have /\ t.held = s.held /\ t.rings = s.rings
<1>1. s \in Sys /\ s.role[c] # "new"
  BY GoodSys DEF Good, Sound, Blank
<1>2. CASE c \in s.have
  BY <1>2 DEF TakeHdr
<1>3. CASE c \notin s.have
  <2> DEFINE g == s.ring[c][1][1]
             r == Tail(s.ring[c])
             t == [s EXCEPT !.hdr[c] = g, !.have = @ \cup {c}, !.ring[c] = r]
  <2>1. TakeHdr(s, c) = t
    BY <1>3 DEF TakeHdr
  <2>2. t \in Sys
    BY <1>3, <2>1, TakeHdrCloses, GoodSys DEF Closes
  <2> HIDE DEF g, r
  <2>3. /\ t.rings = s.rings /\ t.role = s.role /\ t.ep = s.ep
        /\ t.active = s.active /\ t.inbox = s.inbox /\ t.wire = s.wire
        /\ t.rx = s.rx /\ t.pend = s.pend /\ t.held = s.held
        /\ t.have = s.have \cup {c} /\ t.ring = [s.ring EXCEPT ![c] = r]
        /\ t.hdr = [s.hdr EXCEPT ![c] = g]
    BY <1>1 DEF Sys
  <2> HIDE DEF t
  <2>4. t.ring[c] = r /\ t.hdr[c] = g /\ OnlyInput(s, t, c)
    BY <1>1, <2>3 DEF OnlyInput, Sys
  <2>5. Fed(t, c)
    BY <1>1, <1>3, <2>2, <2>3, <2>4, FedTake DEF Tidy, InputAt, g, r
  <2>6. InputAt(t, c)
    BY <2>3, <2>5 DEF InputAt, KeptWhole
  <2> QED  BY <1>1, <2>1, <2>3, <2>4, <2>6, InputTidy
<1> QED  BY <1>2, <1>3

----------------------------------------------------------------------------
(* The steps of the goroutine.                                             *)

(* A step of the goroutine leads to what its handler made, or panics.      *)
Leads(t) == sys' = t \/ sys' = [sys EXCEPT !.panic = TRUE]

LEMMA GotoLeads ==
    ASSUME NEW t, NEW p, NEW c, NEW r,
           Then(t, p, c, r) \/ Goto(t, p) \/ ThenResume(t, p)
    PROVE  Leads(t)
BY DEF Then, Goto, ThenResume, Leads

LEMMA LeadsTidy ==
    ASSUME NEW t, sys \in Sys, Tidy(sys), Tidy(t), Leads(t)
    PROVE  Tidy(sys')
BY PauseTidy DEF Leads

LEMMA WaitTidy == IInv /\ Tidy(sys) /\ Wait => Tidy(sys')
<1> SUFFICES ASSUME IInv, Tidy(sys), Wait PROVE Tidy(sys')
  OBVIOUS
<1>1. sys \in Sys /\ sys' = [sys EXCEPT !.armed = {}]
  BY GoodSys DEF IInv, Wait
<1>2. Quiet(sys, [sys EXCEPT !.armed = {}])
  BY <1>1 DEF Quiet, Sys
<1> QED  BY <1>1, <1>2, QuietTidy

LEMMA HandleTidy == IInv /\ Tidy(sys) /\ Handle => Tidy(sys')
<1> SUFFICES ASSUME IInv, Tidy(sys), Handle PROVE Tidy(sys')
  OBVIOUS
<1> DEFINE f    == Head(batch)[1]
           bits == Head(batch)[2]
           c    == IF f = Nil THEN Nil ELSE sys.tab[f]
<1>1. Good(sys) /\ sys \in Sys
  BY GoodSys DEF IInv
<1>2. c # Nil => c \in Conn /\ Live(sys, c)
  BY HandledLive DEF Handle
<1>3. \/ HandleStale(f) \/ HandleListen(f)
      \/ HandleConnect(c, bits) \/ HandleIO(c, bits)
  BY DEF Handle
<1> HIDE DEF f, bits, c
<1>4. CASE HandleStale(f) \/ HandleListen(f)
  BY <1>1, <1>4, GotoLeads, LeadsTidy DEF HandleStale, HandleListen
<1>5. CASE HandleConnect(c, bits)
  <2>1. Tidy(FinishConnect(sys, c))
    BY <1>1, <1>2, <1>5, FinishConnectTidy DEF HandleConnect, Connects
  <2> QED  BY <1>1, <1>5, <2>1, GotoLeads, LeadsTidy DEF HandleConnect
<1>6. CASE HandleIO(c, bits)
  <2> DEFINE t == IF "W" \in bits THEN FlushRemain(sys, c) ELSE sys
             u == CloseConn(sys, c)
  <2>1. c \in Conn
    BY <1>2, <1>6 DEF HandleIO
  <2>2. Tidy(u) /\ Tidy(t)
    BY <1>1, <2>1, CloseConnTrims, FlushRemainTrims, TrimsTidy
  <2>3. Goto(u, "loop") \/ Then(t, "read", c, "loop") \/ Goto(t, "loop")
    BY <1>6 DEF HandleIO
  <2> HIDE DEF t, u
  <2>4. Leads(t) \/ Leads(u)
    BY <2>3, GotoLeads
  <2> QED  BY <1>1, <2>2, <2>4, LeadsTidy
<1> QED  BY <1>3, <1>4, <1>5, <1>6

LEMMA AcceptTidy ==
    IInv /\ Tidy(sys) /\ (Accept \/ AcceptDrops \/ AcceptAgain \/ AcceptFails) => Tidy(sys')
<1> SUFFICES ASSUME IInv, Tidy(sys), Accept \/ AcceptDrops \/ AcceptAgain \/ AcceptFails
             PROVE  Tidy(sys')
  OBVIOUS
<1>1. Good(sys) /\ sys \in Sys
  BY GoodSys DEF IInv
<1>2. CASE Accept
  <2> DEFINE c == Fresh(sys)
             f == FreeFD(sys)
             t == Adopt(sys, c, f, "down", Nil, "open")
  <2>1. /\ c \in Conn /\ sys.role[c] = "new" /\ f \in FD /\ sys.tab[f] = Nil
    BY <1>1, <1>2, FreshType DEF Accept, AcceptThen
  <2>2. Leads(t)
    BY <1>2, GotoLeads DEF Accept, AcceptThen
  <2> HIDE DEF c, f
  <2>3. Tidy(t)
    BY <1>1, <2>1, AdoptTidy
  <2> HIDE DEF t
  <2> QED  BY <1>1, <2>2, <2>3, LeadsTidy
<1>3. CASE AcceptDrops \/ AcceptAgain \/ AcceptFails
  BY <1>1, <1>3, GotoLeads, LeadsTidy DEF AcceptDrops, AcceptAgain, AcceptFails
<1> QED  BY <1>2, <1>3

LEMMA ReadTidy == IInv /\ Tidy(sys) /\ Read => Tidy(sys')
<1> SUFFICES ASSUME IInv, Tidy(sys), Read PROVE Tidy(sys')
  OBVIOUS
<1>1. Good(sys) /\ sys \in Sys /\ cur \in Conn
  BY GoodSys DEF IInv, Read, ReadGone, ReadPauses, ReadReturns, ReadCloses,
                 ReadSome, Reading, At, LoopsOK
<1>2. CASE ReadGone \/ ReadReturns
  BY <1>1, <1>2, GotoLeads, LeadsTidy DEF ReadGone, ReadReturns
<1>3. CASE ReadPauses
  <2> DEFINE P == sys.paused \cup {cur}
  <2>1. Leads([sys EXCEPT !.paused = P])
    BY <1>3, GotoLeads DEF ReadPauses
  <2> QED  BY <1>1, <2>1, PauseTidy, LeadsTidy
<1>4. CASE ReadCloses
  BY <1>1, <1>4, GotoLeads, CloseConnTrims, TrimsTidy, LeadsTidy DEF ReadCloses
<1>5. CASE ReadSome
  <2> DEFINE in == sys.inbox[cur]
             q  == sys.ring[cur]
  <2>1. PICK n \in 1 .. Free(sys, cur) :
           /\ n <= Len(in) /\ cur \in sys.rings
           /\ Goto([sys EXCEPT !.ring[cur] = q \o SubSeq(in, 1, n),
                               !.inbox[cur] = SubSeq(in, n + 1, Len(in))], "parse")
    BY <1>5 DEF ReadSome
  <2> DEFINE r == q \o SubSeq(in, 1, n)
             w == SubSeq(in, n + 1, Len(in))
             t == [sys EXCEPT !.ring[cur] = r, !.inbox[cur] = w]
  <2>2. in \in Seq(Cell) /\ q \in Seq(Cell) /\ Len(q) \in Nat /\ Len(in) \in Nat
    BY <1>1, LenProperties DEF Sys
  <2>3. n \in 1 .. Len(in) /\ n \in Nat
    BY <2>1, <2>2
  <2>4. SubSeq(in, 1, n) \in Seq(Cell)
    BY <2>2, <2>3, SubSeqProperties
  <2>5. r \in Seq(Cell) /\ w \in Seq(Cell) /\ Len(r) >= Len(q)
    BY <2>2, <2>3, <2>4, ConcatProperties, LenProperties, DropPrefix
  <2>6. Leads(t)
    BY <2>1, GotoLeads
  <2>7. \E k \in 1 .. Len(in) : r = q \o SubSeq(in, 1, k)
                                /\ w = SubSeq(in, k + 1, Len(in))
    BY <2>3
  <2> HIDE DEF r, w
  <2>8. t \in Sys
    BY <1>1, <2>5 DEF Sys
  <2>9. /\ t.rings = sys.rings /\ t.role = sys.role /\ t.ep = sys.ep
        /\ t.active = sys.active /\ t.wire = sys.wire /\ t.rx = sys.rx
        /\ t.hdr = sys.hdr /\ t.have = sys.have /\ t.pend = sys.pend
        /\ t.held = sys.held /\ t.ring = [sys.ring EXCEPT ![cur] = r]
        /\ t.inbox = [sys.inbox EXCEPT ![cur] = w]
    BY <1>1 DEF Sys
  <2> HIDE DEF t
  <2>10. t.ring[cur] = r /\ t.inbox[cur] = w /\ OnlyInput(sys, t, cur)
    BY <1>1, <2>9 DEF OnlyInput, Sys
  <2>11. Fed(sys, cur) /\ KeptWhole(sys, cur)
    BY <2>1 DEF Tidy, InputAt
  <2>12. Fed(t, cur)
    <3>1. HeadOf(t, cur) = HeadOf(sys, cur) /\ t.rx[cur] = sys.rx[cur]
      BY <2>9 DEF HeadOf
    <3> QED  BY <1>1, <2>7, <2>8, <2>9, <2>10, <2>11, <3>1, FedMove
  <2>13. KeptWhole(t, cur)
    <3>1. sys.hdr[cur].len \in Nat /\ Len(r) \in Nat
      BY <1>1, <2>5, HdrType, LenProperties
    <3> QED  BY <2>2, <2>5, <2>9, <2>10, <2>11, <3>1 DEF KeptWhole
  <2>14. Tidy(t)
    BY <1>1, <2>1, <2>10, <2>12, <2>13, InputTidy DEF InputAt, Good, Sound, Blank
  <2> QED  BY <1>1, <2>6, <2>14, LeadsTidy
<1> QED  BY <1>2, <1>3, <1>4, <1>5 DEF Read

LEMMA ParseTidy == IInv /\ Tidy(sys) /\ Parse => Tidy(sys')
<1> SUFFICES ASSUME IInv, Tidy(sys), Parse PROVE Tidy(sys')
  OBVIOUS
<1>1. Good(sys) /\ sys \in Sys /\ cur \in Conn
  BY GoodSys DEF IInv, Parse, ParseEnds, ParsePanics, ParseRejects, ParseWaits,
                 CanParse, Parsing, At, LoopsOK
<1>2. CASE ParseEnds
  BY <1>1, <1>2, GotoLeads, LeadsTidy DEF ParseEnds
<1>3. CASE ParsePanics
  BY <1>1, <1>3, GotoLeads, PauseTidy, LeadsTidy DEF ParsePanics
<1>4. CASE ParseRejects
  <2> DEFINE t == IF sys.role[cur] = "down" THEN Reply(sys, cur, 0) ELSE sys
             u == CloseConn(t, cur)
  <2>1. Leads(u)
    BY <1>4, GotoLeads DEF ParseRejects
  <2>2. 0 \in 0 .. MaxReq
    BY ReactorAssumption
  <2>3. Good(t) /\ Tidy(t)
    BY <1>1, <2>2, ReplyCloses, ReplyTrims, TrimsTidy DEF Closes
  <2> HIDE DEF t
  <2>4. Tidy(u)
    BY <1>1, <2>3, CloseConnTrims, TrimsTidy, GoodSys
  <2> HIDE DEF u
  <2> QED  BY <1>1, <2>1, <2>4, LeadsTidy
<1>5. CASE ParseWaits
  BY <1>1, <1>5, TakeHdrTidy, GotoLeads, LeadsTidy DEF ParseWaits, CanParse
<1> QED  BY <1>2, <1>3, <1>4, <1>5 DEF Parse

(* dispatch of the complete frame in t at which cur's parser stands.       *)
LEMMA DownTidy ==
    ASSUME NEW t, IInv, Tidy(sys), cur \in Conn, Closes(sys, t), Tidy(t),
           t.role[cur] = "down", AtFrame(t, cur), cur \notin t.held,
           LET h == t.hdr[cur]
           IN  \/ DownPing(t, h) \/ DownClose(t, h) \/ DownError(t, h)
               \/ DownRefused(t, h) \/ DownPooled(t, h)
               \/ DownUndialled(t, h) \/ DownDialled(t, h)
    PROVE  Tidy(sys')
<1> DEFINE h == t.hdr[cur]
<1>1. /\ Good(t) /\ t \in Sys /\ sys \in Sys /\ h \in Frame /\ t.role[cur] # "new"
  BY GoodSys, HdrType DEF IInv, Closes
<1>2. ASSUME NEW u, Tidy(u), Leads(u) PROVE Tidy(sys')
  BY <1>1, <1>2, LeadsTidy
<1>a. ASSUME NEW u, Good(u), Trims(t, u), Leads(Consume(u, cur)) PROVE Tidy(sys')
  <2>1. /\ Tidy(u) /\ AtFrame(u, cur) /\ cur \notin u.held /\ u.role[cur] # "new"
    BY <1>1, <1>a, TrimsTidy, TrimsAtFrame DEF Trims
  <2> QED  BY <1>2, <1>a, <2>1, ConsumeTidy
<1>3. CASE DownPing(t, h)
  <2> DEFINE u == Flush(t, cur, Pong(h))
  <2>1. Good(u) /\ Trims(t, u)
    BY <1>1, MadeFrames, FlushCloses, FlushTrims DEF Closes
  <2>2. Leads(Consume(u, cur))
    BY <1>3, GotoLeads DEF DownPing
  <2> HIDE DEF u
  <2> QED  BY <1>a, <2>1, <2>2
<1>4. CASE DownClose(t, h)
  <2> DEFINE u == Consume(t, cur)
  <2>1. Good(u) /\ Tidy(u)
    BY <1>1, ConsumeCloses, ConsumeTidy DEF Closes
  <2>2. Leads(CloseConn(u, cur))
    BY <1>4, GotoLeads DEF DownClose
  <2> HIDE DEF u
  <2>3. Tidy(CloseConn(u, cur))
    BY <2>1, CloseConnTrims, TrimsTidy, GoodSys
  <2> QED  BY <1>2, <2>2, <2>3
<1>5. CASE DownError(t, h)
  BY <1>1, <1>2, <1>5, ConsumeTidy, GotoLeads DEF DownError
<1>6. CASE DownRefused(t, h)
  BY <1>1, <1>2, <1>6, OnNoDialTidy, GotoLeads DEF DownRefused
<1>7. CASE DownPooled(t, h)
  <2>1. t.peer[cur] # Nil
    BY <1>7 DEF DownPooled, Reuses, Upstream
  <2>2. Tidy(OnPooled(t, cur, h))
    BY <1>1, <2>1, OnPooledTidy
  <2>3. Leads(OnPooled(t, cur, h))
    BY <1>7, GotoLeads DEF DownPooled
  <2> QED  BY <1>2, <2>2, <2>3
<1> DEFINE u == Reselect(t, cur)
<1>8. /\ Good(u) /\ Tidy(u) /\ u.peer[cur] = Nil /\ u.role = t.role
      /\ AtFrame(u, cur) /\ cur \notin u.held /\ h = u.hdr[cur]
  <2>1. Closes(t, u) /\ u.peer[cur] = Nil /\ Trims(t, u)
    BY <1>1, ReselectCloses, ReselectTrims
  <2> QED  BY <1>1, <2>1, TrimsTidy, TrimsAtFrame DEF Trims, Closes
<1>9. CASE DownUndialled(t, h)
  <2>1. Leads(OnNoDial(u, cur, h))
    BY <1>9, GotoLeads DEF DownUndialled
  <2> HIDE DEF u
  <2>2. Tidy(OnNoDial(u, cur, h))
    BY <1>1, <1>8, OnNoDialTidy
  <2> QED  BY <1>2, <2>1, <2>2
<1>10. CASE DownDialled(t, h)
  <2> DEFINE n == Fresh(t)
             f == FreeFD(u)
  <2>1. PICK e \in EP, how \in {"progress"} \cup ({"instant"} \cap Faults) :
           /\ FreeFDs(u) # {}
           /\ ThenResume(OnDialled(u, cur, h, e, n, f, how), "parse")
    <3>1. eligible \subseteq EP
      BY DEF IInv, EnvOK
    <3> QED  BY <1>10, <3>1 DEF DownDialled
  <2>2. n \in Conn /\ u.role[n] = "new"
    BY <1>1, <1>8, <1>10, FreshType DEF DownDialled
  <2>3. f \in FD /\ u.tab[f] = Nil
    BY <1>8, <2>1, FreshType
  <2> HIDE DEF u, n, f
  <2>4. Tidy(OnDialled(u, cur, h, e, n, f, how))
    BY <1>8, <2>2, <2>3, OnDialledTidy
  <2>5. Leads(OnDialled(u, cur, h, e, n, f, how))
    BY <2>1, GotoLeads
  <2> QED  BY <1>2, <2>4, <2>5
<1> QED  BY <1>3, <1>4, <1>5, <1>6, <1>7, <1>9, <1>10

LEMMA DispatchTidy == IInv /\ Tidy(sys) /\ Dispatch => Tidy(sys')
<1> SUFFICES ASSUME IInv, Tidy(sys), Dispatch PROVE Tidy(sys')
  OBVIOUS
<1> DEFINE t == TakeHdr(sys, cur)
           h == t.hdr[cur]
<1>1. Good(sys) /\ sys \in Sys /\ cur \in Conn /\ cur \notin sys.held
      /\ cur \in sys.rings /\ (cur \in sys.have \/ sys.ring[cur] # <<>>)
  BY GoodSys DEF IInv, Dispatch, CanParse, Parsing, At, LoopsOK
<1>2. Closes(sys, t)
  BY <1>1, TakeHdrCloses
<1>3. Tidy(t) /\ cur \in t.have /\ t.held = sys.held
  BY <1>1, TakeHdrTidy
<1>4. AtFrame(t, cur)
  BY <1>3 DEF Dispatch, Complete, Used, AtFrame
<1>5. /\ sys.role[cur] = "down" =>
            \/ DownPing(t, h) \/ DownClose(t, h) \/ DownError(t, h)
            \/ DownRefused(t, h) \/ DownPooled(t, h)
            \/ DownUndialled(t, h) \/ DownDialled(t, h)
      /\ sys.role[cur] # "down" =>
            Goto(OnUp(t, cur, h), "parse") \/ Goto(Consume(t, cur), "parse")
  BY DEF Dispatch
<1> HIDE DEF t
<1>6. /\ h \in Frame /\ Good(t) /\ t.role = sys.role /\ t.role[cur] # "new"
      /\ cur \notin t.held
  BY <1>1, <1>2, <1>3, HdrType, GoodSys DEF Closes, Good, Sound, Blank
<1>7. CASE sys.role[cur] = "down"
  BY <1>1, <1>2, <1>3, <1>4, <1>5, <1>6, <1>7, DownTidy
<1>8. CASE sys.role[cur] # "down"
  <2>1. Tidy(OnUp(t, cur, h)) /\ Tidy(Consume(t, cur))
    BY <1>1, <1>3, <1>4, <1>6, OnUpTidy, ConsumeTidy
  <2>2. Leads(OnUp(t, cur, h)) \/ Leads(Consume(t, cur))
    BY <1>5, <1>8, GotoLeads
  <2> QED  BY <1>1, <2>1, <2>2, LeadsTidy
<1> QED  BY <1>7, <1>8

LEMMA EndingTidy == IInv /\ Tidy(sys) /\ Ending => Tidy(sys')
<1> SUFFICES ASSUME IInv, Tidy(sys), Ending PROVE Tidy(sys')
  OBVIOUS
<1>1. Good(sys) /\ sys \in Sys
  BY GoodSys DEF IInv
<1>2. \A c \in Conn : Tidy(CloseConn(sys, c))
  BY <1>1, CloseConnTrims, TrimsTidy
<1>3. \/ Leads(sys)
      \/ \E c \in Conn : Leads(CloseConn(sys, c))
  BY GotoLeads DEF Ending, SweepIdle, Stop, ShutdownOne, ShutdownEnds
<1> QED  BY <1>1, <1>2, <1>3, LeadsTidy

----------------------------------------------------------------------------
(* The steps of the kernel and the far ends.                               *)

(* Only what the socket of c holds, and which way it is open, changes.     *)
AtSocket(s, t, c) ==
    /\ t.rings = s.rings /\ t.role = s.role /\ t.ep = s.ep /\ t.active = s.active
    /\ t.have = s.have /\ t.held = s.held /\ t.hdr = s.hdr /\ t.pend = s.pend
    /\ t.ring = s.ring
    /\ \A x \in Conn : x # c =>
          t.inbox[x] = s.inbox[x] /\ t.wire[x] = s.wire[x] /\ t.rx[x] = s.rx[x]

LEMMA SocketTidy ==
    ASSUME NEW s, NEW c \in Conn, NEW t \in Sys, Good(s), Tidy(s), Live(s, c),
           AtSocket(s, t, c), Fed(s, c) => Fed(t, c)
    PROVE  Tidy(t) /\ Tidy(Arm(t, c))
<1>1. s \in Sys /\ c \in s.rings /\ s.role[c] # "new"
  BY GoodSys DEF Good, Sound, RingsLive, Blank
<1>2. InputAt(t, c)
  <2>1. InputAt(s, c)
    BY <1>1 DEF Tidy
  <2> QED  BY <2>1 DEF InputAt, KeptWhole, AtSocket
<1>3. OnlyInput(s, t, c)
  BY DEF OnlyInput, AtSocket
<1>4. Tidy(t)
  BY <1>1, <1>2, <1>3, InputTidy
<1> QED  BY <1>4, ArmQuiet, QuietTidy

LEMMA ArriveTidy ==
    ASSUME NEW s, NEW c \in Conn, NEW f \in Frame, NEW k \in 1 .. f.len + 1,
           Good(s), Tidy(s), Live(s, c), s.wire[c] = <<>>, s.rx[c] = "open"
    PROVE  Tidy(Arrive(s, c, f, k))
<1> DEFINE cells == Cells(f)
           in == s.inbox[c] \o SubSeq(cells, 1, k)
           w  == SubSeq(cells, k + 1, Len(cells))
           t  == [s EXCEPT !.inbox[c] = in, !.wire[c] = w]
<1>1. s \in Sys /\ f.len \in Nat /\ s.inbox[c] \in Seq(Cell)
  BY GoodSys DEF Frame, Good, Sound, Sys
<1>2. cells \in Seq(Cell) /\ Len(cells) = f.len + 1
  BY CellsType
<1> HIDE DEF cells
<1>3. SubSeq(cells, 1, k) \in Seq(Cell)
  BY <1>1, <1>2, SubSeqProperties
<1>4. in \in Seq(Cell) /\ w \in Seq(Cell)
  BY <1>1, <1>2, <1>3, DropPrefix, ConcatProperties
<1>5. Arrive(s, c, f, k) = Arm(t, c)
  BY DEF Arrive, cells
<1>6. in = s.inbox[c] \o SubSeq(Cells(f), 1, k)
      /\ w = SubSeq(Cells(f), k + 1, Len(Cells(f)))
  BY DEF cells
<1> HIDE DEF in, w
<1>7. t \in Sys
  BY <1>1, <1>4 DEF Sys
<1>8. AtSocket(s, t, c) /\ t.inbox[c] = in /\ t.wire[c] = w /\ t.rx = s.rx
  BY <1>1 DEF Sys, AtSocket
<1> HIDE DEF t
<1>9. Fed(s, c) => Fed(t, c)
  <2>1. HeadOf(t, c) = HeadOf(s, c) /\ t.ring[c] = s.ring[c]
    BY <1>8 DEF AtSocket, HeadOf
  <2> QED  BY <1>1, <1>6, <1>7, <1>8, <2>1, FedArrive
<1> QED  BY <1>5, <1>7, <1>8, <1>9, SocketTidy

(* The far end of c is gone: what it had sent is lost, or arrives no more. *)
LEMMA GoneTidy ==
    ASSUME NEW s, NEW c \in Conn, NEW t \in Sys, Good(s), Tidy(s), Live(s, c),
           AtSocket(s, t, c), t.rx[c] # "open", t.wire[c] = <<>>,
           t.inbox[c] \in {s.inbox[c], <<>>}
    PROVE  Tidy(t) /\ Tidy(Arm(t, c))
<1>1. s \in Sys
  BY GoodSys
<1>2. HeadOf(t, c) = HeadOf(s, c) /\ t.ring[c] = s.ring[c]
  BY DEF AtSocket, HeadOf
<1>3. Fed(s, c) => Fed(t, c)
  BY <1>1, <1>2, FedCut
<1> QED  BY <1>3, SocketTidy

LEMMA ResetTidy ==
    ASSUME NEW s, NEW c \in Conn, Good(s), Tidy(s), Live(s, c)
    PROVE  Tidy(Reset(s, c))
<1> DEFINE t == [s EXCEPT !.rx[c] = "err", !.tx[c] = "broken",
                          !.inbox[c] = <<>>, !.wire[c] = <<>>]
<1>1. s \in Sys /\ <<>> \in Seq(Cell)
  BY GoodSys, EmptySeq
<1>2. t \in Sys
  BY <1>1 DEF Sys
<1>3. /\ AtSocket(s, t, c) /\ t.rx[c] = "err" /\ t.wire[c] = <<>>
      /\ t.inbox[c] = <<>>
  BY <1>1 DEF Sys, AtSocket
<1>4. Reset(s, c) = Arm(t, c)
  BY DEF Reset
<1> HIDE DEF t
<1> QED  BY <1>2, <1>3, <1>4, GoneTidy

(* How much a socket takes is nothing to its input.                        *)
LEMMA RoomTidy ==
    ASSUME NEW s, NEW c \in Conn, NEW r \in {"open", "tight", "full"},
           Good(s), Tidy(s)
    PROVE  Tidy([s EXCEPT !.tx[c] = r]) /\ Tidy(Arm([s EXCEPT !.tx[c] = r], c))
<1> DEFINE t == [s EXCEPT !.tx[c] = r]
<1>1. s \in Sys
  BY GoodSys
<1>2. t \in Sys
  BY <1>1 DEF Sys
<1>3. Quiet(s, t)
  BY <1>1 DEF Quiet, Sys
<1> HIDE DEF t
<1>4. Tidy(t) /\ Tidy(Arm(t, c))
  BY <1>1, <1>2, <1>3, QuietTidy, ArmQuiet
<1> QED  BY <1>4 DEF t

LEMMA ClientTidy ==
    ASSUME NEW c \in Conn, IInv, Tidy(sys),
           \/ ClientConnects \/ HealthChanges \/ ClientSends(c) \/ Slows(c)
    PROVE  Tidy(sys')
<1>1. Good(sys) /\ EnvOK
  BY DEF IInv
<1>2. CASE ClientConnects \/ HealthChanges
  BY <1>2 DEF ClientConnects, HealthChanges
<1>3. CASE ClientSends(c)
  <2>0. PICK m \in ClientKinds : \E k \in 1 .. m.len + 1 :
           sys' = Arrive(sys, c, [op |-> m.op, id |-> nreq', len |-> m.len], k)
    BY <1>3 DEF ClientSends
  <2>1. PICK k \in 1 .. m.len + 1 :
           sys' = Arrive(sys, c, [op |-> m.op, id |-> nreq', len |-> m.len], k)
    BY <2>0
  <2>2. nreq' = nreq + 1 /\ nreq' \in 0 .. MaxReq
    BY <1>1, <1>3, ReactorAssumption DEF ClientSends, EnvOK
  <2> DEFINE f == [op |-> m.op, id |-> nreq', len |-> m.len]
  <2>3. f \in Frame /\ f.len = m.len
    BY <2>2, ReactorAssumption DEF Frame
  <2>4. sys' = Arrive(sys, c, f, k)
    BY <2>1
  <2> HIDE DEF f
  <2>5. Live(sys, c) /\ sys.wire[c] = <<>> /\ sys.rx[c] = "open"
    BY <1>3 DEF ClientSends, Sends, Open
  <2> QED  BY <1>1, <2>3, <2>4, <2>5, ArriveTidy
<1>4. CASE Slows(c)
  <2>1. PICK r \in {"tight", "full"} : sys' = [sys EXCEPT !.tx[c] = r]
    BY <1>4 DEF Slows
  <2> QED  BY <1>1, <2>1, RoomTidy
<1> QED  BY <1>2, <1>3, <1>4

LEMMA FarTidy ==
    ASSUME NEW c \in Conn, IInv, Tidy(sys),
           \/ UpstreamAnswers(c) \/ RestArrives(c) \/ PeerCloses(c)
           \/ PeerResets(c) \/ ConnectCompletes(c) \/ Drains(c)
    PROVE  Tidy(sys')
<1>1. Good(sys) /\ sys \in Sys /\ <<>> \in Seq(Cell)
  BY GoodSys, EmptySeq DEF IInv
<1>2. Live(sys, c)
  BY DEF UpstreamAnswers, RestArrives, PeerCloses, PeerResets,
         ConnectCompletes, Drains, Sends, Open
<1>3. CASE UpstreamAnswers(c)
  <2>0. PICK m \in UpKinds : \E k \in 1 .. m.len + 1 :
           sys' = [Arrive(sys, c, [op |-> m.op, id |-> Head(sys.got[c]).id,
                                   len |-> m.len], k) EXCEPT !.got[c] = Tail(@)]
    BY <1>3 DEF UpstreamAnswers
  <2>1. PICK k \in 1 .. m.len + 1 :
           sys' = [Arrive(sys, c, [op |-> m.op, id |-> Head(sys.got[c]).id,
                                   len |-> m.len], k) EXCEPT !.got[c] = Tail(@)]
    BY <2>0
  <2> DEFINE f == [op |-> m.op, id |-> Head(sys.got[c]).id, len |-> m.len]
             t == Arrive(sys, c, f, k)
             g == Tail(t.got[c])
             u == [t EXCEPT !.got[c] = g]
  <2>2. sys.got[c] \in Seq(Frame) /\ sys.got[c] # <<>>
    BY <1>1, <1>3 DEF UpstreamAnswers, Sys
  <2>3. Head(sys.got[c]) \in Frame
    BY <2>2, HeadTailProperties
  <2>4. f \in Frame /\ f.len = m.len
    BY <2>3, ReactorAssumption DEF Frame
  <2>5. sys' = u
    BY <2>1
  <2> HIDE DEF f
  <2>6. t \in Sys
    BY <1>1, <2>4, ArriveGood, GoodSys
  <2>7. Tidy(t)
    BY <1>1, <1>2, <1>3, <2>4, ArriveTidy DEF UpstreamAnswers, Sends
  <2> HIDE DEF t, g
  <2>8. Quiet(t, u)
    BY <2>6 DEF Quiet, Sys
  <2> QED  BY <2>5, <2>6, <2>7, <2>8, QuietTidy
<1>4. CASE RestArrives(c)
  <2> DEFINE in == sys.inbox[c] \o sys.wire[c]
             t  == [sys EXCEPT !.inbox[c] = in, !.wire[c] = <<>>]
  <2>1. in \in Seq(Cell)
    BY <1>1, ConcatProperties DEF Sys
  <2>2. sys' = Arm(t, c)
    BY <1>4 DEF RestArrives
  <2>3. in = sys.inbox[c] \o sys.wire[c]
    OBVIOUS
  <2> HIDE DEF in
  <2>4. t \in Sys
    BY <1>1, <2>1 DEF Sys
  <2>5. AtSocket(sys, t, c) /\ t.inbox[c] = in /\ t.wire[c] = <<>> /\ t.rx = sys.rx
    BY <1>1 DEF Sys, AtSocket
  <2> HIDE DEF t
  <2>6. Fed(sys, c) => Fed(t, c)
    <3>1. HeadOf(t, c) = HeadOf(sys, c) /\ t.ring[c] = sys.ring[c]
      BY <2>5 DEF AtSocket, HeadOf
    <3> QED  BY <1>1, <2>3, <2>4, <2>5, <3>1, FedMove
  <2> QED  BY <1>1, <1>2, <2>2, <2>4, <2>5, <2>6, SocketTidy
<1>5. CASE PeerCloses(c)
  <2> DEFINE t == [sys EXCEPT !.rx[c] = "eof", !.wire[c] = <<>>]
  <2>1. t \in Sys
    BY <1>1 DEF Sys
  <2>2. /\ AtSocket(sys, t, c) /\ t.rx[c] = "eof" /\ t.wire[c] = <<>>
        /\ t.inbox[c] = sys.inbox[c]
    BY <1>1 DEF Sys, AtSocket
  <2>3. sys' = Arm(t, c)
    BY <1>5 DEF PeerCloses
  <2> HIDE DEF t
  <2> QED  BY <1>1, <1>2, <2>1, <2>2, <2>3, GoneTidy
<1>6. CASE sys' = Reset(sys, c)
  BY <1>1, <1>2, <1>6, ResetTidy
<1>7. CASE sys' = Arm([sys EXCEPT !.tx[c] = "open"], c)
  BY <1>1, <1>7, RoomTidy
<1> QED
  BY <1>3, <1>4, <1>5, <1>6, <1>7 DEF PeerResets, ConnectCompletes, Drains

----------------------------------------------------------------------------
(* The theorems.                                                           *)

FlowInv == IInv /\ Tidy(sys)

LEMMA InitFlow == Init => FlowInv
<1> SUFFICES ASSUME Init PROVE Tidy(sys)
  BY InitIInv DEF FlowInv
<1>1. sys.rings = {} /\ sys.ep = [c \in Conn |-> Nil] /\ sys.role = [c \in Conn |-> "new"]
      /\ sys.active = [e \in EP |-> 0] /\ sys.have = {} /\ sys.held = {}
      /\ sys.ring = [c \in Conn |-> <<>>] /\ sys.inbox = [c \in Conn |-> <<>>]
      /\ sys.wire = [c \in Conn |-> <<>>]
  BY DEF Init
<1>2. Endpoints(sys) /\ Unused(sys) /\ \A c \in sys.rings : InputAt(sys, c)
  BY <1>1 DEF Endpoints, IsUp, Unused
<1>3. Counted(sys)
  <2>1. \A e \in EP : Ups(sys, e) = {}
    BY <1>1 DEF Ups
  <2> QED  BY <1>1, <2>1, FS_EmptySet DEF Counted
<1> QED  BY <1>2, <1>3 DEF Tidy

LEMMA NextFlow == FlowInv /\ [Next]_vars => FlowInv'
<1> SUFFICES ASSUME IInv, Tidy(sys), [Next]_vars PROVE Tidy(sys')
  BY NextIInv DEF FlowInv
<1>1. CASE Run
  BY <1>1, WaitTidy, HandleTidy, AcceptTidy, ReadTidy, ParseTidy, DispatchTidy,
     EndingTidy DEF Run, Work, Read, Parse, Ending
<1>2. CASE Environment
  BY <1>2, ClientTidy, FarTidy, ReactorAssumption DEF Environment
<1>3. CASE UNCHANGED vars
  BY <1>3 DEF vars
<1> QED  BY <1>1, <1>2, <1>3 DEF Next

LEMMA FlowInvariance == Spec => []FlowInv
BY InitFlow, NextFlow, PTL DEF Spec

(* The active count of every endpoint is its number of open upstream       *)
(* connections: adopt and finishConnect count up, closeConn counts down,   *)
(* on whichever path a connection comes up and goes, and none is counted   *)
(* twice or forgotten.                                                     *)
THEOREM ActiveCountsExact == Spec => []ActiveExact
<1>1. FlowInv => ActiveExact
  <2> SUFFICES ASSUME FlowInv, NEW e \in EP
               PROVE  sys.active[e] =
                        Cardinality({c \in Conn : Live(sys, c) /\ sys.role[c] = "up"
                                                  /\ sys.ep[c] = e})
    BY DEF ActiveExact
  <2>1. \A c \in Conn : Live(sys, c) <=> c \in sys.rings
    BY DEF FlowInv, IInv, Good, Sound, RingsLive
  <2>2. {c \in Conn : Live(sys, c) /\ sys.role[c] = "up" /\ sys.ep[c] = e}
           = Ups(sys, e)
    BY <2>1 DEF Ups
  <2> QED  BY <2>2 DEF FlowInv, Tidy, Counted
<1> QED  BY <1>1, FlowInvariance, PTL

(* What is buffered of an open connection's input is whole frames from     *)
(* where the parser stands: no handler, and no failure in one, consumes a  *)
(* payload twice or leaves one behind.                                     *)
THEOREM InputStaysInSync == Spec => []InputInSync
<1>1. FlowInv => InputInSync
  <2> SUFFICES ASSUME FlowInv, NEW c \in Conn, Live(sys, c)
               PROVE  /\ Framed(Stream(c))
                      /\ Stream(c) # <<>> => Stream(c)[1][2] = 0
    BY DEF InputInSync
  <2>1. sys \in Sys /\ c \in sys.rings
    BY GoodSys DEF FlowInv, IInv, Good, Sound, RingsLive
  <2>2. Framing(StreamOf(sys, c)) /\ StreamOf(sys, c) \in Seq(Cell)
    BY <2>1, StreamType DEF FlowInv, Tidy, InputAt, Fed
  <2>3. Stream(c) = StreamOf(sys, c)
    BY DEF Stream, StreamOf, HeadOf
  <2> QED  BY <2>2, <2>3, FramingFramed
<1> QED  BY <1>1, FlowInvariance, PTL

(* A request kept for later is the frame its client's parser stands at,    *)
(* whole in the ring, until it is sent or its failure is answered: what    *)
(* sendPending and finishConnect consume then is its payload.              *)
THEOREM HeldRequestIsParsed == Spec => []HeldIsParsed
<1>1. FlowInv => HeldIsParsed
  <2>1. ASSUME FlowInv PROVE sys.held \subseteq Conn
    BY <2>1, GoodSys DEF FlowInv, IInv, Sys
  <2> QED
    BY <2>1 DEF FlowInv, IInv, Good, Sound, RingsLive, Tidy, InputAt, KeptWhole,
                HeldIsParsed
<1> QED  BY <1>1, FlowInvariance, PTL

----------------------------------------------------------------------------
(* The listener's edge.                                                    *)

(* Wait reports every event that is ready.                                 *)
LEMMA WaitReports ==
    ASSUME IInv, Wait, NEW e \in ReadyEvents
    PROVE  \E i \in DOMAIN batch' : batch'[i] = e
<1> DEFINE n == Cardinality(ReadyEvents)
           T == ReadyEvents \ {e}
<1>1. n \in Nat /\ IsFiniteSet(ReadyEvents) /\ n = Cardinality(ReadyEvents)
  BY ReadyFinite DEF IInv
<1>2. /\ batch' \in [1 .. n -> ReadyEvents]
      /\ \A i, j \in DOMAIN batch' : batch'[i] = batch'[j] => i = j
  BY DEF Wait
<1>3. DOMAIN batch' = 1 .. n
  BY <1>2
<1>4. IsFiniteSet(1 .. n) /\ Cardinality(1 .. n) = n
  <2>1. 1 \in Int /\ n \in Int
    BY <1>1
  <2> HIDE DEF n
  <2>2. IsFiniteSet(1 .. n) /\ Cardinality(1 .. n) = IF 1 > n THEN 0 ELSE n - 1 + 1
    BY <2>1, FS_Interval
  <2> QED  BY <1>1, <2>2
<1>5. IsFiniteSet(T) /\ Cardinality(T) = n - 1
  BY <1>1, FS_RemoveElement
<1> SUFFICES ASSUME \A i \in 1 .. n : batch'[i] # e PROVE FALSE
  BY <1>3
<1>6. batch' \in [1 .. n -> T]
  BY <1>2
<1>7. Cardinality(T) < Cardinality(1 .. n)
  BY <1>1, <1>4, <1>5
<1> HIDE DEF n, T
<1>8. \E i, j \in 1 .. n : i # j /\ batch'[i] = batch'[j]
  BY <1>4, <1>5, <1>6, <1>7, FS_PigeonHole
<1> QED  BY <1>2, <1>3, <1>8

(* A connection waits in the queue only while the listener is on the ready *)
(* list, its event is still to be handled, or acceptLoop has more to do.   *)
Queued == \E i \in DOMAIN batch : batch[i][1] = Nil
Accepting == pc = "accept" \/ (pc \in Inner /\ ret = "accept")
AcceptSeen ==
    backlog = 0 \/ lArmed \/ Queued \/ Accepting \/ sys.panic
                \/ pc \in {"shutdown", "stopped"}

(* Dispatch stays in the loop that called readLoop.                        *)
LEMMA ParseReturns ==
    ASSUME NEW t, IInv', Goto(t, "parse") \/ ThenResume(t, "parse")
    PROVE  pc' \in Inner /\ ret' = ret
<1>1. ret' # "parse"
  BY DEF IInv, LoopsOK
<1> QED  BY <1>1 DEF Goto, ThenResume, Then, Inner

LEMMA DispatchReturns ==
    ASSUME IInv', Dispatch
    PROVE  pc' \in Inner /\ ret' = ret
<1> DEFINE t == TakeHdr(sys, cur)
           h == t.hdr[cur]
<1>1. \/ DownPing(t, h) \/ DownClose(t, h) \/ DownError(t, h)
      \/ DownRefused(t, h) \/ DownPooled(t, h)
      \/ DownUndialled(t, h) \/ DownDialled(t, h)
      \/ Goto(OnUp(t, cur, h), "parse") \/ Goto(Consume(t, cur), "parse")
  BY DEF Dispatch
<1> HIDE DEF t, h
<1> QED
  BY <1>1, ParseReturns DEF DownPing, DownClose, DownError, DownRefused,
     DownPooled, DownUndialled, DownDialled

LEMMA QueuedTail ==
    ASSUME NEW q \in Seq(Events), q # <<>>, Head(q)[1] # Nil,
           NEW i \in DOMAIN q, q[i][1] = Nil
    PROVE  \E j \in DOMAIN Tail(q) : Tail(q)[j][1] = Nil
<1>1. Len(q) \in Nat /\ DOMAIN q = 1 .. Len(q) /\ q[1] = Head(q)
  BY LenProperties, HeadTailProperties
<1>2. i \in 2 .. Len(q)
  BY <1>1
<1>3. /\ Tail(q) \in Seq(Events) /\ Len(Tail(q)) = Len(q) - 1
      /\ \A j \in 1 .. Len(Tail(q)) : Tail(q)[j] = q[j + 1]
  BY HeadTailProperties
<1> DEFINE j == i - 1
<1>4. j \in 1 .. Len(Tail(q)) /\ j + 1 = i
  BY <1>1, <1>2, <1>3
<1> HIDE DEF j
<1>5. DOMAIN Tail(q) = 1 .. Len(Tail(q))
  BY <1>3, LenProperties
<1> QED  BY <1>3, <1>4, <1>5

LEMMA GotoLoops == \A t, p : Goto(t, p) => pc' = p /\ ret' = ret
BY DEF Goto, Then

LEMMA ReadLoops ==
    ASSUME Read \/ Parse
    PROVE  /\ UNCHANGED <<backlog, lArmed, batch>> /\ pc \in Inner /\ ~sys.panic
           /\ pc' \in Inner \cup {ret} /\ ret' = ret
<1>1. ASSUME Reading, NEW t, NEW p \in {ret, "parse"}, Goto(t, p)
      PROVE  /\ UNCHANGED <<backlog, lArmed, batch>> /\ pc \in Inner /\ ~sys.panic
             /\ pc' \in Inner \cup {ret} /\ ret' = ret
  BY <1>1, GotoLoops DEF Reading, At, Running, env, Inner
<1>2. ASSUME Parsing, NEW t, NEW p \in {ret, pc, "read"}, Goto(t, p)
      PROVE  /\ UNCHANGED <<backlog, lArmed, batch>> /\ pc \in Inner /\ ~sys.panic
             /\ pc' \in Inner \cup {ret} /\ ret' = ret
  BY <1>2, GotoLoops DEF Parsing, At, Running, env, Inner
<1>3. CASE ReadGone \/ ReadReturns
  BY <1>1, <1>3 DEF ReadGone, ReadReturns
<1>4. CASE ReadPauses
  BY <1>1, <1>4 DEF ReadPauses
<1>5. CASE ReadCloses
  BY <1>1, <1>5 DEF ReadCloses
<1>6. CASE ReadSome
  <2>1. Reading /\ \E t : Goto(t, "parse")
    BY <1>6 DEF ReadSome
  <2> QED  BY <1>1, <2>1
<1>7. CASE ParseEnds \/ ParsePanics
  BY <1>2, <1>7 DEF ParseEnds, ParsePanics
<1>8. CASE ParseRejects
  BY <1>2, <1>8 DEF ParseRejects, CanParse
<1>9. CASE ParseWaits
  BY <1>2, <1>9 DEF ParseWaits, CanParse
<1> QED
  BY <1>3, <1>4, <1>5, <1>6, <1>7, <1>8, <1>9 DEF Read, Parse

LEMMA NextAcceptSeen ==
    IInv /\ IInv' /\ AcceptSeen /\ [Next]_vars /\ [~AcceptFails]_vars => AcceptSeen'
<1> SUFFICES ASSUME IInv, IInv', AcceptSeen, [Next]_vars, [~AcceptFails]_vars
             PROVE  AcceptSeen'
  OBVIOUS
<1>1. CASE Wait
  <2>1. ~lArmed \/ <<Nil, {"R"}>> \in ReadyEvents
    BY DEF ReadyEvents
  <2>2. lArmed => Queued'
    BY <1>1, <2>1, WaitReports DEF Queued
  <2>3. batch = <<>> /\ ~sys.panic /\ pc = "loop" /\ UNCHANGED backlog
    BY <1>1 DEF Wait, At, Running
  <2>4. ~Queued
    BY <2>3 DEF Queued
  <2> QED  BY <2>2, <2>3, <2>4 DEF AcceptSeen, Accepting, Inner
<1>2. CASE Handle
  <2>1. /\ batch \in Seq(Events) /\ batch # <<>> /\ batch' = Tail(batch)
        /\ ~sys.panic /\ pc = "loop" /\ UNCHANGED <<backlog, lArmed>>
    BY <1>2 DEF Handle, IInv, At, Running, env
  <2>2. CASE Head(batch)[1] = Nil
    <3>1. HandleListen(Nil)
      BY <1>2, <2>2 DEF Handle, HandleStale, HandleConnect, HandleIO
    <3>2. pc' = "accept"
      BY <3>1 DEF HandleListen, Goto, Then
    <3> QED  BY <3>2 DEF AcceptSeen, Accepting
  <2>3. CASE Head(batch)[1] # Nil
    <3>1. Queued => Queued'
      BY <2>1, <2>3, QueuedTail DEF Queued
    <3> QED  BY <2>1, <3>1 DEF AcceptSeen, Accepting, Inner
  <2> QED  BY <2>2, <2>3
<1>3. CASE Accept
  BY <1>3 DEF Accept, AcceptThen, Then, AcceptSeen, Accepting, Inner
<1>4. CASE AcceptDrops \/ AcceptAgain
  BY <1>4 DEF AcceptDrops, AcceptAgain, Goto, Then, env, AcceptSeen, Accepting, Inner
<1>5. CASE Read \/ Parse
  <2>1. ret \in {"loop", "accept"}
    BY DEF IInv, LoopsOK
  <2> QED  BY <1>5, <2>1, ReadLoops DEF AcceptSeen, Accepting, Queued, Inner
<1>6. CASE Dispatch
  <2>1. UNCHANGED <<backlog, lArmed, batch>> /\ pc = "parse" /\ ~sys.panic
    BY <1>6 DEF Dispatch, CanParse, Parsing, At, Running, env
  <2>2. pc' \in Inner /\ ret' = ret
    BY <1>6, DispatchReturns
  <2> QED  BY <2>1, <2>2 DEF AcceptSeen, Accepting, Queued, Inner
<1>7. CASE Ending
  BY <1>7 DEF Ending, SweepIdle, Stop, ShutdownOne, ShutdownEnds, At, Running,
     Goto, Then, env, AcceptSeen, Accepting, Queued, Inner
<1>8. CASE Environment
  <2>1. CASE ClientConnects
    BY <2>1 DEF ClientConnects, AcceptSeen
  <2>2. ASSUME UNCHANGED <<control, backlog, lArmed>>, Running PROVE AcceptSeen'
    BY <2>2 DEF control, Running, AcceptSeen, Accepting, Queued
  <2>3. CASE HealthChanges
    BY <2>2, <2>3 DEF HealthChanges
  <2>4. CASE \E c \in Conn :
               \/ ClientSends(c) \/ UpstreamAnswers(c) \/ RestArrives(c)
               \/ PeerCloses(c) \/ PeerResets(c) \/ ConnectCompletes(c)
               \/ Slows(c) \/ Drains(c)
    <3>1. PICK c \in Conn :
             \/ ClientSends(c) \/ UpstreamAnswers(c) \/ RestArrives(c)
             \/ PeerCloses(c) \/ PeerResets(c) \/ ConnectCompletes(c)
             \/ Slows(c) \/ Drains(c)
      BY <2>4
    <3>2. UNCHANGED <<control, backlog, lArmed>> /\ Running
      BY <3>1 DEF ClientSends, UpstreamAnswers, RestArrives, PeerCloses,
         PeerResets, ConnectCompletes, Slows, Drains, Sends, Open, env
    <3> QED  BY <2>2, <3>2
  <2> QED  BY <1>8, <2>1, <2>3, <2>4 DEF Environment
<1>9. CASE UNCHANGED vars
  BY <1>9 DEF vars, AcceptSeen, Accepting, Queued
<1>10. ~AcceptFails \/ UNCHANGED vars
  OBVIOUS
<1> QED
  BY <1>1, <1>2, <1>3, <1>4, <1>5, <1>6, <1>7, <1>8, <1>9, <1>10
     DEF Next, Run, Work, Read, Parse, Ending

(* No connection is left in the listener's queue behind an edge that was   *)
(* taken: acceptLoop goes on until the queue is empty, also across the     *)
(* readLoop it calls for each connection, unless an accept fails.          *)
THEOREM AcceptsNothingLost == Spec /\ [][~AcceptFails]_vars => []NoLostAccept
<1>1. Init => AcceptSeen
  BY DEF Init, AcceptSeen
<1>2. AcceptSeen => NoLostAccept
  <2> SUFFICES ASSUME AcceptSeen, AtRest, backlog > 0 PROVE lArmed
    BY DEF NoLostAccept
  <2>1. ~Queued
    BY DEF AtRest, Queued
  <2> QED  BY <2>1 DEF AtRest, AcceptSeen, Accepting, Running, Inner
<1> QED  BY <1>1, <1>2, Invariance, NextAcceptSeen, PTL DEF Spec

----------------------------------------------------------------------------
(* What is written to a connection.                                        *)

OutOf(s, c) == s.got[c] \o s.remain[c]

(* q is p and then only elements of S.                                     *)
Longer(p, q, S) ==
    /\ Len(p) <= Len(q)
    /\ \A k \in 1 .. Len(p) : q[k] = p[k]
    /\ \A k \in Len(p) + 1 .. Len(q) : q[k] \in S

(* What was written stays, in its order, and only frames of W[x] follow    *)
(* it on x.                                                                *)
Adds(s, t, W) == \A x \in Conn : Longer(OutOf(s, x), OutOf(t, x), W[x])

(* Only c is written to.                                                   *)
OnlyTo(s, t, c) ==
    \A x \in Conn : x # c => t.got[x] = s.got[x] /\ t.remain[x] = s.remain[x]

Mute(s, t) == t.got = s.got /\ t.remain = s.remain

(* At most one frame more is written, f to c.                              *)
OneMore(s, t, c, f) ==
    OnlyTo(s, t, c) /\ OutOf(t, c) \in {OutOf(s, c), Append(OutOf(s, c), f)}

LEMMA OutType ==
    ASSUME NEW s \in Sys, NEW c \in Conn
    PROVE  /\ s.got[c] \in Seq(Frame) /\ s.remain[c] \in Seq(Frame)
           /\ OutOf(s, c) \in Seq(Frame) /\ Len(OutOf(s, c)) \in Nat
<1>1. s.got[c] \in Seq(Frame) /\ s.remain[c] \in Seq(Frame)
  BY DEF Sys
<1>2. OutOf(s, c) \in Seq(Frame)
  BY <1>1, ConcatProperties DEF OutOf
<1> QED  BY <1>1, <1>2, LenProperties

LEMMA LongerSelf ==
    ASSUME NEW p \in Seq(Frame), NEW S
    PROVE  Longer(p, p, S)
<1>1. Len(p) \in Nat
  BY LenProperties
<1> QED  BY <1>1 DEF Longer

LEMMA LongerTrans ==
    ASSUME NEW p \in Seq(Frame), NEW q \in Seq(Frame), NEW r \in Seq(Frame),
           NEW S, Longer(p, q, S), Longer(q, r, S)
    PROVE  Longer(p, r, S)
<1>1. Len(p) \in Nat /\ Len(q) \in Nat /\ Len(r) \in Nat
  BY LenProperties
<1>2. ASSUME NEW k \in Len(p) + 1 .. Len(r) PROVE r[k] \in S
  <2>1. CASE k <= Len(q)
    <3>1. k \in 1 .. Len(q) /\ k \in Len(p) + 1 .. Len(q)
      BY <1>1, <2>1
    <3> QED  BY <3>1 DEF Longer
  <2>2. CASE k > Len(q)
    <3>1. k \in Len(q) + 1 .. Len(r)
      BY <1>1, <2>2
    <3> QED  BY <3>1 DEF Longer
  <2> QED  BY <1>1, <2>1, <2>2
<1>3. ASSUME NEW k \in 1 .. Len(p) PROVE r[k] = p[k]
  <2>1. k \in 1 .. Len(q)
    BY <1>1 DEF Longer
  <2> QED  BY <2>1 DEF Longer
<1>4. Len(p) <= Len(r)
  BY <1>1 DEF Longer
<1> QED  BY <1>2, <1>3, <1>4 DEF Longer

LEMMA LongerAppend ==
    ASSUME NEW p \in Seq(Frame), NEW f \in Frame, NEW S, f \in S
    PROVE  Longer(p, Append(p, f), S)
<1>1. /\ Len(p) \in Nat /\ Len(Append(p, f)) = Len(p) + 1
      /\ \A i \in 1 .. Len(p) : Append(p, f)[i] = p[i]
      /\ Append(p, f)[Len(p) + 1] = f
  BY LenProperties, AppendProperties
<1>2. \A k \in Len(p) + 1 .. Len(p) + 1 : k = Len(p) + 1
  BY <1>1
<1> QED  BY <1>1, <1>2 DEF Longer

LEMMA AddsTrans ==
    ASSUME NEW s \in Sys, NEW t \in Sys, NEW u \in Sys, NEW W,
           Adds(s, t, W), Adds(t, u, W)
    PROVE  Adds(s, u, W)
BY OutType, LongerTrans DEF Adds

LEMMA MuteAdds ==
    ASSUME NEW s \in Sys, NEW t, NEW W, Mute(s, t)
    PROVE  Adds(s, t, W)
BY OutType, LongerSelf DEF Adds, Mute, OutOf

LEMMA OnlyToAdds ==
    ASSUME NEW s \in Sys, NEW t \in Sys, NEW c \in Conn, NEW W,
           OnlyTo(s, t, c), Longer(OutOf(s, c), OutOf(t, c), W[c])
    PROVE  Adds(s, t, W)
<1> SUFFICES ASSUME NEW x \in Conn PROVE Longer(OutOf(s, x), OutOf(t, x), W[x])
  BY DEF Adds
<1>1. CASE x # c
  BY <1>1, OutType, LongerSelf DEF OnlyTo, OutOf
<1> QED  BY <1>1

LEMMA OneMoreAdds ==
    ASSUME NEW s \in Sys, NEW t \in Sys, NEW c \in Conn, NEW f \in Frame,
           OneMore(s, t, c, f), NEW W, f \in W[c]
    PROVE  Adds(s, t, W)
BY OnlyToAdds, OutType, LongerSelf, LongerAppend DEF OneMore

LEMMA ArmMute ==
    ASSUME NEW s \in Sys, NEW c
    PROVE  Mute(s, Arm(s, c))
BY DEF Sys, Arm, Mute

LEMMA ModMute ==
    ASSUME NEW s \in Sys, NEW c \in Conn, NEW bits \in SUBSET {"R", "W"}
    PROVE  Mute(s, Mod(s, c, bits))
<1> DEFINE d == Sock(s, c)
           t == [s EXCEPT !.want[d] = bits]
<1>1. CASE d = Nil
  BY <1>1 DEF Mod, Mute
<1>2. CASE d # Nil
  <2>1. d \in Conn
    BY <1>2, SockType
  <2>2. t \in Sys /\ Mute(s, t)
    BY <2>1 DEF Sys, Mute
  <2>3. Mod(s, c, bits) = Arm(t, d)
    BY <1>2 DEF Mod
  <2> HIDE DEF t
  <2>4. Mute(t, Arm(t, d))
    BY <2>2, ArmMute
  <2> QED  BY <2>2, <2>3, <2>4 DEF Mute
<1> QED  BY <1>1, <1>2

(* c's descriptor names its own socket, or none.                           *)
Own(s, c) == Sock(s, c) \in {c, Nil}

LEMMA OwnSock ==
    ASSUME NEW s \in Sys, NEW c \in Conn, Own(s, c), Room(s, c) # "broken"
    PROVE  Sock(s, c) = c
BY SockType, ReactorAssumption DEF Own

LEMMA ButLast ==
    ASSUME NEW r \in Seq(Frame), r # <<>>, NEW q, q = SubSeq(r, 1, Len(r) - 1),
           NEW w, w = <<r[Len(r)]>>
    PROVE  q \in Seq(Frame) /\ w \in Seq(Frame) /\ q \o w = r
<1>1. Len(r) \in Nat \ {0} /\ \A k \in 1 .. Len(r) : r[k] \in Frame
  BY EmptySeq, ElementOfSeq
<1>2. /\ q \in Seq(Frame) /\ Len(q) = Len(r) - 1
      /\ \A k \in 1 .. Len(r) - 1 : q[k] = r[k]
  <2> DEFINE m == Len(r) - 1
  <2>1. m \in Nat /\ q = SubSeq(r, 1, m) /\ \A k \in 1 .. m : r[k] \in Frame
    BY <1>1
  <2> HIDE DEF m
  <2>2. /\ SubSeq(r, 1, m) \in Seq(Frame)
        /\ Len(SubSeq(r, 1, m)) = IF 1 <= m THEN m - 1 + 1 ELSE 0
        /\ \A k \in 1 .. m - 1 + 1 : SubSeq(r, 1, m)[k] = r[1 + k - 1]
    BY <2>1, SubSeqProperties
  <2>3. q \in Seq(Frame) /\ Len(q) = m
    BY <2>1, <2>2
  <2>4. ASSUME NEW k \in 1 .. m PROVE q[k] = r[k]
    <3>1. k \in 1 .. m - 1 + 1 /\ 1 + k - 1 = k
      BY <2>1
    <3> QED  BY <2>1, <2>2, <3>1
  <2> QED  BY <2>3, <2>4 DEF m
<1>3. w \in Seq(Frame) /\ Len(w) = 1 /\ w[1] = r[Len(r)]
  BY <1>1
<1>4. /\ q \o w \in Seq(Frame) /\ Len(q \o w) = Len(q) + Len(w)
      /\ \A k \in 1 .. Len(q) + Len(w) :
            (q \o w)[k] = IF k <= Len(q) THEN q[k] ELSE w[k - Len(q)]
  BY <1>2, <1>3, ConcatProperties
<1>5. Len(q \o w) = Len(r)
  BY <1>1, <1>2, <1>3, <1>4
<1>6. ASSUME NEW k \in 1 .. Len(r) PROVE (q \o w)[k] = r[k]
  <2>0. k \in 1 .. Len(q) + Len(w)
    BY <1>1, <1>2, <1>3
  <2>1. CASE k <= Len(q)
    <3>1. (q \o w)[k] = q[k] /\ k \in 1 .. Len(r) - 1
      BY <1>1, <1>2, <1>4, <2>0, <2>1
    <3> QED  BY <1>2, <3>1
  <2>2. CASE ~(k <= Len(q))
    <3>1. k = Len(r) /\ k - Len(q) = 1
      BY <1>1, <1>2, <2>2
    <3>2. (q \o w)[k] = w[k - Len(q)]
      BY <1>4, <2>0, <2>2
    <3> QED  BY <1>3, <3>1, <3>2
  <2> QED  BY <2>1, <2>2
<1>7. q \o w = r
  BY <1>4, <1>5, <1>6, SeqEqual
<1> QED  BY <1>2, <1>3, <1>7

(* What is stashed is sent in its place.                                   *)
LEMMA ResendOut ==
    ASSUME NEW s \in Sys, NEW c \in Conn, Own(s, c)
    PROVE  /\ OnlyTo(s, Resend(s, c), c)
           /\ OutOf(Resend(s, c), c) = OutOf(s, c)
<1> DEFINE r == s.remain[c]
           g == s.got[c]
           x == g \o r
<1>0. r \in Seq(Frame) /\ g \in Seq(Frame)
  BY OutType
<1>1. CASE r = <<>> \/ Room(s, c) \notin {"open", "tight"}
  BY <1>1 DEF Resend, OnlyTo
<1>2. CASE r # <<>> /\ Room(s, c) = "open"
  <2> DEFINE t == Deliver(s, c, r)
             u == [t EXCEPT !.remain[c] = <<>>]
  <2>0. Sock(s, c) = c /\ <<>> \in Seq(Frame) /\ x \in Seq(Frame)
    BY <1>0, <1>2, OwnSock, EmptySeq, ConcatProperties
  <2>1. t \in Sys
    BY <1>0, <2>0, DeliverKeeps
  <2>2. t.got = [s.got EXCEPT ![c] = x] /\ t.remain = s.remain
    BY <2>0 DEF Deliver, Sys
  <2>3. Resend(s, c) = Mod(u, c, {"R"})
    BY <1>2 DEF Resend
  <2> HIDE DEF t, x
  <2>4. u \in Sys /\ u.got = t.got /\ u.remain = [t.remain EXCEPT ![c] = <<>>]
    BY <2>0, <2>1, RemainKeeps DEF Sys
  <2> HIDE DEF u
  <2>5. Mute(u, Mod(u, c, {"R"}))
    BY <2>4, ModMute
  <2>6. OnlyTo(s, u, c) /\ u.got[c] = x /\ u.remain[c] = <<>>
    <3>1. u.got = [s.got EXCEPT ![c] = x]
      BY <2>2, <2>4
    <3>2. u.remain = [s.remain EXCEPT ![c] = <<>>]
      BY <2>2, <2>4
    <3>3. DOMAIN s.got = Conn /\ DOMAIN s.remain = Conn
      BY DEF Sys
    <3> QED  BY <3>1, <3>2, <3>3 DEF OnlyTo
  <2>7. x \o <<>> = x
    BY <2>0, ConcatEmptySeq
  <2> QED  BY <2>3, <2>5, <2>6, <2>7 DEF Mute, OnlyTo, OutOf, x
<1>3. CASE r # <<>> /\ Room(s, c) = "tight"
  <2> DEFINE q == SubSeq(r, 1, Len(r) - 1)
             w == <<r[Len(r)]>>
             t == Deliver(s, c, q)
             u == [t EXCEPT !.remain[c] = w]
             v == [u EXCEPT !.tx[Sock(s, c)] = "full"]
             y == g \o q
  <2>1. q \in Seq(Frame) /\ w \in Seq(Frame) /\ q \o w = r
    BY <1>0, <1>3, ButLast
  <2>0. Sock(s, c) = c /\ y \in Seq(Frame)
    BY <1>0, <1>3, <2>1, OwnSock, ConcatProperties
  <2>2. t \in Sys
    BY <2>0, <2>1, DeliverKeeps
  <2>3. t.got = [s.got EXCEPT ![c] = y] /\ t.remain = s.remain
    BY <2>0 DEF Deliver, Sys
  <2>4. Resend(s, c) = v
    BY <1>3 DEF Resend
  <2> HIDE DEF t, w, q, y
  <2>5. u \in Sys /\ u.got = t.got /\ u.remain = [t.remain EXCEPT ![c] = w]
    BY <2>1, <2>2, RemainKeeps DEF Sys
  <2> HIDE DEF u
  <2>6. v.got = u.got /\ v.remain = u.remain
    BY <2>5 DEF Sys
  <2> HIDE DEF v
  <2>7. OnlyTo(s, v, c) /\ v.got[c] = y /\ v.remain[c] = w
    <3>1. v.got = [s.got EXCEPT ![c] = y]
      BY <2>3, <2>5, <2>6
    <3>2. v.remain = [s.remain EXCEPT ![c] = w]
      BY <2>3, <2>5, <2>6
    <3>3. DOMAIN s.got = Conn /\ DOMAIN s.remain = Conn
      BY DEF Sys
    <3> QED  BY <3>1, <3>2, <3>3 DEF OnlyTo
  <2> HIDE DEF r, g
  <2>8. (g \o q) \o w = g \o (q \o w)
    <3>1. g \in Seq(Frame) /\ q \in Seq(Frame) /\ w \in Seq(Frame)
      BY <1>0, <2>1
    <3> QED  BY <3>1, ConcatAssociative
  <2> QED  BY <2>1, <2>4, <2>7, <2>8 DEF OutOf, r, g, y
<1> QED  BY <1>1, <1>2, <1>3

LEMMA OutAppend ==
    ASSUME NEW g \in Seq(Frame), NEW r \in Seq(Frame), NEW f \in Frame
    PROVE  g \o Append(r, f) = Append(g \o r, f)
<1> DEFINE w == <<f>>
           x == g \o r
<1>1. w \in Seq(Frame) /\ x \in Seq(Frame) /\ Append(r, f) = r \o w
  BY AppendIsConcat, ConcatProperties
<1>2. Append(x, f) = x \o w
  BY <1>1, AppendIsConcat
<1> HIDE DEF w
<1>3. (g \o r) \o w = g \o (r \o w)
  <2>1. w \in Seq(Frame)
    BY <1>1
  <2> QED  BY <2>1, ConcatAssociative
<1> QED  BY <1>1, <1>2, <1>3

(* One more frame stashed for c.                                           *)
LEMMA StashOut ==
    ASSUME NEW s \in Sys, NEW c \in Conn, NEW f \in Frame
    PROVE  LET t == [s EXCEPT !.remain[c] = Append(s.remain[c], f)]
           IN  t \in Sys /\ OneMore(s, t, c, f)
<1> DEFINE g == s.got[c]
           r == s.remain[c]
           w == Append(r, f)
           t == [s EXCEPT !.remain[c] = w]
<1>1. g \in Seq(Frame) /\ r \in Seq(Frame) /\ w \in Seq(Frame)
  BY OutType, AppendProperties
<1>2. g \o w = Append(g \o r, f) /\ g \o r \in Seq(Frame)
  BY <1>1, OutAppend, OutType DEF OutOf
<1> HIDE DEF w
<1>3. t \in Sys
  BY <1>1, RemainKeeps
<1>4. t.got = s.got /\ t.remain = [s.remain EXCEPT ![c] = w]
  BY DEF Sys
<1> HIDE DEF t
<1>5. DOMAIN s.remain = Conn
  BY DEF Sys
<1>6. OnlyTo(s, t, c) /\ t.got[c] = g /\ t.remain[c] = w
  BY <1>4, <1>5 DEF OnlyTo
<1>7. OutOf(s, c) = g \o r /\ OutOf(t, c) = g \o w
  BY <1>6 DEF OutOf
<1> HIDE DEF g, r
<1>8. t \in Sys /\ OneMore(s, t, c, f)
  BY <1>2, <1>3, <1>6, <1>7 DEF OneMore
<1> QED  BY <1>8 DEF t, w, r

LEMMA SpillAdds ==
    ASSUME NEW s \in Sys, NEW c \in Conn, NEW f \in Frame, NEW W, f \in W[c]
    PROVE  Adds(s, Spill(s, c, f), W)
<1>1. CASE s.remain[c] = <<>>
  <2>1. Spill(s, c, f) = s
    BY <1>1 DEF Spill, Sys
  <2> QED  BY <2>1, MuteAdds DEF Mute
<1>2. CASE s.remain[c] # <<>>
  <2>1. Spill(s, c, f) = [s EXCEPT !.remain[c] = Append(s.remain[c], f)]
    BY <1>2 DEF Spill, Sys
  <2> QED  BY <2>1, StashOut, OneMoreAdds
<1> QED  BY <1>1, <1>2

LEMMA WritevOut ==
    ASSUME NEW s \in Sys, NEW c \in Conn, NEW f \in Frame, Own(s, c),
           s.remain[c] = <<>>
    PROVE  OneMore(s, Writev(s, c, f), c, f)
<1> DEFINE g == s.got[c]
           w == <<f>>
           x == g \o w
<1>1. g \in Seq(Frame) /\ w \in Seq(Frame) /\ x \in Seq(Frame)
  BY OutType, ConcatProperties
<1>2. x = Append(g, f) /\ OutOf(s, c) = g
  BY <1>1, AppendIsConcat, ConcatEmptySeq DEF OutOf
<1>4. CASE Room(s, c) = "open"
  <2> DEFINE t == Deliver(s, c, w)
  <2>1. Sock(s, c) = c
    BY <1>4, OwnSock
  <2>2. t \in Sys
    BY <1>1, <2>1, DeliverKeeps
  <2>3. t.got = [s.got EXCEPT ![c] = x] /\ t.remain = s.remain
    BY <2>1 DEF Deliver, Sys
  <2>4. Writev(s, c, f) = t
    BY <1>4 DEF Writev
  <2> HIDE DEF t, x
  <2>5. DOMAIN s.got = Conn
    BY DEF Sys
  <2>6. OnlyTo(s, t, c) /\ t.got[c] = x /\ t.remain[c] = <<>>
    BY <2>3, <2>5 DEF OnlyTo
  <2>7. OutOf(t, c) = x
    BY <1>1, <2>6, ConcatEmptySeq DEF OutOf
  <2> QED  BY <1>2, <2>4, <2>6, <2>7 DEF OneMore
<1>5. CASE Room(s, c) = "tight"
  <2> DEFINE t == [s EXCEPT !.remain[c] = w, !.tx[Sock(s, c)] = "full"]
             v == Mod(t, c, WantStashed)
  <2>1. t \in Sys
    BY <1>1 DEF Sys
  <2>2. t.got = s.got /\ t.remain = [s.remain EXCEPT ![c] = w]
    BY DEF Sys
  <2>3. Writev(s, c, f) = v
    BY <1>5 DEF Writev
  <2> HIDE DEF t, w
  <2>4. Mute(t, v) /\ v \in Sys
    BY <2>1, ModMute, ModKeeps DEF WantStashed
  <2> HIDE DEF v
  <2>5. DOMAIN s.remain = Conn
    BY DEF Sys
  <2>6. OnlyTo(s, v, c) /\ v.got[c] = g /\ v.remain[c] = w
    BY <2>2, <2>4, <2>5 DEF OnlyTo, Mute
  <2>7. OutOf(v, c) = x
    BY <2>6 DEF OutOf
  <2> QED  BY <1>2, <2>3, <2>6, <2>7 DEF OneMore
<1>6. CASE Room(s, c) \notin {"open", "tight"}
  <2>1. Mute(s, Writev(s, c, f))
    BY <1>6 DEF Writev, Sys, Mute
  <2> QED  BY <2>1 DEF Mute, OneMore, OnlyTo, OutOf
<1> QED  BY <1>4, <1>5, <1>6

LEMMA ResendAdds ==
    ASSUME NEW s \in Sys, NEW c \in Conn, Own(s, c), NEW W
    PROVE  Adds(s, Resend(s, c), W)
BY ResendKeeps, ResendOut, OnlyToAdds, OutType, LongerSelf

LEMMA WriteOut ==
    ASSUME NEW s \in Sys, NEW c \in Conn, NEW f \in Frame, Own(s, c)
    PROVE  OneMore(s, Write(s, c, f), c, f)
<1> DEFINE t == Resend(s, c)
           u == Write(s, c, f)
<1>1. /\ t \in Sys /\ Same(s, t)
      /\ OnlyTo(s, t, c) /\ OutOf(t, c) = OutOf(s, c)
  BY ResendKeeps, ResendOut
<1>2. u = IF t.remain[c] = <<>> THEN Writev(t, c, f)
          ELSE [t EXCEPT !.remain[c] = Append(t.remain[c], f)]
  BY <1>1 DEF Write, Sys
<1>3. Own(t, c)
  BY <1>1 DEF Own, Sock, Same
<1> HIDE DEF t, u
<1>4. OneMore(t, u, c, f)
  BY <1>1, <1>2, <1>3, WritevOut, StashOut
<1>5. OneMore(s, u, c, f)
  BY <1>1, <1>4 DEF OneMore, OnlyTo
<1> QED  BY <1>5 DEF u

LEMMA WriteAdds ==
    ASSUME NEW s \in Sys, NEW c \in Conn, NEW f \in Frame, NEW W, f \in W[c],
           Own(s, c)
    PROVE  Adds(s, Write(s, c, f), W)
BY WriteKeeps, WriteOut, OneMoreAdds

----------------------------------------------------------------------------
(* The links: what holds of the table and the peers between two handlers,  *)
(* and what a handler that writes and closes does to them.                 *)

(* A connection with a peer is open; an open upstream connection has its   *)
(* client; and one still connecting has the request it was dialled for.    *)
Wired(s) ==
    \A c \in Conn :
        /\ s.peer[c] # Nil => c \in s.rings
        /\ c \in s.rings /\ IsUp(s, c) => s.peer[c] # Nil
        /\ c \in s.rings /\ s.role[c] = "connecting" => s.peer[c] \in s.held

(* t differs from s by closed connections and finished connects: descriptors *)
(* are freed and not reused, and an upstream loses its client by closing.  *)
Fades(s, t) ==
    /\ t.fd = s.fd /\ \A f \in FD : t.tab[f] \in {s.tab[f], Nil}
    /\ \A x \in Conn :
          /\ \/ t.role[x] = s.role[x]
             \/ s.role[x] = "connecting" /\ t.role[x] = "up"
          /\ \/ t.peer[x] = s.peer[x] /\ (x \in t.rings <=> x \in s.rings)
             \/ t.peer[x] = Nil /\ (IsUp(s, x) => x \notin t.rings)

(* The error that closeConn owes a client may be written to it.            *)
Allowed(s, W) ==
    \A d \in Conn : s.role[d] = "down" => ErrorOf(s.pend[d].id) \in W[d]

Moves(s, t, W) ==
    /\ Closes(s, t) /\ Fades(s, t) /\ Adds(s, t, W)
    /\ t.held = s.held /\ t.pend = s.pend

LEMMA FadesTrans ==
    ASSUME NEW s, NEW t, NEW u, Fades(s, t), Fades(t, u)
    PROVE  Fades(s, u)
<1>1. u.fd = s.fd /\ \A f \in FD : u.tab[f] \in {s.tab[f], Nil}
  BY DEF Fades
<1>2. ASSUME NEW x \in Conn
      PROVE  /\ \/ u.role[x] = s.role[x]
                \/ s.role[x] = "connecting" /\ u.role[x] = "up"
             /\ IsUp(s, x) => IsUp(t, x)
  BY DEF Fades, IsUp
<1>3. ASSUME NEW x \in Conn
      PROVE  \/ u.peer[x] = s.peer[x] /\ (x \in u.rings <=> x \in s.rings)
             \/ u.peer[x] = Nil /\ (IsUp(s, x) => x \notin u.rings)
  BY <1>2 DEF Fades
<1> QED  BY <1>1, <1>2, <1>3 DEF Fades

LEMMA SameFades ==
    ASSUME NEW s, NEW t, Same(s, t)
    PROVE  Fades(s, t)
BY DEF Same, Fades

LEMMA MovesTrans ==
    ASSUME NEW s, NEW t, NEW u, NEW W, Good(s), Moves(s, t, W), Moves(t, u, W)
    PROVE  Moves(s, u, W)
<1>1. s \in Sys /\ t \in Sys /\ u \in Sys
  BY GoodSys DEF Moves, Closes
<1> QED  BY <1>1, ClosesTrans, FadesTrans, AddsTrans DEF Moves

LEMMA MovesSelf ==
    ASSUME NEW s, NEW W, Good(s)
    PROVE  Moves(s, s, W)
BY SameFades, MuteAdds, GoodSys DEF Moves, Closes, Same, Mute

LEMMA FadesWired ==
    ASSUME NEW s, NEW t, Wired(s), Fades(s, t), t.held = s.held
    PROVE  Wired(t)
<1> SUFFICES ASSUME NEW c \in Conn
             PROVE  /\ t.peer[c] # Nil => c \in t.rings
                    /\ c \in t.rings /\ IsUp(t, c) => t.peer[c] # Nil
                    /\ c \in t.rings /\ t.role[c] = "connecting"
                          => t.peer[c] \in t.held
  BY DEF Wired
<1>1. /\ IsUp(t, c) => IsUp(s, c)
      /\ t.role[c] = "connecting" => s.role[c] = "connecting"
  BY DEF Fades, IsUp
<1>2. CASE t.peer[c] = s.peer[c] /\ (c \in t.rings <=> c \in s.rings)
  BY <1>1, <1>2 DEF Wired
<1>3. CASE t.peer[c] = Nil /\ (IsUp(s, c) => c \notin t.rings)
  BY <1>1, <1>3 DEF IsUp
<1> QED  BY <1>2, <1>3 DEF Fades

LEMMA MovesWired ==
    ASSUME NEW s, NEW t, NEW W, Wired(s), Moves(s, t, W)
    PROVE  Wired(t)
BY FadesWired DEF Moves

LEMMA FadesOwn ==
    ASSUME NEW s \in Sys, NEW t, NEW c \in Conn, Own(s, c), Fades(s, t)
    PROVE  Own(t, c)
BY DEF Own, Sock, Fades, Sys

LEMMA MovesAllowed ==
    ASSUME NEW s, NEW t, NEW W, Allowed(s, W), Moves(s, t, W)
    PROVE  Allowed(t, W)
BY DEF Allowed, Moves, Closes

(* An open connection's descriptor is its own.                             *)
LEMMA RingOwn ==
    ASSUME NEW s, NEW c \in Conn, Good(s), c \in s.rings
    PROVE  Own(s, c)
BY DEF Good, Sound, RingsLive, Live, Own

(* Something done to c's own output and interest.                          *)
LEMMA WritingMoves ==
    ASSUME NEW s, NEW t, NEW W, Good(s), t \in Sys, t.ring = s.ring, Same(s, t),
           Quiet(s, t), Adds(s, t, W)
    PROVE  Moves(s, t, W)
BY SameCloses, SameFades DEF Moves, Quiet

LEMMA SpillMoves ==
    ASSUME NEW s, NEW c \in Conn, NEW f \in Frame, NEW W, Good(s), f \in W[c]
    PROVE  Moves(s, Spill(s, c, f), W)
BY GoodSys, SpillKeeps, SpillQuiet, SpillAdds, WritingMoves

LEMMA WriteMoves ==
    ASSUME NEW s, NEW c \in Conn, NEW f \in Frame, NEW W, Good(s), f \in W[c],
           Own(s, c)
    PROVE  Moves(s, Write(s, c, f), W)
BY GoodSys, WriteKeeps, WriteQuiet, WriteAdds, WritingMoves

LEMMA ResendMoves ==
    ASSUME NEW s, NEW c \in Conn, NEW W, Good(s), Own(s, c)
    PROVE  Moves(s, Resend(s, c), W)
BY GoodSys, ResendKeeps, ResendQuiet, ResendAdds, WritingMoves

LEMMA DropParts ==
    ASSUME NEW s \in Sys, NEW c \in Conn
    PROVE  LET t == Drop(s, c)
           IN  /\ t.fd = s.fd /\ t.tab = [s.tab EXCEPT ![s.fd[c]] = Nil]
               /\ t.role = s.role /\ t.rings = s.rings \ {c}
               /\ t.peer = [s.peer EXCEPT ![c] = Nil]
               /\ t.held = s.held /\ t.pend = s.pend
               /\ t.got = s.got /\ t.remain = s.remain
BY DEF Drop, Sys

LEMMA DropLiveMoves ==
    ASSUME NEW s, NEW c \in Conn, NEW W, Good(s), s.peer[c] = Nil
    PROVE  /\ Moves(s, DropLive(s, c), W) /\ c \notin DropLive(s, c).rings
<1> DEFINE t == DropLive(s, c)
<1>1. s \in Sys /\ Closes(s, t)
  BY GoodSys, DropLiveCloses
<1>2. CASE ~Live(s, c)
  <2>1. t = s /\ c \notin s.rings
    BY <1>2 DEF DropLive, Good, Sound, RingsLive
  <2> QED  BY <2>1, MovesSelf
<1>3. CASE Live(s, c)
  <2>1. t = Drop(s, c)
    BY <1>3 DEF DropLive
  <2> HIDE DEF t
  <2>2. /\ t.fd = s.fd /\ t.tab = [s.tab EXCEPT ![s.fd[c]] = Nil]
        /\ t.role = s.role /\ t.rings = s.rings \ {c}
        /\ t.peer = [s.peer EXCEPT ![c] = Nil]
        /\ t.held = s.held /\ t.pend = s.pend
        /\ t.got = s.got /\ t.remain = s.remain
    BY <1>1, <2>1, DropParts
  <2>3. \A f \in FD : t.tab[f] \in {s.tab[f], Nil}
    BY <1>1, <2>2 DEF Sys
  <2>4. \A x \in Conn : IF x = c THEN t.peer[x] = Nil ELSE t.peer[x] = s.peer[x]
    BY <1>1, <2>2 DEF Sys
  <2>5. Fades(s, t)
    BY <2>2, <2>3, <2>4 DEF Fades
  <2>6. Adds(s, t, W)
    BY <1>1, <2>2, MuteAdds DEF Mute
  <2> QED  BY <1>1, <2>2, <2>5, <2>6 DEF Moves, t
<1> QED  BY <1>2, <1>3

LEMMA ReplyAloneMoves ==
    ASSUME NEW s, NEW c \in Conn, NEW f \in Frame, NEW W, f \in W[c],
           Good(s), s.peer[c] = Nil, Own(s, c)
    PROVE  Moves(s, ReplyAlone(s, c, f), W)
<1>1. CASE Room(s, c) = "broken"
  <2> DEFINE t == DropLive(s, c)
             u == Spill(t, c, f)
  <2>1. Moves(s, t, W)
    BY DropLiveMoves
  <2>2. ReplyAlone(s, c, f) = u
    BY <1>1 DEF ReplyAlone
  <2> HIDE DEF t
  <2>3. Moves(t, u, W)
    BY <2>1, SpillMoves DEF Moves, Closes
  <2> HIDE DEF u
  <2> QED  BY <2>1, <2>2, <2>3, MovesTrans
<1>2. CASE Room(s, c) # "broken"
  BY <1>2, WriteMoves DEF ReplyAlone
<1> QED  BY <1>1, <1>2

LEMMA CloseConnMoves ==
    ASSUME NEW s, NEW c \in Conn, NEW W, Good(s), Wired(s), Allowed(s, W)
    PROVE  Moves(s, CloseConn(s, c), W)
<1>0. s \in Sys
  BY GoodSys
<1>1. CASE ~Live(s, c)
  BY <1>1, MovesSelf DEF CloseConn
<1>2. CASE Live(s, c) /\ s.peer[c] = Nil
  <2>1. CloseConn(s, c) = DropLive(s, c)
    BY <1>2 DEF CloseConn, DropLive
  <2> QED  BY <1>2, <2>1, DropLiveMoves
<1>3. CASE Live(s, c) /\ s.peer[c] # Nil
  <2> DEFINE p == s.peer[c]
             t == Drop(s, c)
             u == Unlink(t, p)
             f == ErrorOf(u.pend[p].id)
             r == CloseConn(s, c)
  <2>1. /\ t \in Sys /\ t.peer[p] = c /\ p \in Conn /\ Good(u) /\ Closes(s, u)
        /\ u.peer[c] = Nil /\ u.peer[p] = Nil /\ f \in Frame
    BY <1>3, UnlinkCloses DEF Closes
  <2>2. r = IF u.role[p] = "down" THEN ReplyAlone(u, p, f) ELSE DropLive(u, p)
    BY <1>3, <2>1 DEF CloseConn
  <2>3. /\ t.fd = s.fd /\ t.tab = [s.tab EXCEPT ![s.fd[c]] = Nil]
        /\ t.role = s.role /\ t.rings = s.rings \ {c}
        /\ t.peer = [s.peer EXCEPT ![c] = Nil]
        /\ t.held = s.held /\ t.pend = s.pend
        /\ t.got = s.got /\ t.remain = s.remain
    BY <1>0, DropParts
  <2> HIDE DEF t
  <2>4. /\ u.fd = t.fd /\ u.tab = t.tab /\ u.role = t.role /\ u.rings = t.rings
        /\ u.peer = [t.peer EXCEPT ![p] = Nil] /\ u.held = t.held
        /\ u.pend = t.pend /\ u.got = t.got /\ u.remain = t.remain
    BY <2>1 DEF Unlink, Sys
  <2> HIDE DEF u, r
  <2>5. p # c /\ s.peer[p] = c
    BY <1>3, PeerApart DEF Good, Paired
  <2>6. /\ \A g \in FD : u.tab[g] \in {s.tab[g], Nil}
        /\ \A x \in Conn : x \notin {c, p} =>
              u.peer[x] = s.peer[x] /\ (x \in u.rings <=> x \in s.rings)
        /\ c \notin u.rings /\ u.role = s.role /\ u.fd = s.fd
    BY <1>0, <2>3, <2>4, <2>5 DEF Sys
  <2>7. p \in u.rings
    <3>1. s.peer[p] # Nil
      BY <2>5, ReactorAssumption
    <3>2. p \in s.rings
      BY <2>1, <3>1 DEF Wired
    <3> QED  BY <2>3, <2>4, <2>5, <3>2
  <2>8. Adds(s, u, W)
    BY <1>0, <2>3, <2>4, MuteAdds DEF Mute
  <2>9. u.role[p] = "down" => f \in W[p]
    BY <2>1, <2>3, <2>4 DEF Allowed, f
  <2> HIDE DEF f
  <2>10. Moves(u, r, W) /\ (u.role[p] # "down" => p \notin r.rings)
    BY <2>1, <2>2, <2>7, <2>9, RingOwn, ReplyAloneMoves, DropLiveMoves
  <2>11. Fades(s, r)
    <3>1. Fades(u, r) /\ r.role = u.role
      BY <2>10 DEF Moves, Closes
    <3>2. r.fd = s.fd /\ \A g \in FD : r.tab[g] \in {s.tab[g], Nil}
      BY <2>6, <3>1 DEF Fades
    <3>3. ASSUME NEW x \in Conn
          PROVE  \/ r.peer[x] = s.peer[x] /\ (x \in r.rings <=> x \in s.rings)
                 \/ r.peer[x] = Nil /\ (IsUp(s, x) => x \notin r.rings)
      <4>1. \/ r.peer[x] = u.peer[x] /\ (x \in r.rings <=> x \in u.rings)
            \/ r.peer[x] = Nil /\ (IsUp(u, x) => x \notin r.rings)
        BY <3>1 DEF Fades
      <4>2. IsUp(u, x) <=> IsUp(s, x)
        BY <2>6 DEF IsUp
      <4>3. CASE x = c
        BY <2>1, <2>6, <4>1, <4>2, <4>3
      <4>4. CASE x = p
        <5>1. r.peer[p] = Nil
          BY <2>1, <4>1, <4>4
        <5>2. IsUp(s, p) => u.role[p] # "down"
          BY <2>6 DEF IsUp
        <5> QED  BY <2>10, <4>4, <5>1, <5>2
      <4>5. CASE x \notin {c, p}
        BY <2>6, <4>1, <4>2, <4>5
      <4> QED  BY <4>3, <4>4, <4>5
    <3> QED  BY <2>6, <3>1, <3>2, <3>3 DEF Fades
  <2>12. Closes(s, r) /\ Adds(s, r, W)
    BY <1>0, <2>1, <2>8, <2>10, ClosesTrans, AddsTrans, GoodSys DEF Moves, Closes
  <2> QED  BY <2>3, <2>4, <2>10, <2>11, <2>12 DEF Moves, r
<1> QED  BY <1>1, <1>2, <1>3

LEMMA FlushMoves ==
    ASSUME NEW s, NEW c \in Conn, NEW f \in Frame, NEW W, f \in W[c],
           Good(s), Wired(s), Allowed(s, W), Own(s, c)
    PROVE  Moves(s, Flush(s, c, f), W)
<1>1. CASE Room(s, c) = "broken"
  <2> DEFINE t == CloseConn(s, c)
             u == Spill(t, c, f)
  <2>1. Moves(s, t, W)
    BY CloseConnMoves
  <2>2. Flush(s, c, f) = u
    BY <1>1 DEF Flush
  <2> HIDE DEF t
  <2>3. Moves(t, u, W)
    BY <2>1, SpillMoves DEF Moves, Closes
  <2> HIDE DEF u
  <2> QED  BY <2>1, <2>2, <2>3, MovesTrans
<1>2. CASE Room(s, c) # "broken"
  BY <1>2, WriteMoves DEF Flush
<1> QED  BY <1>1, <1>2

LEMMA FlushRemainMoves ==
    ASSUME NEW s, NEW c \in Conn, NEW W,
           Good(s), Wired(s), Allowed(s, W), Own(s, c)
    PROVE  Moves(s, FlushRemain(s, c), W)
BY CloseConnMoves, ResendMoves DEF FlushRemain

LEMMA ReplyMoves ==
    ASSUME NEW s, NEW c \in Conn, NEW i \in 0 .. MaxReq, NEW W,
           ErrorOf(i) \in W[c],
           Good(s), Wired(s), Allowed(s, W), Own(s, c)
    PROVE  Moves(s, Reply(s, c, i), W)
BY MadeFrames, FlushMoves DEF Reply

(* Consuming a payload writes nothing and closes nothing.                  *)
LEMMA ConsumeParts ==
    ASSUME NEW s \in Sys, NEW c \in Conn
    PROVE  LET t == Consume(s, c)
           IN  /\ Same(s, t) /\ Mute(s, t)
               /\ t.held = s.held /\ t.pend = s.pend
BY DEF Consume, Sys, Same, Mute

LEMMA ConsumeMoves ==
    ASSUME NEW s, NEW c \in Conn, NEW W, Good(s)
    PROVE  Moves(s, Consume(s, c), W)
<1> DEFINE t == Consume(s, c)
<1>1. s \in Sys /\ Closes(s, t)
  BY GoodSys, ConsumeCloses
<1>2. Same(s, t) /\ Mute(s, t) /\ t.held = s.held /\ t.pend = s.pend
  BY <1>1, ConsumeParts
<1> HIDE DEF t
<1> QED  BY <1>1, <1>2, SameFades, MuteAdds DEF Moves, t

(* A handler that ends with the links in order.                            *)
Settles(s, t, W) ==
    /\ Good(t) /\ Wired(t) /\ Fades(s, t) /\ Adds(s, t, W) /\ t.pend = s.pend

LEMMA SettlesTrans ==
    ASSUME NEW s, NEW t, NEW u, NEW W, Good(s), Settles(s, t, W), Settles(t, u, W)
    PROVE  Settles(s, u, W)
BY GoodSys, FadesTrans, AddsTrans DEF Settles

LEMMA MovesSettles ==
    ASSUME NEW s, NEW t, NEW W, Wired(s), Moves(s, t, W)
    PROVE  Settles(s, t, W)
BY MovesWired DEF Moves, Closes, Settles

(* The request of a client that waits for no connect is released.          *)
LEMMA ReleaseSettles ==
    ASSUME NEW s, NEW c \in Conn, NEW W, Good(s), Wired(s),
           s.peer[c] # Nil => s.role[s.peer[c]] # "connecting"
    PROVE  Settles(s, Release(s, c), W)
<1> DEFINE t == Consume(s, c)
           u == [t EXCEPT !.held = @ \ {c}]
<1>1. Moves(s, t, W) /\ Release(s, c) = u
  BY ConsumeMoves DEF Release
<1>2. Wired(t) /\ t \in Sys /\ s \in Sys /\ Same(s, t)
  BY <1>1, MovesWired, GoodSys, ConsumeParts DEF Moves, Closes
<1> HIDE DEF t
<1>3. /\ u \in Sys /\ u.ring = t.ring /\ Same(t, u) /\ Mute(t, u)
      /\ u.held = t.held \ {c} /\ u.pend = t.pend
  BY <1>2 DEF Sys, Same, Mute
<1> HIDE DEF u
<1>4. Good(u)
  BY <1>1, <1>3, FieldGood DEF Moves, Closes
<1>5. Wired(u)
  <2>1. ASSUME NEW x \in Conn, x \in t.rings, t.role[x] = "connecting"
        PROVE  t.peer[x] \in u.held
    <3>1. t.peer[x] \in t.held /\ t.peer[x] # Nil /\ t.peer[t.peer[x]] = x
      BY <1>1, <1>2, <2>1 DEF Wired, IsUp, Moves, Closes, Good, Paired
    <3>2. t.peer[x] # c
      BY <1>2, <2>1, <3>1, ReactorAssumption DEF Same
    <3> QED  BY <1>3, <3>1, <3>2
  <2> QED  BY <1>2, <1>3, <2>1 DEF Wired, Same, IsUp
<1>6. Fades(t, u) /\ Adds(t, u, W)
  BY <1>2, <1>3, SameFades, MuteAdds
<1>7. Fades(s, u) /\ Adds(s, u, W)
  BY <1>1, <1>2, <1>3, <1>6, FadesTrans, AddsTrans DEF Moves
<1> QED  BY <1>1, <1>3, <1>4, <1>5, <1>7 DEF Settles, Moves

(* sendPending for a client whose upstream, if it has one, is connected.   *)
LEMMA SendPendingSettles ==
    ASSUME NEW s, NEW down \in Conn, NEW up \in Conn, NEW W,
           s.pend[down] \in W[up], Good(s), Wired(s), Allowed(s, W), Own(s, up),
           s.peer[down] # Nil => s.role[s.peer[down]] # "connecting"
    PROVE  Settles(s, SendPending(s, down, up), W)
<1> DEFINE r == Flush(s, up, s.pend[down])
           t == Release(r, down)
           x == [t EXCEPT !.panic = TRUE]
           y == [t EXCEPT !.paused = @ \ {down}]
           v == SendPending(s, down, up)
<1>1. Moves(s, r, W) /\ s \in Sys
  BY FlushMoves, HdrType, GoodSys
<1>2. v \in {t, x, y}
  BY DEF SendPending
<1>3. Good(v)
  BY SendPendingResumes DEF Resumes
<1> HIDE DEF r, v
<1>4. Settles(s, r, W) /\ Good(r) /\ Wired(r)
  BY <1>1, MovesSettles DEF Settles
<1>5. r.peer[down] # Nil => r.role[r.peer[down]] # "connecting"
  BY <1>1, <1>4, PeerApart DEF Moves, Closes
<1>6. Settles(r, t, W)
  BY <1>4, <1>5, ReleaseSettles
<1> HIDE DEF t
<1>7. Settles(s, t, W) /\ t \in Sys
  BY <1>4, <1>6, SettlesTrans, GoodSys DEF Settles
<1>8. /\ Mute(t, v) /\ v.held = t.held /\ v.pend = t.pend
      /\ v.tab = t.tab /\ v.fd = t.fd /\ v.rings = t.rings
      /\ v.peer = t.peer /\ v.role = t.role
  BY <1>2, <1>7 DEF Sys, Mute
<1>9. Fades(t, v) /\ Wired(v) /\ Adds(t, v, W)
  BY <1>7, <1>8, MuteAdds DEF Fades, Wired, IsUp, Settles
<1>10. Settles(t, v, W)
  BY <1>3, <1>8, <1>9 DEF Settles
<1> QED  BY <1>7, <1>10, SettlesTrans DEF v

(* finishConnect.                                                          *)
LEMMA ConnectFailedSettles ==
    ASSUME NEW s, NEW c \in Conn, NEW W, Good(s), Wired(s), Allowed(s, W),
           c \in s.rings, s.role[c] = "connecting"
    PROVE  Settles(s, ConnectFailed(s, c), W)
<1> DEFINE d == s.peer[c]
           t == CloseConn(s, c)
           u == Reply(t, d, t.pend[d].id)
           v == IF d \in u.held THEN Release(u, d) ELSE u
           w == [v EXCEPT !.peer[d] = Nil]
<1>1. d # Nil /\ d \in Conn /\ s.role[d] = "down" /\ s.peer[d] = c
  <2>1. s.peer[c] # Nil
    BY DEF Wired, IsUp
  <2>2. d \in Conn /\ s.peer[d] = c /\ c # Nil
    BY <2>1, PeerApart, ReactorAssumption DEF Good, Paired
  <2> QED  BY <2>1, <2>2 DEF Good, Paired, IsUp
<1>2. Own(s, d)
  BY <1>1, ReactorAssumption, RingOwn DEF Wired
<1>3. Moves(s, t, W) /\ t.peer[d] = Nil /\ s \in Sys
  BY <1>1, CloseConnMoves, CloseConnCloses, GoodSys DEF Good, Sound, RingsLive
<1>4. ConnectFailed(s, c) = w
  BY <1>1 DEF ConnectFailed
<1> HIDE DEF t, d
<1>5. Good(t) /\ Wired(t) /\ Allowed(t, W) /\ Own(t, d) /\ t \in Sys
  BY <1>1, <1>2, <1>3, MovesWired, MovesAllowed, FadesOwn, GoodSys DEF Moves, Closes
<1>6. t.pend[d].id \in 0 .. MaxReq /\ ErrorOf(t.pend[d].id) \in W[d]
  BY <1>1, <1>3, <1>5, HdrType DEF Allowed, Moves, Closes
<1>7. Moves(t, u, W)
  BY <1>1, <1>5, <1>6, ReplyMoves
<1> HIDE DEF u
<1>8. Good(u) /\ Wired(u) /\ u.peer[d] = Nil
  BY <1>1, <1>3, <1>5, <1>7, MovesWired DEF Moves, Closes
<1>9. Settles(u, v, W) /\ v.peer[d] = Nil
  <2>1. Settles(u, u, W)
    BY <1>8, MovesSelf, MovesSettles
  <2>2. Settles(u, Release(u, d), W)
    BY <1>1, <1>8, ReleaseSettles
  <2>3. Release(u, d).peer = u.peer
    <3>1. Same(u, Consume(u, d))
      BY <1>1, <1>8, ConsumeParts, GoodSys
    <3> QED  BY <3>1 DEF Release, Same
  <2> QED  BY <1>8, <2>1, <2>2, <2>3
<1> HIDE DEF v
<1>10. w = v
  BY <1>1, <1>9, GoodSys DEF Settles, Sys
<1>11. Settles(s, t, W) /\ Settles(t, u, W)
  BY <1>3, <1>5, <1>7, MovesSettles
<1> HIDE DEF w
<1> QED  BY <1>4, <1>5, <1>8, <1>9, <1>10, <1>11, SettlesTrans

LEMMA ConnectOnlySettles ==
    ASSUME NEW s, NEW c \in Conn, NEW W, Good(s), Wired(s),
           s.role[c] = "connecting"
    PROVE  LET t == ConnectOnly(s, c)
           IN  /\ Settles(s, t, W) /\ t.role[c] = "up" /\ t.peer = s.peer
               /\ t.tab = s.tab /\ t.fd = s.fd
               /\ \A x \in Conn : x # c => t.role[x] = s.role[x]
<1> DEFINE a == [s.active EXCEPT ![s.ep[c]] = @ + 1]
           t == [s EXCEPT !.role[c] = "up", !.active = a]
           v == ConnectOnly(s, c)
<1>1. s \in Sys /\ a \in [EP -> Int]
  <2>1. s \in Sys
    BY GoodSys
  <2>2. s.active \in [EP -> Int]
    BY <2>1 DEF Sys
  <2> QED  BY <2>1, <2>2, CountType
<1>2. v = Mod(t, c, {"R", "W"}) /\ Good(v)
  BY ConnectOnlyGood DEF ConnectOnly
<1> HIDE DEF a, v
<1>3. /\ t.role = [s.role EXCEPT ![c] = "up"] /\ t.peer = s.peer
      /\ t.rings = s.rings /\ t.tab = s.tab /\ t.fd = s.fd
      /\ t.pend = s.pend /\ t.held = s.held /\ Mute(s, t)
  BY <1>1 DEF Sys, Mute
<1>4. t \in Sys
  <2> DEFINE q == [s EXCEPT !.role[c] = "up"]
  <2>1. q \in Sys
    BY <1>1 DEF Sys, Roles
  <2>2. t = [q EXCEPT !.active = a]
    BY <1>1 DEF Sys
  <2> HIDE DEF q, t
  <2> QED  BY <1>1, <2>1, <2>2 DEF Sys
<1> HIDE DEF t
<1>5. Same(t, v) /\ Quiet(t, v) /\ Mute(t, v)
  BY <1>2, <1>4, ModKeeps, ModQuiet, ModMute
<1>6. /\ v.role[c] = "up" /\ \A x \in Conn : x # c => v.role[x] = s.role[x]
  BY <1>1, <1>3, <1>5 DEF Sys, Same
<1>7. /\ v.peer = s.peer /\ v.rings = s.rings /\ v.tab = s.tab /\ v.fd = s.fd
      /\ v.pend = s.pend /\ v.held = s.held /\ Mute(s, v)
  BY <1>3, <1>5 DEF Same, Quiet, Mute
<1>8. Fades(s, v) /\ Adds(s, v, W)
  BY <1>1, <1>6, <1>7, MuteAdds DEF Fades
<1>9. Wired(v)
  BY <1>7, <1>8, FadesWired
<1> QED  BY <1>2, <1>6, <1>7, <1>8, <1>9 DEF Settles, v

LEMMA FinishConnectSettles ==
    ASSUME NEW s, NEW c \in Conn, NEW W, Good(s), Wired(s), Allowed(s, W),
           c \in s.rings, s.role[c] = "connecting", s.pend[s.peer[c]] \in W[c]
    PROVE  Settles(s, FinishConnect(s, c), W)
<1> DEFINE d == s.peer[c]
           t == ConnectOnly(s, c)
           v == SendPending(t, d, c)
<1>1. Settles(s, ConnectFailed(s, c), W)
  BY ConnectFailedSettles
<1>2. /\ Settles(s, t, W) /\ t.role[c] = "up" /\ t.peer = s.peer
      /\ t.tab = s.tab /\ t.fd = s.fd
      /\ \A x \in Conn : x # c => t.role[x] = s.role[x]
  BY ConnectOnlySettles
<1>3. ConnectMade(s, c) = IF d # Nil /\ d \in t.held THEN v ELSE t
  BY DEF ConnectMade
<1> HIDE DEF t
<1>4. ASSUME d # Nil PROVE Settles(t, v, W)
  <2>1. d \in Conn /\ s.peer[d] = c
    BY <1>4, PeerApart DEF Good, Paired
  <2>2. t.pend[d] \in W[c] /\ Good(t) /\ Wired(t)
    BY <1>2 DEF Settles
  <2>3. Own(t, c)
    BY <1>2, RingOwn DEF Own, Sock
  <2>4. Allowed(t, W)
    BY <1>2 DEF Allowed, Settles
  <2>5. t.role[t.peer[d]] # "connecting"
    BY <1>2, <2>1
  <2> HIDE DEF d
  <2> QED  BY <2>1, <2>2, <2>3, <2>4, <2>5, SendPendingSettles
<1>5. Settles(s, ConnectMade(s, c), W)
  BY <1>2, <1>3, <1>4, SettlesTrans
<1> QED  BY <1>1, <1>5 DEF FinishConnect

(* A request on the connection of an earlier one.                          *)
LEMMA HoldParts ==
    ASSUME NEW s \in Sys, NEW c \in Conn, NEW h \in Frame
    PROVE  LET u == Hold(s, c, h)
           IN  /\ u.tab = s.tab /\ u.fd = s.fd /\ u.rings = s.rings
               /\ u.peer = s.peer /\ u.role = s.role /\ Mute(s, u)
               /\ u.held = s.held \cup {c} /\ u.pend[c] = h
               /\ \A x \in Conn : x # c => u.pend[x] = s.pend[x]
BY DEF Hold, Sys, Mute

LEMMA OnPooledSettles ==
    ASSUME NEW s, NEW c \in Conn, NEW h \in Frame, NEW W,
           Good(s), Wired(s), Allowed(s, W), s.role[c] = "down",
           s.peer[c] # Nil, s.role[s.peer[c]] = "up",
           h \in W[s.peer[c]], ErrorOf(h.id) \in W[c]
    PROVE  LET u == Hold(s, c, h)
               t == OnPooled(s, c, h)
           IN  /\ Settles(u, t, W) /\ Fades(s, t) /\ Adds(s, t, W)
<1> DEFINE u == Hold(s, c, h)
           p == s.peer[c]
           t == OnPooled(s, c, h)
<1>1. p \in Conn /\ s.peer[p] = c /\ s \in Sys
  BY PeerApart, GoodSys DEF Good, Paired
<1>2. t = SendPending(u, c, p) /\ Good(u)
  BY HoldCloses DEF OnPooled, Upstream, Closes
<1>3. /\ u.tab = s.tab /\ u.fd = s.fd /\ u.rings = s.rings
      /\ u.peer = s.peer /\ u.role = s.role /\ Mute(s, u)
      /\ u.held = s.held \cup {c} /\ u.pend[c] = h
      /\ \A x \in Conn : x # c => u.pend[x] = s.pend[x]
  BY <1>1, HoldParts
<1> HIDE DEF u, t
<1>4. Wired(u) /\ Fades(s, u) /\ Adds(s, u, W)
  BY <1>1, <1>3, MuteAdds DEF Wired, Fades, IsUp
<1>5. Allowed(u, W)
  BY <1>3 DEF Allowed
<1>6. Own(u, p)
  <2>1. p \in u.rings
    BY <1>1, <1>3, ReactorAssumption DEF Wired
  <2> QED  BY <1>1, <1>2, <2>1, RingOwn
<1>7. Settles(u, t, W)
  <2>1. u.pend[c] \in W[p] /\ u.role[u.peer[c]] # "connecting"
    BY <1>3
  <2> HIDE DEF p
  <2> QED  BY <1>1, <1>2, <1>4, <1>5, <1>6, <2>1, SendPendingSettles
<1>8. Fades(s, t) /\ Adds(s, t, W)
  BY <1>1, <1>2, <1>4, <1>7, GoodSys, FadesTrans, AddsTrans DEF Settles
<1> QED  BY <1>7, <1>8 DEF u, t

LEMMA OnNoDialMoves ==
    ASSUME NEW s, NEW c \in Conn, NEW h \in Frame, NEW W,
           Good(s), Wired(s), Allowed(s, W), Own(s, c), ErrorOf(h.id) \in W[c]
    PROVE  Moves(s, OnNoDial(s, c, h), W)
<1> DEFINE t == Reply(s, c, h.id)
<1>1. Moves(s, t, W)
  BY ReplyMoves DEF Frame
<1>2. OnNoDial(s, c, h) = Consume(t, c)
  BY DEF OnNoDial
<1> HIDE DEF t
<1>3. Moves(t, Consume(t, c), W)
  BY <1>1, ConsumeMoves DEF Moves, Closes
<1> QED  BY <1>1, <1>2, <1>3, MovesTrans

LEMMA OnUpMoves ==
    ASSUME NEW s, NEW c \in Conn, NEW h \in Frame, NEW W,
           Good(s), Wired(s), Allowed(s, W),
           s.peer[c] # Nil => h \in W[s.peer[c]]
    PROVE  Moves(s, OnUp(s, c, h), W)
<1> DEFINE p == s.peer[c]
           t == Flush(s, p, h)
<1>1. Moves(s, Consume(s, c), W)
  BY ConsumeMoves
<1>2. CASE p # Nil
  <2>1. p \in Conn /\ Own(s, p)
    <3>1. p \in Conn /\ s.peer[p] = c /\ c # Nil
      BY <1>2, PeerApart, ReactorAssumption DEF Good, Paired
    <3> QED  BY <3>1, RingOwn DEF Wired
  <2>2. Moves(s, t, W)
    BY <1>2, <2>1, FlushMoves
  <2>3. OnUp(s, c, h) = Consume(t, c)
    BY <1>2 DEF OnUp
  <2> HIDE DEF t
  <2>4. Moves(t, Consume(t, c), W)
    BY <2>2, ConsumeMoves DEF Moves, Closes
  <2> QED  BY <2>2, <2>3, <2>4, MovesTrans
<1> QED  BY <1>1, <1>2 DEF OnUp

(* u is s with a connection n that adopt made.                             *)
LEMMA AdoptParts ==
    ASSUME NEW s \in Sys, NEW n \in Conn, NEW f \in FD, NEW e \in EP \cup {Nil},
           NEW role \in {"down", "up", "connecting"}, NEW tx \in {"open", "syn"}
    PROVE  LET t == Adopt(s, n, f, role, e, tx)
           IN  /\ t \in Sys /\ Mute(s, t) /\ t.rings = s.rings \cup {n}
               /\ t.peer = s.peer /\ t.held = s.held /\ t.pend = s.pend
               /\ \A y \in Conn : y # n => t.fd[y] = s.fd[y]
<1>a. PICK x \in Sys : /\ Adopt(s, n, f, role, e, tx) = Arm(x, n)
                       /\ Makes(s, x, n, f, e, role, tx)
  BY AdoptMakes
<1> DEFINE t == Arm(x, n)
<1>1. t \in Sys /\ Same(x, t) /\ Quiet(x, t) /\ Mute(x, t)
  BY ArmKeeps, ArmQuiet, ArmMute
<1>2. DOMAIN s.fd = Conn
  BY DEF Sys
<1> HIDE DEF t
<1>3. \A y \in Conn : y # n => x.fd[y] = s.fd[y]
  BY <1>a, <1>2 DEF Makes
<1> QED  BY <1>a, <1>1, <1>3 DEF Makes, Same, Quiet, Mute, t

(* No connection but n gets a descriptor.                                  *)
LEMMA AdoptBeside ==
    ASSUME NEW s \in Sys, NEW n \in Conn, NEW f \in FD, NEW e \in EP \cup {Nil},
           NEW role \in {"down", "up", "connecting"}, NEW tx \in {"open", "syn"}
    PROVE  \A y \in Conn : y # n => Adopt(s, n, f, role, e, tx).fd[y] = s.fd[y]
<1> DEFINE t == Adopt(s, n, f, role, e, tx)
<1>1. \A y \in Conn : y # n => t.fd[y] = s.fd[y]
  BY AdoptParts
<1> QED  BY <1>1

(* u is s with an upstream connection n for the request h of c.            *)
Dials(s, u, c, n, h) ==
    /\ Good(u) /\ Wired(u) /\ Mute(s, u) /\ IsUp(u, n)
    /\ u.rings = s.rings \cup {n}
    /\ u.peer[n] = c /\ u.peer[c] = n
    /\ u.pend[c] = h
    /\ \A x \in Conn : x # c => u.pend[x] = s.pend[x]
    /\ \A x \in Conn : x # n => u.role[x] = s.role[x] /\ u.fd[x] = s.fd[x]
    /\ \A x \in Conn : x \notin {c, n} => u.peer[x] = s.peer[x]

LEMMA OnDialledSettles ==
    ASSUME NEW s, NEW c \in Conn, NEW h \in Frame, NEW e \in EP,
           NEW n \in Conn, NEW f \in FD, NEW how, NEW W,
           Good(s), Wired(s), Allowed(s, W), c \in s.rings,
           s.role[c] = "down", s.peer[c] = Nil,
           s.role[n] = "new", s.tab[f] = Nil,
           h \in W[n], ErrorOf(h.id) \in W[c]
    PROVE  \E u : Dials(s, u, c, n, h) /\ Settles(u, OnDialled(s, c, h, e, n, f, how), W)
<1> DEFINE sock == IF how = "instant" THEN "open" ELSE "syn"
           kind == DialRole(how)
           t == Adopt(s, n, f, kind, e, sock)
           l == [t EXCEPT !.peer[n] = c, !.peer[c] = n]
           u == Hold(l, c, h)
           v == SendPending(u, c, n)
<1>1. sock \in {"open", "syn"} /\ kind \in {"up", "connecting"} /\ s \in Sys
  BY GoodSys DEF DialRole
<1>2. OnDialled(s, c, h, e, n, f, how) = IF kind = "up" THEN v ELSE u
  BY DEF OnDialled
<1> HIDE DEF sock, kind
<1>3. /\ t \in Sys /\ Mute(s, t) /\ t.rings = s.rings \cup {n}
      /\ t.peer = s.peer /\ t.role = [s.role EXCEPT ![n] = kind]
      /\ t.held = s.held /\ t.pend = s.pend
      /\ \A x \in Conn : x # n => t.fd[x] = s.fd[x]
      /\ Adopted(s, t, n, kind)
  <2>1. kind \in {"down", "up", "connecting"} /\ e \in EP \cup {Nil}
    BY <1>1
  <2>2. Adopted(s, t, n, kind)
    BY <1>1, <2>1, AdoptGood
  <2>3. /\ t \in Sys /\ Mute(s, t) /\ t.rings = s.rings \cup {n}
        /\ t.peer = s.peer /\ t.held = s.held /\ t.pend = s.pend
    BY <1>1, <2>1, AdoptParts
  <2>4. \A y \in Conn : y # n => Adopt(s, n, f, kind, e, sock).fd[y] = s.fd[y]
    BY <1>1, <2>1, AdoptBeside
  <2> QED  BY <2>2, <2>3, <2>4 DEF Adopted
<1> HIDE DEF t
<1>4. /\ n # c /\ s.peer[n] = Nil /\ t.role[n] = kind /\ IsUp(t, n)
      /\ \A x \in Conn : x # n => t.role[x] = s.role[x]
  BY <1>1, <1>3 DEF Good, Sound, Sys, Blank, IsUp
<1>5. Good(l)
  BY <1>3, <1>4, LinkGood DEF Adopted
<1>6. /\ Mute(s, l) /\ l.rings = s.rings \cup {n} /\ l.role = t.role
      /\ l.fd = t.fd /\ l.held = s.held /\ l.pend = s.pend
      /\ l.peer = [s.peer EXCEPT ![n] = c, ![c] = n]
  BY <1>3 DEF Sys, Mute
<1> HIDE DEF l
<1>7. /\ l.peer[n] = c /\ l.peer[c] = n
      /\ \A x \in Conn : x \notin {c, n} => l.peer[x] = s.peer[x]
  BY <1>1, <1>4, <1>6 DEF Sys
<1>8. /\ u.tab = l.tab /\ u.fd = l.fd /\ u.rings = l.rings
      /\ u.peer = l.peer /\ u.role = l.role /\ Mute(l, u)
      /\ u.held = l.held \cup {c} /\ u.pend[c] = h
      /\ \A x \in Conn : x # c => u.pend[x] = l.pend[x]
  BY <1>5, HoldParts, GoodSys
<1>9. Good(u)
  BY <1>5, HoldCloses DEF Closes
<1> HIDE DEF u, v
<1>10. Wired(u)
  <2> SUFFICES ASSUME NEW x \in Conn
               PROVE  /\ u.peer[x] # Nil => x \in u.rings
                      /\ x \in u.rings /\ IsUp(u, x) => u.peer[x] # Nil
                      /\ x \in u.rings /\ u.role[x] = "connecting"
                            => u.peer[x] \in u.held
    BY DEF Wired
  <2>1. CASE x = n
    BY <1>6, <1>7, <1>8, <2>1, ReactorAssumption
  <2>2. CASE x = c
    BY <1>4, <1>6, <1>7, <1>8, <2>2 DEF IsUp
  <2>3. CASE x \notin {c, n}
    BY <1>4, <1>6, <1>7, <1>8, <2>3 DEF Wired, IsUp
  <2> QED  BY <2>1, <2>2, <2>3
<1>11. Dials(s, u, c, n, h)
  <2>1. \A x \in Conn : x # n => u.role[x] = s.role[x] /\ u.fd[x] = s.fd[x]
    BY <1>3, <1>4, <1>6, <1>8
  <2> QED  BY <1>4, <1>6, <1>7, <1>8, <1>9, <1>10, <2>1 DEF Dials, Mute, IsUp
<1>12. Settles(u, u, W)
  BY <1>9, <1>10, MovesSelf, MovesSettles
<1>13. ASSUME kind = "up" PROVE Settles(u, v, W)
  <2>1. Own(u, n)
    BY <1>9, <1>11, RingOwn DEF Dials
  <2>2. Allowed(u, W)
    BY <1>4, <1>6, <1>8, <1>13 DEF Allowed, IsUp
  <2>3. u.role[u.peer[c]] # "connecting" /\ u.pend[c] \in W[n]
    BY <1>4, <1>6, <1>7, <1>8, <1>13
  <2> QED  BY <1>9, <1>10, <2>1, <2>2, <2>3, SendPendingSettles DEF v
<1> QED  BY <1>2, <1>11, <1>12, <1>13

----------------------------------------------------------------------------
(* The steps of the goroutine: what they may write, and the links they     *)
(* leave.                                                                  *)

(* The parser stands at a frame of cur.                                    *)
AtHeader ==
    /\ pc = "parse" /\ cur \in sys.rings
    /\ cur \in sys.have \/ sys.ring[cur] # <<>>

(* All frames may be written to all connections.                           *)
Anything == [c \in Conn |-> Frame]

(* A new connection is made.                                               *)
Dialled == NewConns(sys) # {} /\ sys'.role[Fresh(sys)] # "new"

(* W has room for what the goroutine may write next: the errors it owes,   *)
(* the requests that wait for a connect, and what the frame it parses      *)
(* calls for.                                                              *)
MayWrite(W) ==
    /\ Allowed(sys, W)
    /\ \A c \in sys.rings :
          sys.role[c] = "connecting" => sys.pend[sys.peer[c]] \in W[c]
    /\ pc = "parse" /\ cur \in sys.rings /\ sys.role[cur] = "down"
          => ErrorOf(0) \in W[cur]
    /\ AtHeader =>
          LET h == NextFrame(sys, cur)
          IN  /\ sys.role[cur] = "down" =>
                    /\ ErrorOf(h.id) \in W[cur] /\ Pong(h) \in W[cur]
                    /\ Dialled => h \in W[Fresh(sys)]
              /\ sys.peer[cur] # Nil => h \in W[sys.peer[cur]]

(* t is a next state of sys.                                               *)
Steps(t, W) ==
    /\ Wired(t) /\ Adds(sys, t, W)
    /\ \A x \in Conn :
          /\ t.role[x] = "down" => \/ sys.role[x] = "down"
                                   \/ sys.role[x] = "new" /\ Mute(sys, t)
          /\ t.role[x] = "new" => sys.role[x] = "new"
          /\ sys.role[x] # "new" => t.fd[x] = sys.fd[x]
          /\ sys.role[x] = "down" => t.role[x] = "down"
          /\ x \in t.rings /\ IsUp(t, x) =>
                \/ x \in sys.rings /\ IsUp(sys, x) /\ t.peer[x] = sys.peer[x]
                \/ sys.role[x] = "new" /\ t.peer[x] = cur /\ AtHeader
                                       /\ x = Fresh(sys) /\ sys.role[cur] = "down"
          /\ \/ t.pend[x] = sys.pend[x]
             \/ x = cur /\ AtHeader /\ t.pend[x] = NextFrame(sys, cur)

LEMMA FadesSteps ==
    ASSUME NEW t, NEW W, Wired(t), Fades(sys, t), Adds(sys, t, W),
           \A x \in Conn : \/ t.pend[x] = sys.pend[x]
                           \/ x = cur /\ AtHeader /\ t.pend[x] = NextFrame(sys, cur)
    PROVE  Steps(t, W)
<1> SUFFICES ASSUME NEW x \in Conn
             PROVE  /\ t.role[x] = "down" => sys.role[x] = "down"
                    /\ t.role[x] = "new" => sys.role[x] = "new"
                    /\ sys.role[x] = "down" => t.role[x] = "down"
                    /\ x \in t.rings /\ IsUp(t, x) =>
                          x \in sys.rings /\ IsUp(sys, x) /\ t.peer[x] = sys.peer[x]
  BY DEF Steps, Fades
<1>1. /\ t.role[x] = "down" => sys.role[x] = "down"
      /\ t.role[x] = "new" => sys.role[x] = "new"
      /\ sys.role[x] = "down" => t.role[x] = "down"
      /\ IsUp(t, x) => IsUp(sys, x)
  BY DEF Fades, IsUp
<1> QED  BY <1>1 DEF Fades

LEMMA SettlesSteps ==
    ASSUME NEW t, NEW W, Settles(sys, t, W)
    PROVE  Steps(t, W)
BY FadesSteps DEF Settles

LEMMA MovesSteps ==
    ASSUME NEW t, NEW W, Wired(sys), Moves(sys, t, W)
    PROVE  Steps(t, W)
BY MovesSettles, SettlesSteps

(* Nothing is written, and no link changes.                                *)
Still(s, t) ==
    /\ t.tab = s.tab /\ t.fd = s.fd /\ t.rings = s.rings /\ t.peer = s.peer
    /\ t.role = s.role /\ t.held = s.held /\ t.pend = s.pend /\ Mute(s, t)

LEMMA StillSteps ==
    ASSUME NEW t, NEW W, sys \in Sys, Wired(sys), Still(sys, t)
    PROVE  Steps(t, W)
<1>1. Fades(sys, t) /\ Wired(t) /\ Adds(sys, t, W)
  BY MuteAdds, FadesWired DEF Still, Fades
<1> QED  BY <1>1, FadesSteps DEF Still

LEMMA LeadsSteps ==
    ASSUME NEW t, NEW W, sys \in Sys, Wired(sys), Leads(t), Steps(t, W)
    PROVE  Steps(sys', W)
<1> DEFINE p == [sys EXCEPT !.panic = TRUE]
<1>1. Still(sys, p)
  BY DEF Sys, Still, Mute
<1> HIDE DEF p
<1>2. Steps(p, W)
  BY <1>1, StillSteps
<1> QED  BY <1>2 DEF Leads, p

LEMMA WaitSteps ==
    ASSUME NEW W, IInv, Wired(sys), Wait
    PROVE  Steps(sys', W)
<1>1. sys \in Sys /\ sys' = [sys EXCEPT !.armed = {}]
  BY GoodSys DEF IInv, Wait
<1>2. Still(sys, sys')
  BY <1>1 DEF Sys, Still, Mute
<1> QED  BY <1>1, <1>2, StillSteps

LEMMA HandleSteps ==
    ASSUME NEW W, IInv, Wired(sys), MayWrite(W), Handle
    PROVE  Steps(sys', W)
<1> DEFINE f    == Head(batch)[1]
           bits == Head(batch)[2]
           c    == IF f = Nil THEN Nil ELSE sys.tab[f]
<1>1. Good(sys) /\ sys \in Sys /\ Allowed(sys, W)
  BY GoodSys DEF IInv, MayWrite
<1>2. c # Nil => c \in Conn /\ Live(sys, c) /\ c \in sys.rings
  <2>1. c # Nil => c \in Conn /\ Live(sys, c)
    BY HandledLive DEF Handle
  <2> QED  BY <1>1, <2>1 DEF Good, Sound, RingsLive
<1>3. \/ HandleStale(f) \/ HandleListen(f)
      \/ HandleConnect(c, bits) \/ HandleIO(c, bits)
  BY DEF Handle
<1> HIDE DEF f, bits, c
<1>s. Steps(sys, W)
  BY <1>1, StillSteps DEF Still, Mute
<1>4. CASE HandleStale(f) \/ HandleListen(f)
  BY <1>1, <1>4, <1>s, GotoLeads, LeadsSteps DEF HandleStale, HandleListen
<1>5. CASE HandleConnect(c, bits)
  <2>1. c \in Conn /\ c \in sys.rings /\ sys.role[c] = "connecting"
    BY <1>2, <1>5 DEF HandleConnect, Connects
  <2>2. sys.pend[sys.peer[c]] \in W[c]
    BY <2>1 DEF MayWrite
  <2>3. Steps(FinishConnect(sys, c), W)
    BY <1>1, <2>1, <2>2, FinishConnectSettles, SettlesSteps
  <2> QED  BY <1>1, <1>5, <2>3, GotoLeads, LeadsSteps DEF HandleConnect
<1>6. CASE HandleIO(c, bits)
  <2> DEFINE t == IF "W" \in bits THEN FlushRemain(sys, c) ELSE sys
             u == CloseConn(sys, c)
  <2>1. c \in Conn /\ Own(sys, c)
    BY <1>1, <1>2, <1>6, RingOwn DEF HandleIO
  <2>2. Steps(u, W)
    BY <1>1, <2>1, CloseConnMoves, MovesSteps
  <2>3. Steps(t, W)
    BY <1>1, <1>s, <2>1, FlushRemainMoves, MovesSteps
  <2>4. \/ Goto(u, "loop") \/ Then(t, "read", c, "loop") \/ Goto(t, "loop")
    BY <1>6 DEF HandleIO
  <2> HIDE DEF t, u
  <2>5. Leads(t) \/ Leads(u)
    BY <2>4, GotoLeads
  <2> QED  BY <1>1, <2>2, <2>3, <2>5, LeadsSteps
<1> QED  BY <1>3, <1>4, <1>5, <1>6

LEMMA AcceptSteps ==
    ASSUME NEW W, IInv, Wired(sys), Accept \/ AcceptDrops \/ AcceptAgain \/ AcceptFails
    PROVE  Steps(sys', W)
<1>1. Good(sys) /\ sys \in Sys
  BY GoodSys DEF IInv
<1>2. CASE AcceptDrops \/ AcceptAgain \/ AcceptFails
  <2>1. Leads(sys) /\ Steps(sys, W)
    BY <1>1, <1>2, GotoLeads, StillSteps DEF AcceptDrops, AcceptAgain, AcceptFails, Still, Mute
  <2> QED  BY <1>1, <2>1, LeadsSteps
<1>3. CASE Accept
  <2> DEFINE c == Fresh(sys)
             f == FreeFD(sys)
             t == Adopt(sys, c, f, "down", Nil, "open")
  <2>1. AcceptThen("accept")
    BY <1>3 DEF Accept
  <2>2. /\ c \in Conn /\ sys.role[c] = "new" /\ f \in FD /\ sys.tab[f] = Nil
    BY <1>1, <2>1, FreshType DEF AcceptThen
  <2>3. Then(t, "read", c, "accept")
    BY <2>1 DEF AcceptThen
  <2> HIDE DEF c, f
  <2>4. /\ t \in Sys /\ Mute(sys, t) /\ t.rings = sys.rings \cup {c}
        /\ t.peer = sys.peer /\ t.held = sys.held /\ t.pend = sys.pend
        /\ \A x \in Conn : x # c => t.fd[x] = sys.fd[x]
    BY <1>1, <2>2, AdoptParts
  <2>5. Adopted(sys, t, c, "down")
    BY <1>1, <2>2, AdoptGood
  <2> HIDE DEF t
  <2>6. t.role[c] = "down" /\ \A x \in Conn : x # c => t.role[x] = sys.role[x]
    <3>1. DOMAIN sys.role = Conn
      BY <1>1 DEF Sys
    <3> QED  BY <2>2, <2>5, <3>1 DEF Adopted
  <2>7. sys.peer[c] = Nil
    BY <1>1, <2>2 DEF Good, Sound, Blank
  <2>8. Wired(t)
    BY <2>4, <2>6, <2>7 DEF Wired, IsUp
  <2>9. Adds(sys, t, W)
    BY <1>1, <2>4, MuteAdds
  <2>10. ASSUME NEW x \in Conn, x \in t.rings, IsUp(t, x)
         PROVE  x \in sys.rings /\ IsUp(sys, x) /\ t.peer[x] = sys.peer[x]
    BY <2>4, <2>6, <2>10 DEF IsUp
  <2>11. Steps(t, W)
    BY <2>2, <2>4, <2>6, <2>8, <2>9, <2>10 DEF Steps
  <2> QED  BY <1>1, <2>3, <2>11, GotoLeads, LeadsSteps
<1> QED  BY <1>2, <1>3

LEMMA ReadSteps ==
    ASSUME NEW W, IInv, Wired(sys), MayWrite(W), Read
    PROVE  Steps(sys', W)
<1>1. Good(sys) /\ sys \in Sys /\ Allowed(sys, W) /\ cur \in Conn
  BY GoodSys DEF IInv, MayWrite, Read, ReadGone, ReadPauses, ReadReturns,
                 ReadCloses, ReadSome, Reading, At, LoopsOK
<1>s. Steps(sys, W)
  BY <1>1, StillSteps DEF Still, Mute
<1>2. CASE ReadGone \/ ReadReturns
  BY <1>1, <1>2, <1>s, GotoLeads, LeadsSteps DEF ReadGone, ReadReturns
<1>3. CASE ReadPauses
  <2> DEFINE t == [sys EXCEPT !.paused = @ \cup {cur}]
  <2>1. Leads(t)
    BY <1>3, GotoLeads DEF ReadPauses
  <2>2. Still(sys, t)
    BY <1>1 DEF Sys, Still, Mute
  <2> HIDE DEF t
  <2> QED  BY <1>1, <2>1, <2>2, StillSteps, LeadsSteps
<1>4. CASE ReadCloses
  <2>1. Steps(CloseConn(sys, cur), W)
    BY <1>1, CloseConnMoves, MovesSteps
  <2> QED  BY <1>1, <1>4, <2>1, GotoLeads, LeadsSteps DEF ReadCloses
<1>5. CASE ReadSome
  <2>1. PICK n \in 1 .. Free(sys, cur) :
           Goto([sys EXCEPT !.ring[cur] = @ \o SubSeq(sys.inbox[cur], 1, n),
                            !.inbox[cur] = SubSeq(sys.inbox[cur], n + 1,
                                                  Len(sys.inbox[cur]))], "parse")
    BY <1>5 DEF ReadSome
  <2> DEFINE t == [sys EXCEPT !.ring[cur] = @ \o SubSeq(sys.inbox[cur], 1, n),
                              !.inbox[cur] = SubSeq(sys.inbox[cur], n + 1,
                                                    Len(sys.inbox[cur]))]
  <2>2. Leads(t)
    BY <2>1, GotoLeads
  <2>3. Still(sys, t)
    BY <1>1 DEF Sys, Still, Mute
  <2> HIDE DEF t
  <2> QED  BY <1>1, <2>2, <2>3, StillSteps, LeadsSteps
<1> QED  BY <1>2, <1>3, <1>4, <1>5 DEF Read

LEMMA EndingSteps ==
    ASSUME NEW W, IInv, Wired(sys), MayWrite(W), Ending
    PROVE  Steps(sys', W)
<1>1. Good(sys) /\ sys \in Sys /\ Allowed(sys, W)
  BY GoodSys DEF IInv, MayWrite
<1>2. CASE Stop \/ ShutdownEnds
  <2>1. Leads(sys) /\ Steps(sys, W)
    BY <1>1, <1>2, GotoLeads, StillSteps DEF Stop, ShutdownEnds, Still, Mute
  <2> QED  BY <1>1, <2>1, LeadsSteps
<1>3. CASE SweepIdle \/ ShutdownOne
  <2>1. PICK c \in Conn : \/ Goto(CloseConn(sys, c), "loop")
                          \/ Goto(CloseConn(sys, c), "shutdown")
    BY <1>3 DEF SweepIdle, ShutdownOne
  <2>2. Steps(CloseConn(sys, c), W)
    BY <1>1, CloseConnMoves, MovesSteps
  <2> QED  BY <1>1, <2>1, <2>2, GotoLeads, LeadsSteps
<1> QED  BY <1>2, <1>3 DEF Ending

LEMMA TakeHdrStill ==
    ASSUME NEW s \in Sys, NEW c \in Conn
    PROVE  LET t == TakeHdr(s, c)
           IN  /\ Still(s, t) /\ t.hdr[c] = NextFrame(s, c) /\ t.ep = s.ep
BY DEF TakeHdr, NextFrame, Sys, Still, Mute

LEMMA ParseSteps ==
    ASSUME NEW W, IInv, Wired(sys), MayWrite(W), Parse
    PROVE  Steps(sys', W)
<1>1. Good(sys) /\ sys \in Sys /\ Allowed(sys, W) /\ cur \in Conn /\ pc = "parse"
  BY GoodSys DEF IInv, MayWrite, Parse, ParseEnds, ParsePanics, ParseRejects,
                 ParseWaits, CanParse, Parsing, At, LoopsOK
<1>2. CASE ParseEnds
  <2>1. Leads(sys) /\ Steps(sys, W)
    BY <1>1, <1>2, GotoLeads, StillSteps DEF ParseEnds, Still, Mute
  <2> QED  BY <1>1, <2>1, LeadsSteps
<1>3. CASE ParsePanics
  <2> DEFINE t == [sys EXCEPT !.panic = TRUE]
  <2>1. Leads(t)
    BY <1>3, GotoLeads DEF ParsePanics
  <2>2. Still(sys, t)
    BY <1>1 DEF Sys, Still, Mute
  <2> HIDE DEF t
  <2> QED  BY <1>1, <2>1, <2>2, StillSteps, LeadsSteps
<1>4. CASE ParseRejects
  <2> DEFINE t == IF sys.role[cur] = "down" THEN Reply(sys, cur, 0) ELSE sys
             u == CloseConn(t, cur)
  <2>1. Leads(u) /\ cur \in sys.rings
    BY <1>4, GotoLeads DEF ParseRejects, CanParse
  <2>2. 0 \in 0 .. MaxReq
    BY ReactorAssumption
  <2>3. sys.role[cur] = "down" => ErrorOf(0) \in W[cur]
    BY <1>1, <2>1 DEF MayWrite
  <2>4. Moves(sys, t, W)
    BY <1>1, <2>1, <2>2, <2>3, RingOwn, ReplyMoves, MovesSelf
  <2> HIDE DEF t
  <2>5. Moves(t, u, W)
    BY <1>1, <2>4, MovesWired, MovesAllowed, CloseConnMoves DEF Moves, Closes
  <2> HIDE DEF u
  <2> QED  BY <1>1, <2>1, <2>4, <2>5, MovesTrans, MovesSteps, LeadsSteps
<1>5. CASE ParseWaits
  <2> DEFINE t == TakeHdr(sys, cur)
  <2>1. Leads(t)
    BY <1>5, GotoLeads DEF ParseWaits
  <2>2. Still(sys, t)
    BY <1>1, TakeHdrStill
  <2> HIDE DEF t
  <2> QED  BY <1>1, <2>1, <2>2, StillSteps, LeadsSteps
<1> QED  BY <1>2, <1>3, <1>4, <1>5 DEF Parse

(* A client's upstream connection is closed because Pick returned another  *)
(* endpoint (or one whose connection is not up), and one to that endpoint  *)
(* is dialled, which may fail.                                             *)
Reselects ==
    LET t == TakeHdr(sys, cur)
        h == t.hdr[cur]
    IN  /\ Dispatch /\ sys.role[cur] = "down" /\ sys.peer[cur] # Nil
        /\ DownUndialled(t, h) \/ DownDialled(t, h)

(* Before its header is taken, or after: the state is the same to the      *)
(* handlers that write.                                                    *)
LEMMA StillMoves ==
    ASSUME NEW s, NEW t, NEW W, Closes(s, t), Still(s, t), s \in Sys
    PROVE  Moves(s, t, W)
BY MuteAdds DEF Moves, Still, Fades

LEMMA DownSteps ==
    ASSUME NEW W, NEW t, NEW h, IInv, Wired(sys), MayWrite(W), AtHeader,
           cur \in Conn, h = NextFrame(sys, cur), h \in Frame,
           Moves(sys, t, W), Still(sys, t), t.ep = sys.ep,
           sys.role[cur] = "down",
           DownUndialled(t, h) \/ DownDialled(t, h) => sys.peer[cur] = Nil,
           \/ DownPing(t, h) \/ DownClose(t, h) \/ DownError(t, h)
           \/ DownRefused(t, h) \/ DownPooled(t, h)
           \/ DownUndialled(t, h) \/ DownDialled(t, h)
    PROVE  Steps(sys', W)
<1>1. /\ Good(sys) /\ sys \in Sys /\ Good(t) /\ t \in Sys /\ Wired(t)
      /\ Allowed(t, W) /\ t.role = sys.role /\ t.peer = sys.peer
      /\ t.rings = sys.rings /\ cur \in t.rings /\ Own(t, cur)
  <2>1. Good(sys) /\ Good(t) /\ Allowed(sys, W) /\ Wired(t)
    BY MovesWired DEF IInv, Moves, Closes, MayWrite
  <2>2. cur \in t.rings
    BY DEF AtHeader, Still
  <2> QED  BY <2>1, <2>2, GoodSys, MovesAllowed, RingOwn DEF Still
<1>2. /\ ErrorOf(h.id) \in W[cur] /\ Pong(h) \in W[cur]
      /\ Dialled => h \in W[Fresh(sys)]
      /\ sys.peer[cur] # Nil => h \in W[sys.peer[cur]]
  BY DEF MayWrite
<1>3. ASSUME NEW u, Moves(t, u, W), Goto(u, "parse")
      PROVE  Steps(sys', W)
  BY <1>1, <1>3, MovesTrans, MovesSteps, GotoLeads, LeadsSteps
<1>4. CASE DownPing(t, h)
  <2> DEFINE u == Flush(t, cur, Pong(h))
             v == Consume(u, cur)
  <2>1. Moves(t, u, W)
    BY <1>1, <1>2, MadeFrames, FlushMoves
  <2>2. Goto(v, "parse")
    BY <1>4 DEF DownPing
  <2> HIDE DEF u
  <2>3. Moves(u, v, W)
    BY <2>1, ConsumeMoves DEF Moves, Closes
  <2> HIDE DEF v
  <2> QED  BY <1>1, <1>3, <2>1, <2>2, <2>3, MovesTrans
<1>5. CASE DownClose(t, h)
  <2> DEFINE u == Consume(t, cur)
             v == CloseConn(u, cur)
  <2>1. Moves(t, u, W)
    BY <1>1, ConsumeMoves
  <2>2. Goto(v, "parse")
    BY <1>5 DEF DownClose
  <2> HIDE DEF u
  <2>3. Moves(u, v, W)
    BY <1>1, <2>1, MovesWired, MovesAllowed, CloseConnMoves DEF Moves, Closes
  <2> HIDE DEF v
  <2> QED  BY <1>1, <1>3, <2>1, <2>2, <2>3, MovesTrans
<1>6. CASE DownError(t, h)
  BY <1>1, <1>3, <1>6, ConsumeMoves DEF DownError
<1>7. CASE DownRefused(t, h)
  BY <1>1, <1>2, <1>3, <1>7, OnNoDialMoves DEF DownRefused
<1>8. CASE DownPooled(t, h)
  <2> DEFINE u == Hold(t, cur, h)
             v == OnPooled(t, cur, h)
  <2>1. t.peer[cur] # Nil /\ t.role[t.peer[cur]] = "up"
    BY <1>8 DEF DownPooled, Reuses, Upstream
  <2>2. Settles(u, v, W) /\ Fades(t, v) /\ Adds(t, v, W)
    BY <1>1, <1>2, <2>1, OnPooledSettles
  <2>3. Leads(v)
    BY <1>8, GotoLeads DEF DownPooled
  <2>4. u.pend[cur] = h /\ \A x \in Conn : x # cur => u.pend[x] = sys.pend[x]
    BY <1>1, HoldParts DEF Still
  <2> HIDE DEF u, v
  <2>5. Fades(sys, v) /\ Adds(sys, v, W)
    BY <1>1, <2>2, GoodSys, FadesTrans, AddsTrans DEF Settles, Moves
  <2>6. Steps(v, W)
    BY <2>2, <2>4, <2>5, FadesSteps DEF Settles
  <2> QED  BY <1>1, <2>3, <2>6, LeadsSteps
<1>9. DownUndialled(t, h) \/ DownDialled(t, h) =>
          t.peer[cur] = Nil /\ Reselect(t, cur) = t
  BY <1>1 DEF Reuses, Upstream, Reselect
<1>10. CASE DownUndialled(t, h)
  <2>1. Goto(OnNoDial(t, cur, h), "parse")
    BY <1>9, <1>10 DEF DownUndialled
  <2> QED  BY <1>1, <1>2, <1>3, <2>1, OnNoDialMoves
<1>11. CASE DownDialled(t, h)
  <2> DEFINE n == Fresh(t)
             f == FreeFD(t)
  <2>1. PICK e \in EP, how \in {"progress"} \cup ({"instant"} \cap Faults) :
           /\ t.peer[cur] = Nil /\ FreeFDs(t) # {}
           /\ ThenResume(OnDialled(t, cur, h, e, n, f, how), "parse")
    <3>1. eligible \subseteq EP
      BY DEF IInv, EnvOK
    <3> QED  BY <1>9, <1>11, <3>1 DEF DownDialled
  <2>2. n \in Conn /\ t.role[n] = "new" /\ f \in FD /\ t.tab[f] = Nil
    BY <1>1, <1>11, <2>1, FreshType DEF DownDialled
  <2>3. n = Fresh(sys) /\ NewConns(sys) # {}
    <3>1. NewConns(t) = NewConns(sys)
      BY <1>1 DEF NewConns
    <3> QED  BY <1>11, <3>1 DEF DownDialled, Fresh
  <2> DEFINE v == OnDialled(t, cur, h, e, n, f, how)
  <2>5. Leads(v)
    BY <2>1, GotoLeads
  <2> HIDE DEF n, f
  <2>a. CASE sys' # v
    <3>1. sys' = [sys EXCEPT !.panic = TRUE]
      BY <2>5, <2>a DEF Leads
    <3>2. Still(sys, sys')
      BY <1>1, <3>1 DEF Sys, Still, Mute
    <3> QED  BY <1>1, <3>2, StillSteps
  <2>b. SUFFICES ASSUME sys' = v PROVE Steps(sys', W)
    BY <2>a
  <2>4. h \in W[n]
    <3>1. Allowed(t, Anything) /\ h \in Anything[n] /\ ErrorOf(h.id) \in Anything[cur]
      BY <1>1, <2>2, HdrType, MadeFrames DEF Allowed, Anything, Frame
    <3>2. PICK u : Dials(t, u, cur, n, h) /\ Settles(u, v, Anything)
      BY <1>1, <2>1, <2>2, <3>1, OnDialledSettles
    <3> HIDE DEF v
    <3>3. v.role[n] # "new"
      BY <2>2, <3>2 DEF Dials, Settles, Fades, IsUp
    <3> QED  BY <1>2, <2>3, <2>b, <3>3 DEF Dialled
  <2>6. PICK u : Dials(t, u, cur, n, h) /\ Settles(u, v, W)
    BY <1>1, <1>2, <2>1, <2>2, <2>4, OnDialledSettles
  <2> HIDE DEF v
  <2>7. Adds(sys, v, W)
    <3>1. u \in Sys /\ v \in Sys /\ Adds(t, u, W)
      BY <1>1, <2>6, GoodSys, MuteAdds DEF Dials, Settles
    <3> QED  BY <1>1, <2>6, <3>1, AddsTrans DEF Settles, Moves
  <2>8. ASSUME NEW x \in Conn
        PROVE  /\ v.role[x] = "down" => sys.role[x] = "down"
               /\ v.role[x] = "new" => sys.role[x] = "new"
               /\ sys.role[x] # "new" => v.fd[x] = sys.fd[x]
               /\ sys.role[x] = "down" => v.role[x] = "down"
               /\ v.pend[x] = sys.pend[x] \/ (x = cur /\ v.pend[x] = h)
    <3>1. \/ v.role[x] = u.role[x]
          \/ u.role[x] = "connecting" /\ v.role[x] = "up"
      BY <2>6 DEF Settles, Fades
    <3>2. IF x = n THEN IsUp(u, x) ELSE u.role[x] = t.role[x]
      BY <2>6 DEF Dials
    <3>3. v.pend[x] = u.pend[x]
      BY <2>6 DEF Settles
    <3>4. IF x = cur THEN u.pend[x] = h ELSE u.pend[x] = t.pend[x]
      BY <2>6 DEF Dials
    <3>5. v.fd[x] = u.fd[x] /\ (x # n => u.fd[x] = t.fd[x])
      BY <2>6 DEF Settles, Fades, Dials
    <3>6. t.fd = sys.fd /\ t.role = sys.role /\ t.pend = sys.pend
      BY <1>1 DEF Still
    <3> QED  BY <1>1, <2>2, <3>1, <3>2, <3>3, <3>4, <3>5, <3>6 DEF IsUp
  <2>9. ASSUME NEW x \in Conn, x \in v.rings, IsUp(v, x)
        PROVE  \/ x \in sys.rings /\ IsUp(sys, x) /\ v.peer[x] = sys.peer[x]
               \/ x = n /\ v.peer[x] = cur
    <3>1. IsUp(u, x)
      BY <2>6, <2>9 DEF Settles, Fades, IsUp
    <3>2. x \in u.rings /\ v.peer[x] = u.peer[x]
      BY <2>6, <2>9, <3>1 DEF Settles, Fades
    <3>3. CASE x = n
      BY <2>6, <3>2, <3>3 DEF Dials
    <3>4. CASE x # n
      <4>1. u.role[x] = t.role[x] /\ x \in t.rings
        BY <2>6, <3>2, <3>4 DEF Dials
      <4>2. x # cur
        BY <1>1, <3>1, <4>1 DEF IsUp
      <4>3. u.peer[x] = t.peer[x]
        BY <2>6, <3>4, <4>2 DEF Dials
      <4> QED  BY <1>1, <3>1, <3>2, <4>1, <4>3 DEF IsUp
    <3> QED  BY <3>3, <3>4
  <2>10. sys.role[n] = "new"
    BY <1>1, <2>2
  <2>11. Steps(v, W)
    BY <2>3, <2>6, <2>7, <2>8, <2>9, <2>10 DEF Steps, Settles
  <2> QED  BY <1>1, <2>5, <2>11, LeadsSteps
<1> QED  BY <1>4, <1>5, <1>6, <1>7, <1>8, <1>10, <1>11

LEMMA DispatchSteps ==
    ASSUME NEW W, IInv, Wired(sys), MayWrite(W), Dispatch, ~Reselects
    PROVE  Steps(sys', W)
<1> DEFINE t == TakeHdr(sys, cur)
           h == NextFrame(sys, cur)
<1>1. /\ Good(sys) /\ sys \in Sys /\ cur \in Conn /\ AtHeader
  BY GoodSys DEF IInv, Dispatch, CanParse, Parsing, At, LoopsOK, AtHeader
<1>2. h \in Frame
  BY <1>1, NextFrameType DEF AtHeader
<1>3. Still(sys, t) /\ t.hdr[cur] = h /\ t.ep = sys.ep
  BY <1>1, TakeHdrStill
<1>4. Moves(sys, t, W)
  BY <1>1, <1>3, TakeHdrCloses, StillMoves DEF AtHeader
<1>5. /\ sys.role[cur] = "down" =>
            \/ DownPing(t, h) \/ DownClose(t, h) \/ DownError(t, h)
            \/ DownRefused(t, h) \/ DownPooled(t, h)
            \/ DownUndialled(t, h) \/ DownDialled(t, h)
      /\ sys.role[cur] = "up" => Goto(OnUp(t, cur, h), "parse")
      /\ sys.role[cur] \notin {"down", "up"} => Goto(Consume(t, cur), "parse")
  BY <1>3 DEF Dispatch
<1>6. sys.role[cur] = "down" /\ (DownUndialled(t, h) \/ DownDialled(t, h)) =>
          sys.peer[cur] = Nil
  BY <1>3 DEF Reselects
<1> HIDE DEF t, h
<1>7. CASE sys.role[cur] = "down"
  BY <1>1, <1>2, <1>3, <1>4, <1>5, <1>6, <1>7, DownSteps DEF h
<1>8. ASSUME NEW u, Moves(t, u, W), Goto(u, "parse")
      PROVE  Steps(sys', W)
  BY <1>1, <1>4, <1>8, MovesTrans, MovesSteps, GotoLeads, LeadsSteps
<1>9. Good(t) /\ Wired(t) /\ Allowed(t, W)
  BY <1>4, MovesWired, MovesAllowed DEF Moves, Closes, MayWrite
<1>10. CASE sys.role[cur] = "up"
  <2>1. t.peer[cur] # Nil => h \in W[t.peer[cur]]
    BY <1>1, <1>3 DEF MayWrite, Still, h
  <2>2. Moves(t, OnUp(t, cur, h), W)
    BY <1>1, <1>2, <1>9, <2>1, OnUpMoves
  <2> QED  BY <1>5, <1>8, <1>10, <2>2
<1>11. CASE sys.role[cur] \notin {"down", "up"}
  BY <1>1, <1>5, <1>8, <1>9, <1>11, ConsumeMoves
<1> QED  BY <1>7, <1>10, <1>11

LEMMA RunSteps ==
    ASSUME NEW W, IInv, Wired(sys), MayWrite(W), Run, ~Reselects
    PROVE  Steps(sys', W)
BY WaitSteps, HandleSteps, AcceptSteps, ReadSteps, ParseSteps, DispatchSteps,
   EndingSteps DEF Run, Work, Read, Parse, Ending

----------------------------------------------------------------------------
(* The kernel and the far ends leave the links alone, and take nothing     *)
(* from a client but what it reads.                                        *)

Outside(s, t) ==
    /\ t.tab = s.tab /\ t.fd = s.fd /\ t.rings = s.rings /\ t.peer = s.peer
    /\ t.role = s.role /\ t.held = s.held /\ t.pend = s.pend
    /\ t.remain = s.remain

LEMMA ArmOutside ==
    ASSUME NEW s \in Sys, NEW t \in Sys, NEW c \in Conn, Outside(s, t)
    PROVE  Outside(s, Arm(t, c)) /\ Arm(t, c).got = t.got
BY ArmKeeps, ArmQuiet, ArmMute DEF Outside, Same, Quiet, Mute

LEMMA ArriveOutside ==
    ASSUME NEW s \in Sys, NEW c \in Conn, NEW f, NEW k
    PROVE  Outside(s, Arrive(s, c, f, k)) /\ Arrive(s, c, f, k).got = s.got
BY DEF Outside, Arrive, Arm, Sys

LEMMA ResetOutside ==
    ASSUME NEW s \in Sys, NEW c \in Conn
    PROVE  Outside(s, Reset(s, c)) /\ Reset(s, c).got = s.got
BY DEF Outside, Reset, Arm, Sys

LEMMA FarOutside ==
    ASSUME NEW c \in Conn, IInv,
           \/ UpstreamAnswers(c) \/ RestArrives(c) \/ PeerCloses(c)
           \/ PeerResets(c) \/ ConnectCompletes(c) \/ Drains(c)
    PROVE  /\ Outside(sys, sys')
           /\ \A x \in Conn : sys'.got[x] # sys.got[x] => x = c /\ UpstreamAnswers(c)
           /\ UpstreamAnswers(c) => sys'.got[c] = Tail(sys.got[c])
<1>0. sys \in Sys
  BY GoodSys DEF IInv
<1>1. CASE UpstreamAnswers(c)
  <2>0. PICK m \in UpKinds : \E k \in 1 .. m.len + 1 :
           sys' = [Arrive(sys, c, [op |-> m.op, id |-> Head(sys.got[c]).id,
                                   len |-> m.len], k) EXCEPT !.got[c] = Tail(@)]
    BY <1>1 DEF UpstreamAnswers
  <2>1. PICK k \in 1 .. m.len + 1 :
           sys' = [Arrive(sys, c, [op |-> m.op, id |-> Head(sys.got[c]).id,
                                   len |-> m.len], k) EXCEPT !.got[c] = Tail(@)]
    BY <2>0
  <2> DEFINE f == [op |-> m.op, id |-> Head(sys.got[c]).id, len |-> m.len]
             t == Arrive(sys, c, f, k)
  <2>2. sys' = [t EXCEPT !.got[c] = Tail(@)]
    BY <2>1
  <2>3. t \in Sys /\ Outside(sys, t) /\ t.got = sys.got
    <3>1. sys.got[c] \in Seq(Frame) /\ sys.got[c] # <<>>
      BY <1>0, <1>1 DEF UpstreamAnswers, Sys
    <3>2. Head(sys.got[c]) \in Frame
      BY <3>1, HeadTailProperties
    <3>3. f \in Frame /\ f.len = m.len
      BY <3>2, ReactorAssumption DEF Frame
    <3> HIDE DEF f
    <3>4. t \in Sys
      BY <3>3, ArriveGood, GoodSys DEF IInv
    <3> QED  BY <1>0, <3>4, ArriveOutside
  <2> HIDE DEF t
  <2>4. Outside(t, sys') /\ sys'.got = [sys.got EXCEPT ![c] = Tail(@)]
    BY <2>2, <2>3 DEF Sys, Outside
  <2>5. DOMAIN sys.got = Conn
    BY <1>0 DEF Sys
  <2>6. /\ sys'.got[c] = Tail(sys.got[c])
        /\ \A x \in Conn : x # c => sys'.got[x] = sys.got[x]
    BY <2>4, <2>5
  <2> QED  BY <1>1, <2>3, <2>4, <2>6 DEF Outside
<1>2. CASE /\ ~UpstreamAnswers(c)
           /\ RestArrives(c) \/ PeerCloses(c) \/ Drains(c)
  <2>1. CASE RestArrives(c)
    <3>1. sys' = Arm([sys EXCEPT !.inbox[c] = @ \o sys.wire[c],
                                 !.wire[c] = <<>>], c)
      BY <2>1 DEF RestArrives
    <3> QED  BY <1>0, <1>2, <3>1 DEF Arm, Outside, Sys
  <2>2. CASE PeerCloses(c)
    <3>1. sys' = Arm([sys EXCEPT !.rx[c] = "eof", !.wire[c] = <<>>], c)
      BY <2>2 DEF PeerCloses
    <3> QED  BY <1>0, <1>2, <3>1 DEF Arm, Outside, Sys
  <2>3. CASE Drains(c)
    <3>1. sys' = Arm([sys EXCEPT !.tx[c] = "open"], c)
      BY <2>3 DEF Drains
    <3> QED  BY <1>0, <1>2, <3>1 DEF Arm, Outside, Sys
  <2> QED  BY <1>2, <2>1, <2>2, <2>3
<1>3. CASE ~UpstreamAnswers(c) /\ (PeerResets(c) \/ ConnectCompletes(c))
  <2>1. sys' = Reset(sys, c) \/ sys' = Arm([sys EXCEPT !.tx[c] = "open"], c)
    BY <1>3 DEF PeerResets, ConnectCompletes
  <2>2. sys' = Arm([sys EXCEPT !.tx[c] = "open"], c)
            => Outside(sys, sys') /\ sys'.got = sys.got
    BY <1>0 DEF Arm, Outside, Sys
  <2>3. Outside(sys, sys') /\ sys'.got = sys.got
    BY <1>0, <2>1, <2>2, ResetOutside
  <2> QED  BY <1>3, <2>3
<1> QED  BY <1>1, <1>2, <1>3

LEMMA ClientOutside ==
    ASSUME NEW c \in Conn, IInv,
           \/ ClientConnects \/ HealthChanges \/ ClientSends(c) \/ Slows(c)
    PROVE  Outside(sys, sys') /\ sys'.got = sys.got
<1>0. sys \in Sys
  BY GoodSys DEF IInv
<1>1. CASE ClientConnects \/ HealthChanges
  BY <1>1 DEF ClientConnects, HealthChanges, Outside
<1>2. CASE ClientSends(c)
  <2>1. \E f, k : sys' = Arrive(sys, c, f, k)
    BY <1>2 DEF ClientSends
  <2> QED  BY <1>0, <2>1, ArriveOutside
<1>3. CASE Slows(c)
  <2>1. PICK r \in {"tight"} \cup ({"full"} \cap Faults) :
           sys' = [sys EXCEPT !.tx[c] = r]
    BY <1>3 DEF Slows
  <2> QED  BY <1>0, <2>1 DEF Sys, Outside
<1> QED  BY <1>1, <1>2, <1>3

(* Of the output only what an upstream has been sent shrinks.              *)
LEMMA EnvironmentOutside ==
    ASSUME IInv, Environment
    PROVE  /\ Outside(sys, sys')
           /\ \A x \in Conn : \/ sys'.got[x] = sys.got[x]
                              \/ Up(x) /\ sys.got[x] # <<>>
                                       /\ sys'.got[x] = Tail(sys.got[x])
<1>1. CASE ClientConnects \/ HealthChanges
  <2>1. Conn # {}
    BY ReactorAssumption
  <2> QED  BY <1>1, <2>1, ClientOutside
<1>2. CASE \E c \in Conn : \/ ClientSends(c) \/ UpstreamAnswers(c)
                           \/ RestArrives(c) \/ PeerCloses(c) \/ PeerResets(c)
                           \/ ConnectCompletes(c) \/ Slows(c) \/ Drains(c)
  <2>1. PICK c \in Conn : \/ ClientSends(c) \/ UpstreamAnswers(c)
                          \/ RestArrives(c) \/ PeerCloses(c) \/ PeerResets(c)
                          \/ ConnectCompletes(c) \/ Slows(c) \/ Drains(c)
    BY <1>2
  <2>2. UpstreamAnswers(c) => Up(c) /\ sys.got[c] # <<>>
    BY DEF UpstreamAnswers
  <2>3. CASE ClientSends(c) \/ Slows(c)
    BY <2>3, ClientOutside
  <2>4. CASE ~(ClientSends(c) \/ Slows(c))
    BY <2>1, <2>2, <2>4, FarOutside
  <2> QED  BY <2>3, <2>4
<1> QED  BY <1>1, <1>2 DEF Environment

LEMMA OutsideWired ==
    ASSUME NEW s, NEW t, Wired(s), Outside(s, t)
    PROVE  Wired(t)
BY DEF Wired, Outside, IsUp

----------------------------------------------------------------------------
(* Links and output, as long as no client's upstream is replaced.          *)

LinkInv == FlowInv /\ Wired(sys)

LEMMA MayWriteAnything == LinkInv => MayWrite(Anything)
<1> SUFFICES ASSUME LinkInv PROVE MayWrite(Anything)
  OBVIOUS
<1>1. Good(sys) /\ sys \in Sys /\ Wired(sys) /\ LoopsOK
  BY GoodSys DEF LinkInv, FlowInv, IInv
<1>2. Allowed(sys, Anything)
  BY <1>1, HdrType, MadeFrames DEF Allowed, Anything
<1>3. ASSUME NEW c \in sys.rings, sys.role[c] = "connecting"
      PROVE  sys.pend[sys.peer[c]] \in Anything[c]
  <2>1. c \in Conn /\ sys.peer[c] # Nil
    BY <1>1, <1>3 DEF Sys, Wired, IsUp
  <2>2. sys.peer[c] \in Conn
    BY <1>1, <2>1 DEF Sys
  <2> QED  BY <1>1, <2>1, <2>2, HdrType DEF Anything
<1>4. ASSUME pc = "parse" PROVE cur \in Conn /\ ErrorOf(0) \in Anything[cur]
  <2>1. 0 \in 0 .. MaxReq /\ cur \in Conn
    BY <1>1, <1>4, ReactorAssumption DEF LoopsOK
  <2> QED  BY <2>1, MadeFrames DEF Anything
<1>5. ASSUME AtHeader
      PROVE  LET h == NextFrame(sys, cur)
             IN  /\ ErrorOf(h.id) \in Anything[cur] /\ Pong(h) \in Anything[cur]
                 /\ Dialled => h \in Anything[Fresh(sys)]
                 /\ sys.peer[cur] # Nil => h \in Anything[sys.peer[cur]]
  <2> DEFINE h == NextFrame(sys, cur)
  <2>1. cur \in Conn /\ h \in Frame
    BY <1>1, <1>4, <1>5, NextFrameType DEF AtHeader
  <2> HIDE DEF h
  <2>2. ErrorOf(h.id) \in Frame /\ Pong(h) \in Frame
    BY <2>1, MadeFrames DEF Frame
  <2>3. NewConns(sys) # {} => Fresh(sys) \in Conn
    BY <1>1, FreshType
  <2>4. sys.peer[cur] # Nil => sys.peer[cur] \in Conn
    BY <1>1, <2>1 DEF Sys
  <2> QED  BY <2>1, <2>2, <2>3, <2>4 DEF Anything, Dialled, h
<1> QED  BY <1>2, <1>3, <1>4, <1>5 DEF MayWrite

LEMMA LongerPrefix ==
    ASSUME NEW p \in Seq(Frame), NEW q \in Seq(Frame), NEW S, Longer(p, q, S)
    PROVE  IsPrefixOf(p, q)
<1> DEFINE m == Len(p)
           w == SubSeq(q, 1, m)
<1>1. m \in Nat /\ Len(q) \in Nat /\ m <= Len(q)
  BY LenProperties DEF Longer
<1>2. \A i \in 1 .. m : q[i] \in Frame /\ q[i] = p[i]
  <2>1. \A i \in 1 .. Len(q) : q[i] \in Frame
    BY ElementOfSeq
  <2>2. \A i \in 1 .. m : i \in 1 .. Len(q) /\ q[i] = p[i]
    BY <1>1 DEF Longer
  <2> QED  BY <2>1, <2>2
<1>3. /\ w \in Seq(Frame) /\ Len(w) = m
      /\ \A i \in 1 .. m : w[i] = q[i]
  <2> HIDE DEF m
  <2>1. /\ SubSeq(q, 1, m) \in Seq(Frame)
        /\ Len(SubSeq(q, 1, m)) = IF 1 <= m THEN m - 1 + 1 ELSE 0
        /\ \A i \in 1 .. m - 1 + 1 : SubSeq(q, 1, m)[i] = q[1 + i - 1]
    BY <1>1, <1>2, SubSeqProperties
  <2>2. w \in Seq(Frame) /\ Len(w) = m
    BY <1>1, <2>1
  <2>3. ASSUME NEW i \in 1 .. m PROVE w[i] = q[i]
    <3>1. i \in 1 .. m - 1 + 1 /\ 1 + i - 1 = i
      BY <1>1
    <3> QED  BY <2>1, <3>1
  <2> QED  BY <2>2, <2>3
<1> HIDE DEF w
<1>4. p = w
  BY <1>2, <1>3, SeqEqual
<1> QED  BY <1>1, <1>4 DEF IsPrefixOf, w

LEMMA InitLinks == Init => LinkInv
<1> SUFFICES ASSUME Init PROVE LinkInv
  OBVIOUS
<1>1. FlowInv
  BY InitFlow
<1>2. Wired(sys)
  BY DEF Init, Wired
<1> QED  BY <1>1, <1>2 DEF LinkInv

LEMMA NextLinks == LinkInv /\ [Next]_vars /\ [~Reselects]_vars => LinkInv'
<1> SUFFICES ASSUME LinkInv, [Next]_vars, [~Reselects]_vars PROVE LinkInv'
  OBVIOUS
<1>1. FlowInv' /\ IInv /\ Wired(sys)
  BY NextFlow DEF LinkInv, FlowInv
<1>2. CASE Run /\ ~Reselects
  <2>1. Steps(sys', Anything)
    BY <1>1, <1>2, MayWriteAnything, RunSteps
  <2> QED  BY <1>1, <2>1 DEF LinkInv, Steps
<1>3. CASE Environment
  BY <1>1, <1>3, EnvironmentOutside, OutsideWired DEF LinkInv
<1>4. CASE UNCHANGED vars
  BY <1>1, <1>4 DEF LinkInv, vars
<1> QED  BY <1>2, <1>3, <1>4 DEF Next

(* No upstream connection outlives its client, as long as no client's      *)
(* upstream is replaced: onDown, which closes the old one with an ERROR    *)
(* frame that may close the client too, is the one handler that leaves an  *)
(* upstream connection to a closed client behind.                          *)
THEOREM UpstreamsHaveClients ==
    Spec /\ [][~Reselects]_vars => []NoOrphanUpstream
<1>1. LinkInv => NoOrphanUpstream
  <2> SUFFICES ASSUME LinkInv, NEW c \in Conn, Live(sys, c), Up(c) PROVE Linked(c)
    BY DEF NoOrphanUpstream
  <2>1. Good(sys) /\ Wired(sys) /\ c \in sys.rings /\ IsUp(sys, c)
    BY DEF LinkInv, FlowInv, IInv, Good, Sound, RingsLive, Up, IsUp
  <2>2. sys.peer[c] # Nil
    BY <2>1 DEF Wired
  <2>3. sys.peer[c] \in Conn /\ sys.peer[sys.peer[c]] = c
    BY <2>1, <2>2, PeerApart DEF Good, Paired
  <2>4. sys.peer[c] \in sys.rings
    BY <2>1, <2>3, ReactorAssumption DEF Wired
  <2> QED  BY <2>1, <2>2, <2>3, <2>4 DEF Linked, Good, Sound, RingsLive
<1> QED  BY <1>1, InitLinks, NextLinks, PTL DEF Spec

LEMMA NextOutput ==
    LinkInv /\ LinkInv' /\ [Next]_vars /\ [~Reselects]_vars =>
        [\A c \in Conn : sys.role[c] = "down" => IsPrefixOf(Output(c), Output(c)')]_vars
<1> SUFFICES ASSUME LinkInv, LinkInv', [Next]_vars, [~Reselects]_vars,
                    ~UNCHANGED vars, NEW c \in Conn, sys.role[c] = "down"
             PROVE  IsPrefixOf(Output(c), Output(c)')
  OBVIOUS
<1>1. IInv /\ Wired(sys) /\ sys \in Sys /\ sys' \in Sys /\ ~Reselects
  BY GoodSys DEF LinkInv, FlowInv, IInv
<1>2. Longer(OutOf(sys, c), OutOf(sys', c), Frame)
  <2>1. CASE Run
    <3>1. Adds(sys, sys', Anything)
      BY <1>1, <2>1, MayWriteAnything, RunSteps DEF Steps
    <3> QED  BY <3>1 DEF Adds, Anything
  <2>2. CASE Environment
    <3>1. OutOf(sys', c) = OutOf(sys, c)
      BY <1>1, <2>2, EnvironmentOutside DEF Outside, OutOf, Up
    <3> QED  BY <1>1, <3>1, OutType, LongerSelf
  <2> QED  BY <2>1, <2>2 DEF Next
<1>3. IsPrefixOf(OutOf(sys, c), OutOf(sys', c))
  BY <1>1, <1>2, OutType, LongerPrefix
<1> QED  BY <1>3 DEF Output, OutOf

(* What was written to a client is never reordered or taken back, whether  *)
(* it was sent or is stashed, through short writes, refused ones, replies  *)
(* behind a remainder and a connection that closes meanwhile; as long as   *)
(* no client's upstream is replaced, after which the client's descriptor   *)
(* may name another socket.                                                *)
THEOREM OutputOnlyGrows == Spec /\ [][~Reselects]_vars => OutputGrows
<1>1. LinkInv /\ LinkInv' /\ [Next]_vars /\ [~Reselects]_vars =>
          [\A c \in Conn : sys.role[c] = "down" => IsPrefixOf(Output(c), Output(c)')]_vars
  BY NextOutput
<1> QED  BY <1>1, InitLinks, NextLinks, PTL DEF Spec, OutputGrows

(* With one endpoint no upstream is ever replaced: one that is connected   *)
(* is reused, and while it connects the client's request is held.          *)
OneEndpoint == \A a, b \in EP : a = b

LEMMA NoneReselects ==
    ASSUME OneEndpoint, LinkInv PROVE ~Reselects
<1> SUFFICES ASSUME Reselects PROVE FALSE
  OBVIOUS
<1> DEFINE p == sys.peer[cur]
<1>1. /\ cur \in Conn /\ cur \notin sys.held /\ p # Nil /\ sys.role[cur] = "down"
      /\ Good(sys) /\ Wired(sys) /\ Endpoints(sys) /\ sys \in Sys
  BY GoodSys DEF Reselects, Dispatch, CanParse, Parsing, At, LinkInv, FlowInv,
                 IInv, LoopsOK, Tidy
<1>2. PICK e \in EP : ~Reuses(sys, cur, e)
  <2>1. eligible \subseteq EP
    BY DEF LinkInv, FlowInv, IInv, EnvOK
  <2>2. PICK e \in eligible : ~Reuses(TakeHdr(sys, cur), cur, e)
    BY DEF Reselects, DownUndialled, DownDialled
  <2>3. Reuses(TakeHdr(sys, cur), cur, e) <=> Reuses(sys, cur, e)
    BY DEF Reuses, Upstream, TakeHdr
  <2> QED  BY <2>1, <2>2, <2>3
<1>3. p \in Conn /\ sys.peer[p] = cur /\ IsUp(sys, p)
  BY <1>1, PeerApart DEF Good, Paired
<1>4. sys.role[p] = "up"
  BY <1>1, <1>3, ReactorAssumption DEF Wired, IsUp
<1>5. sys.ep[p] = e
  BY <1>1, <1>3 DEF Endpoints, Sys, OneEndpoint
<1> QED  BY <1>1, <1>2, <1>4, <1>5 DEF Reuses, Upstream

(* So with one endpoint both hold of every behaviour.                      *)
THEOREM OneEndpointLinks ==
    ASSUME OneEndpoint
    PROVE  Spec => []NoOrphanUpstream /\ OutputGrows
<1>1. LinkInv /\ [Next]_vars => LinkInv' /\ [~Reselects]_vars
  BY NoneReselects, NextLinks
<1>2. Spec => [][~Reselects]_vars
  BY <1>1, InitLinks, PTL DEF Spec
<1> QED  BY <1>2, UpstreamsHaveClients, OutputOnlyGrows, PTL
============================================================================
