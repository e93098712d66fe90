-------------------------- MODULE ReactorFlowProofs --------------------------
(***************************************************************************)
(* Proofs about what the handlers of a Reactor do across connections:      *)
(* whose the answers are, the edges of the connections, the requests that  *)
(* wait for a connect, the writes that fail and how often a request is     *)
(* answered.                                                               *)
(***************************************************************************)
EXTENDS ReactorProofs

----------------------------------------------------------------------------
(* The frames in a connection's input: no handler adds one.                *)

Said(q) == {q[i][1] : i \in 1 .. Len(q)}

Heard(s, c) == {f \in {s.hdr[c]} : c \in s.have}
                   \cup Said(s.ring[c]) \cup Said(s.inbox[c]) \cup Said(s.wire[c])

Forgets(s, t) == \A x \in Conn : Heard(t, x) \subseteq Heard(s, x)

LEMMA SaidNone == Said(<<>>) = {}
<1>1. Len(<<>>) = 0 /\ 1 .. 0 = {}
  OBVIOUS
<1> QED  BY <1>1 DEF Said

LEMMA SaidFrames ==
    ASSUME NEW q \in Seq(Cell)
    PROVE  Said(q) \subseteq Frame
BY CellParts DEF Said

LEMMA SaidConcat ==
    ASSUME NEW p \in Seq(Cell), NEW q \in Seq(Cell)
    PROVE  Said(p \o q) \subseteq Said(p) \cup Said(q)
<1> SUFFICES ASSUME NEW i \in 1 .. Len(p \o q)
             PROVE  (p \o q)[i][1] \in Said(p) \cup Said(q)
  BY DEF Said
<1>1. /\ Len(p) \in Nat /\ Len(q) \in Nat /\ i \in 1 .. Len(p) + Len(q)
      /\ (p \o q)[i] = IF i <= Len(p) THEN p[i] ELSE q[i - Len(p)]
  BY ConcatProperties, LenProperties
<1>2. CASE i <= Len(p)
  BY <1>1, <1>2 DEF Said
<1>3. CASE i > Len(p)
  <2>1. i - Len(p) \in 1 .. Len(q) /\ (p \o q)[i] = q[i - Len(p)]
    BY <1>1, <1>3
  <2> QED  BY <2>1 DEF Said
<1> QED  BY <1>1, <1>2, <1>3

LEMMA SaidPart ==
    ASSUME NEW q \in Seq(Cell), NEW m \in Nat, NEW n \in 0 .. Len(q)
    PROVE  Said(SubSeq(q, m + 1, n)) \subseteq Said(q)
<1> DEFINE r == SubSeq(q, m + 1, n)
<1>1. Len(q) \in Nat
  BY LenProperties
<1>2. CASE m + 1 > n
  <2>1. r = <<>>
    BY <1>1, <1>2, SubSeqProperties
  <2> HIDE DEF r
  <2> QED  BY <2>1, SaidNone DEF r
<1>3. CASE m + 1 <= n
  <2>1. Len(r) = n - m /\ \A i \in 1 .. n - m : r[i] = q[m + i]
    <3>1. \A i \in m + 1 .. n : q[i] \in Cell
      BY <1>1, ElementOfSeq
    <3>2. /\ Len(r) = n - (m + 1) + 1
          /\ \A i \in 1 .. n - (m + 1) + 1 : r[i] = q[m + 1 + i - 1]
      BY <1>1, <1>3, <3>1, SubSeqProperties
    <3> HIDE DEF r
    <3>3. ASSUME NEW i \in 1 .. n - m PROVE r[i] = q[m + i]
      <4>1. i \in 1 .. n - (m + 1) + 1 /\ m + 1 + i - 1 = m + i
        BY <1>1
      <4> QED  BY <3>2, <4>1
    <3> QED  BY <1>1, <3>2, <3>3
  <2> HIDE DEF r
  <2>2. ASSUME NEW i \in 1 .. Len(r) PROVE r[i][1] \in Said(q)
    <3>1. i \in 1 .. n - m /\ m + i \in 1 .. Len(q)
      BY <1>1, <1>3, <2>1
    <3> QED  BY <2>1, <3>1 DEF Said
  <2> QED  BY <2>2 DEF Said, r
<1> QED  BY <1>1, <1>2, <1>3

LEMMA SaidTail ==
    ASSUME NEW q \in Seq(Cell), q # <<>>
    PROVE  Said(Tail(q)) \subseteq Said(q) /\ q[1][1] \in Said(q)
<1>1. Len(q) \in Nat \ {0} /\ Tail(q) = SubSeq(q, 1 + 1, Len(q))
  BY EmptySeq, TailIsSubSeq
<1>2. 1 \in 1 .. Len(q) /\ Len(q) \in 0 .. Len(q) /\ 1 \in Nat
  BY <1>1
<1>3. Said(SubSeq(q, 1 + 1, Len(q))) \subseteq Said(q)
  BY <1>2, SaidPart
<1> QED  BY <1>1, <1>2, <1>3 DEF Said

LEMMA ForgetsTrans ==
    ASSUME NEW s, NEW t, NEW u, Forgets(s, t), Forgets(t, u)
    PROVE  Forgets(s, u)
BY DEF Forgets

LEMMA QuietForgets ==
    ASSUME NEW s, NEW t, Quiet(s, t)
    PROVE  Forgets(s, t)
BY DEF Quiet, Forgets, Heard

(* Only c's input differs.                                                 *)
LEMMA InputForgets ==
    ASSUME NEW s, NEW t, NEW c \in Conn,
           \A x \in Conn : x # c =>
              /\ x \in t.have <=> x \in s.have
              /\ t.hdr[x] = s.hdr[x] /\ t.ring[x] = s.ring[x]
              /\ t.inbox[x] = s.inbox[x] /\ t.wire[x] = s.wire[x],
           Heard(t, c) \subseteq Heard(s, c)
    PROVE  Forgets(s, t)
<1> SUFFICES ASSUME NEW x \in Conn, x # c PROVE Heard(t, x) \subseteq Heard(s, x)
  BY DEF Forgets
<1> QED  BY DEF Heard

LEMMA DropLiveForgets ==
    ASSUME NEW s \in Sys, NEW c \in Conn
    PROVE  Forgets(s, Drop(s, c)) /\ Forgets(s, DropLive(s, c))
<1> DEFINE t == Drop(s, c)
<1>1. /\ t.hdr = s.hdr /\ t.have = s.have
      /\ t.ring = [s.ring EXCEPT ![c] = <<>>]
      /\ t.inbox = [s.inbox EXCEPT ![c] = <<>>]
      /\ t.wire = [s.wire EXCEPT ![c] = <<>>]
  BY DEF Drop, Sys
<1> HIDE DEF t
<1>2. /\ t.ring[c] = <<>> /\ t.inbox[c] = <<>> /\ t.wire[c] = <<>>
      /\ \A x \in Conn : x # c =>
            t.ring[x] = s.ring[x] /\ t.inbox[x] = s.inbox[x] /\ t.wire[x] = s.wire[x]
  BY <1>1 DEF Sys
<1>3. Heard(t, c) \subseteq Heard(s, c)
  BY <1>1, <1>2, SaidNone DEF Heard
<1>4. Forgets(s, t)
  <2>1. \A x \in Conn : x # c =>
              /\ x \in t.have <=> x \in s.have
              /\ t.hdr[x] = s.hdr[x] /\ t.ring[x] = s.ring[x]
              /\ t.inbox[x] = s.inbox[x] /\ t.wire[x] = s.wire[x]
    BY <1>1, <1>2
  <2> QED  BY <1>3, <2>1, InputForgets
<1>5. Forgets(s, s)
  BY DEF Forgets
<1> QED  BY <1>4, <1>5 DEF DropLive, t

LEMMA ReplyAloneForgets ==
    ASSUME NEW s, NEW c \in Conn, NEW f \in Frame, Good(s), s.peer[c] = Nil
    PROVE  Forgets(s, ReplyAlone(s, c, f))
<1> DEFINE t == DropLive(s, c)
<1>1. Forgets(s, t) /\ t \in Sys /\ s \in Sys
  BY DropLiveForgets, DropLiveCloses DEF Closes, Good, Sound
<1> HIDE DEF t
<1>2. Forgets(t, Spill(t, c, f)) /\ Forgets(s, Write(s, c, f))
  BY <1>1, SpillQuiet, WriteQuiet, QuietForgets
<1> QED  BY <1>1, <1>2, ForgetsTrans DEF ReplyAlone, t

LEMMA CloseConnForgets ==
    ASSUME NEW s, NEW c \in Conn, Good(s)
    PROVE  Forgets(s, CloseConn(s, c))
<1>0. s \in Sys
  BY GoodSys
<1>1. CASE ~Live(s, c)
  BY <1>1 DEF CloseConn, Forgets
<1>2. CASE Live(s, c) /\ s.peer[c] = Nil
  BY <1>0, <1>2, DropLiveForgets DEF CloseConn
<1>3. CASE Live(s, c) /\ s.peer[c] # Nil
  <2> DEFINE p == s.peer[c]
             t == Drop(s, c)
             u == Unlink(t, p)
             f == ErrorOf(u.pend[p].id)
  <2>1. /\ t \in Sys /\ t.peer[p] = c /\ p \in Conn /\ Good(u)
        /\ u.peer[p] = Nil /\ f \in Frame
    BY <1>3, UnlinkCloses DEF Closes
  <2>2. CloseConn(s, c) = IF u.role[p] = "down"
                          THEN ReplyAlone(u, p, f) ELSE DropLive(u, p)
    BY <1>3, <2>1 DEF CloseConn
  <2>3. Forgets(s, t)
    BY <1>0, DropLiveForgets
  <2> HIDE DEF t, f
  <2>4. Forgets(t, u)
    BY <2>1, PeerQuiet, QuietForgets DEF Unlink
  <2> HIDE DEF u
  <2>5. Forgets(u, CloseConn(s, c))
    BY <2>1, <2>2, GoodSys, ReplyAloneForgets, DropLiveForgets
  <2> QED  BY <2>3, <2>4, <2>5, ForgetsTrans
<1> QED  BY <1>1, <1>2, <1>3

LEMMA FlushForgets ==
    ASSUME NEW s, NEW c \in Conn, NEW f \in Frame, Good(s)
    PROVE  Forgets(s, Flush(s, c, f))
<1> DEFINE t == CloseConn(s, c)
<1>1. Forgets(s, t) /\ t \in Sys /\ s \in Sys
  BY CloseConnForgets, CloseConnCloses, GoodSys DEF Closes
<1> HIDE DEF t
<1>2. Forgets(t, Spill(t, c, f)) /\ Forgets(s, Write(s, c, f))
  BY <1>1, SpillQuiet, WriteQuiet, QuietForgets
<1> QED  BY <1>1, <1>2, ForgetsTrans DEF Flush, t

LEMMA FlushRemainForgets ==
    ASSUME NEW s, NEW c \in Conn, Good(s)
    PROVE  Forgets(s, FlushRemain(s, c))
BY GoodSys, CloseConnForgets, ResendQuiet, QuietForgets DEF FlushRemain

LEMMA ReplyForgets ==
    ASSUME NEW s, NEW c \in Conn, NEW i \in 0 .. MaxReq, Good(s)
    PROVE  Forgets(s, Reply(s, c, i))
BY MadeFrames, FlushForgets DEF Reply

LEMMA ReselectForgets ==
    ASSUME NEW s, NEW c \in Conn, Good(s)
    PROVE  Forgets(s, Reselect(s, c))
<1> DEFINE t == CloseConn(s, s.peer[c])
<1>1. CASE s.peer[c] = Nil
  BY <1>1 DEF Reselect, Forgets
<1>2. CASE s.peer[c] # Nil
  <2>1. Forgets(s, t) /\ t \in Sys /\ Reselect(s, c) = [t EXCEPT !.peer[c] = Nil]
    BY <1>2, PeerApart, CloseConnForgets, CloseConnCloses, GoodSys
       DEF Closes, Reselect
  <2> HIDE DEF t
  <2> QED  BY <2>1, PeerQuiet, QuietForgets, ForgetsTrans
<1> QED  BY <1>1, <1>2

LEMMA ConsumeForgets ==
    ASSUME NEW s, NEW c \in Conn, Good(s)
    PROVE  Forgets(s, Consume(s, c)) /\ Forgets(s, Release(s, c))
<1> DEFINE n == s.hdr[c].len
           q == s.ring[c]
           r == SubSeq(q, n + 1, Len(q))
           t == Consume(s, c)
           u == Release(s, c)
<1>1. s \in Sys /\ n \in Nat /\ q \in Seq(Cell) /\ Len(q) \in 0 .. Len(q)
  <2>1. s \in Sys
    BY GoodSys
  <2>2. n \in Nat /\ q \in Seq(Cell)
    BY <2>1, HdrType DEF Sys
  <2>3. Len(q) \in Nat
    BY <2>2, LenProperties
  <2> QED  BY <2>1, <2>2, <2>3
<1>2. Said(r) \subseteq Said(q)
  BY <1>1, SaidPart
<1>3. /\ t.hdr = s.hdr /\ t.inbox = s.inbox /\ t.wire = s.wire
      /\ t.have \in {s.have, s.have \ {c}}
      /\ t.ring = s.ring \/ t.ring = [s.ring EXCEPT ![c] = r]
  BY <1>1 DEF Consume, Sys
<1>4. /\ u.hdr = t.hdr /\ u.inbox = t.inbox /\ u.wire = t.wire
      /\ u.have = t.have /\ u.ring = t.ring
  <2>1. t \in Sys
    BY ConsumeCloses, GoodSys DEF Closes
  <2>2. u = [t EXCEPT !.held = @ \ {c}]
    BY DEF Release
  <2> HIDE DEF t, u
  <2> QED  BY <2>1, <2>2 DEF Sys
<1> HIDE DEF t, u, r
<1>5. /\ \A x \in Conn : x # c => t.ring[x] = s.ring[x]
      /\ t.ring[c] \in {q, r}
  BY <1>1, <1>3 DEF Sys
<1>6. Heard(t, c) \subseteq Heard(s, c)
  BY <1>2, <1>3, <1>5 DEF Heard
<1>7. Forgets(s, t)
  <2>1. \A x \in Conn : x # c =>
              /\ x \in t.have <=> x \in s.have
              /\ t.hdr[x] = s.hdr[x] /\ t.ring[x] = s.ring[x]
              /\ t.inbox[x] = s.inbox[x] /\ t.wire[x] = s.wire[x]
    BY <1>3, <1>5
  <2> QED  BY <1>6, <2>1, InputForgets
<1>8. Forgets(t, u)
  BY <1>4 DEF Forgets, Heard
<1> QED  BY <1>7, <1>8, ForgetsTrans DEF t, u

LEMMA FlagForgets ==
    ASSUME NEW s \in Sys, NEW v
    PROVE  /\ Forgets(s, [s EXCEPT !.paused = v])
           /\ Forgets(s, [s EXCEPT !.panic = v])
           /\ Forgets(s, [s EXCEPT !.armed = v])
BY DEF Forgets, Heard, Sys

LEMMA SendPendingForgets ==
    ASSUME NEW s, NEW down \in Conn, NEW up \in Conn, Good(s)
    PROVE  Forgets(s, SendPending(s, down, up))
<1> DEFINE r == Flush(s, up, s.pend[down])
           t == Release(r, down)
           x == [t EXCEPT !.panic = TRUE]
           y == [t EXCEPT !.paused = @ \ {down}]
<1>1. Closes(s, r) /\ Forgets(s, r)
  BY FlushCloses, FlushForgets, HdrType DEF Good, Sound
<1>2. SendPending(s, down, up) \in {t, x, y}
  BY DEF SendPending
<1> HIDE DEF r
<1>3. Forgets(r, t) /\ t \in Sys
  BY <1>1, ConsumeForgets, ReleaseCloses, GoodSys DEF Closes
<1> HIDE DEF t
<1>4. Forgets(t, x) /\ Forgets(t, y) /\ Forgets(s, t)
  BY <1>1, <1>3, FlagForgets, ForgetsTrans
<1> HIDE DEF x, y
<1> QED  BY <1>2, <1>4, ForgetsTrans

LEMMA ConnectFailedForgets ==
    ASSUME NEW s, NEW c \in Conn, Good(s)
    PROVE  Forgets(s, ConnectFailed(s, c))
<1> DEFINE d == s.peer[c]
           t == CloseConn(s, c)
           u == Reply(t, d, t.pend[d].id)
           v == IF d \in u.held THEN Release(u, d) ELSE u
           w == [v EXCEPT !.peer[d] = Nil]
<1>1. Good(t) /\ Forgets(s, t) /\ t \in Sys
  BY CloseConnCloses, CloseConnForgets, GoodSys DEF Closes
<1>2. ConnectFailed(s, c) = IF d = Nil THEN t ELSE w
  BY DEF ConnectFailed
<1> HIDE DEF t
<1>3. ASSUME d # Nil PROVE Forgets(t, w)
  <2>1. d \in Conn
    BY <1>3, PeerApart
  <2>2. Good(u) /\ Forgets(t, u)
    BY <1>1, <2>1, HdrType, ReplyCloses, ReplyForgets DEF Closes
  <2> HIDE DEF u
  <2>3. Forgets(u, v) /\ v \in Sys
    BY <2>1, <2>2, ConsumeForgets, ReleaseCloses, GoodSys DEF Closes, Forgets
  <2> HIDE DEF v
  <2>4. Forgets(v, w)
    BY <2>3, PeerQuiet, QuietForgets
  <2> HIDE DEF w
  <2> QED  BY <2>2, <2>3, <2>4, ForgetsTrans
<1> HIDE DEF w
<1> QED  BY <1>1, <1>2, <1>3, ForgetsTrans

LEMMA ConnectOnlyForgets ==
    ASSUME NEW s, NEW c \in Conn, Good(s)
    PROVE  Forgets(s, ConnectOnly(s, c))
<1> DEFINE a == [s.active EXCEPT ![s.ep[c]] = @ + 1]
           t == [s EXCEPT !.role[c] = "up", !.active = a]
<1>1. s \in Sys /\ a \in [EP -> Int]
  <2>1. s \in Sys
    BY GoodSys
  <2>2. s.active \in [EP -> Int]
    BY <2>1 DEF Sys
  <2> QED  BY <2>1, <2>2, CountType
<1>2. ConnectOnly(s, c) = Mod(t, c, {"R", "W"})
  BY DEF ConnectOnly
<1> HIDE DEF a
<1>3. /\ t.ring = s.ring /\ t.inbox = s.inbox /\ t.wire = s.wire
      /\ t.hdr = s.hdr /\ t.have = s.have
  BY <1>1 DEF Sys
<1>4. t \in Sys
  <2> DEFINE q == [s EXCEPT !.role[c] = "up"]
  <2>1. q \in Sys
    BY <1>1 DEF Sys, Roles
  <2>2. t = [q EXCEPT !.active = a]
    BY <1>1 DEF Sys
  <2> HIDE DEF q, t
  <2> QED  BY <1>1, <2>1, <2>2 DEF Sys
<1> HIDE DEF t
<1>5. Forgets(s, t)
  BY <1>3 DEF Forgets, Heard
<1>6. Forgets(t, ConnectOnly(s, c))
  BY <1>2, <1>4, ModQuiet, QuietForgets
<1> QED  BY <1>5, <1>6, ForgetsTrans

LEMMA FinishConnectForgets ==
    ASSUME NEW s, NEW c \in Conn, Good(s), s.role[c] = "connecting", c \in s.rings
    PROVE  Forgets(s, FinishConnect(s, c))
<1> DEFINE d == s.peer[c]
           t == ConnectOnly(s, c)
<1>1. Forgets(s, ConnectFailed(s, c))
  BY ConnectFailedForgets
<1>2. Forgets(s, t) /\ Good(t)
  BY ConnectOnlyForgets, ConnectOnlyGood DEF Good, Sound, RingsLive
<1>3. ConnectMade(s, c) = IF d # Nil /\ d \in t.held
                          THEN SendPending(t, d, c) ELSE t
  BY DEF ConnectMade
<1> HIDE DEF t
<1>4. d # Nil /\ d \in t.held => Forgets(t, SendPending(t, d, c))
  BY <1>2, PeerApart, SendPendingForgets
<1> QED  BY <1>1, <1>2, <1>3, <1>4, ForgetsTrans DEF FinishConnect

LEMMA HoldForgets ==
    ASSUME NEW s \in Sys, NEW c, NEW h
    PROVE  Forgets(s, Hold(s, c, h))
BY DEF Hold, Forgets, Heard, Sys

LEMMA OnPooledForgets ==
    ASSUME NEW s, NEW c \in Conn, NEW h \in Frame, Good(s), s.peer[c] # Nil
    PROVE  Forgets(s, OnPooled(s, c, h))
<1> DEFINE t == Hold(s, c, h)
<1>1. s.peer[c] \in Conn
  BY PeerApart
<1>2. Forgets(s, t) /\ Good(t)
  BY HoldForgets, HoldCloses, GoodSys DEF Closes
<1>3. OnPooled(s, c, h) = SendPending(t, c, s.peer[c])
  BY DEF OnPooled, Upstream
<1> HIDE DEF t
<1> QED  BY <1>1, <1>2, <1>3, SendPendingForgets, ForgetsTrans

LEMMA OnNoDialForgets ==
    ASSUME NEW s, NEW c \in Conn, NEW h \in Frame, Good(s)
    PROVE  Forgets(s, OnNoDial(s, c, h))
<1> DEFINE t == Reply(s, c, h.id)
<1>1. Good(t) /\ Forgets(s, t) /\ t \in Sys
  BY ReplyCloses, ReplyForgets, GoodSys DEF Closes, Frame
<1>2. OnNoDial(s, c, h) = Consume(t, c)
  BY DEF OnNoDial
<1> HIDE DEF t
<1> QED  BY <1>1, <1>2, ConsumeForgets, ForgetsTrans

LEMMA OnUpForgets ==
    ASSUME NEW s, NEW c \in Conn, NEW h \in Frame, Good(s)
    PROVE  Forgets(s, OnUp(s, c, h))
<1> DEFINE p == s.peer[c]
           t == Flush(s, p, h)
<1>1. CASE p = Nil
  BY <1>1, ConsumeForgets, GoodSys DEF OnUp
<1>2. CASE p # Nil
  <2>1. Good(t) /\ Forgets(s, t) /\ t \in Sys
    BY <1>2, PeerApart, FlushCloses, FlushForgets, GoodSys DEF Closes
  <2>2. OnUp(s, c, h) = Consume(t, c)
    BY <1>2 DEF OnUp
  <2> HIDE DEF t
  <2> QED  BY <2>1, <2>2, ConsumeForgets, ForgetsTrans
<1> QED  BY <1>1, <1>2

LEMMA AdoptForgets ==
    ASSUME NEW s \in Sys, NEW n \in Conn, NEW f \in FD, NEW e \in EP \cup {Nil},
           NEW role \in {"down", "up", "connecting"}, NEW tx \in {"open", "syn"}
    PROVE  Forgets(s, Adopt(s, n, f, role, e, tx))
<1> DEFINE t == Adopt(s, n, f, role, e, tx)
<1>1. PICK y \in Sys : t = Arm(y, n) /\ Makes(s, y, n, f, e, role, tx)
  BY AdoptMakes
<1> HIDE DEF t
<1>2. Forgets(s, y)
  BY <1>1 DEF Makes, Forgets, Heard
<1>3. Forgets(y, t)
  BY <1>1, ArmQuiet, QuietForgets
<1> QED  BY <1>2, <1>3, ForgetsTrans DEF t

LEMMA OnDialledForgets ==
    ASSUME NEW s, NEW c \in Conn, NEW h \in Frame, NEW e \in EP, NEW n \in Conn,
           NEW f \in FD, NEW how, Good(s), s.role[c] = "down", s.peer[c] = Nil,
           s.role[n] = "new", s.tab[f] = Nil
    PROVE  Forgets(s, OnDialled(s, c, h, e, n, f, how))
<1> DEFINE sock == IF how = "instant" THEN "open" ELSE "syn"
           kind == DialRole(how)
           t == Adopt(s, n, f, kind, e, sock)
           l == [t EXCEPT !.peer[n] = c, !.peer[c] = n]
           u == Hold(l, c, h)
<1>1. /\ sock \in {"open", "syn"} /\ kind \in {"down", "up", "connecting"}
      /\ kind # "down" /\ e \in EP \cup {Nil} /\ e # Nil /\ s \in Sys
  BY ReactorAssumption, GoodSys DEF DialRole
<1>2. OnDialled(s, c, h, e, n, f, how) =
          IF kind = "up" THEN SendPending(u, c, n) ELSE u
  BY DEF OnDialled
<1> HIDE DEF sock, kind
<1>3. Adopted(s, t, n, kind) /\ Forgets(s, t)
  BY <1>1, AdoptGood, AdoptForgets
<1> HIDE DEF t
<1>5. /\ IsUp(t, n) /\ t.role[c] = "down" /\ n # c
      /\ t.peer[n] = Nil /\ t.peer[c] = Nil /\ t \in Sys
  <2>1. s.role \in [Conn -> Roles] /\ s.peer[n] = Nil /\ n # c
    BY DEF Good, Sound, Sys, Blank
  <2> QED  BY <1>1, <1>3, <2>1, GoodSys DEF IsUp, Adopted
<1>6. Good(l)
  BY <1>3, <1>5, LinkGood DEF Adopted
<1>7. Forgets(t, l)
  BY <1>5 DEF Forgets, Heard, Sys
<1> HIDE DEF l
<1>8. Good(u) /\ Forgets(l, u)
  BY <1>6, HoldCloses, HoldForgets, GoodSys DEF Closes
<1> HIDE DEF u
<1>9. Forgets(s, u)
  BY <1>3, <1>7, <1>8, ForgetsTrans
<1> QED  BY <1>2, <1>8, <1>9, SendPendingForgets, ForgetsTrans

LEMMA TakeHdrForgets ==
    ASSUME NEW s \in Sys, NEW c \in Conn, c \in s.have \/ s.ring[c] # <<>>
    PROVE  Forgets(s, TakeHdr(s, c)) /\ NextFrame(s, c) \in Heard(s, c)
<1>1. CASE c \in s.have
  BY <1>1 DEF TakeHdr, Forgets, NextFrame, Heard
<1>2. CASE c \notin s.have
  <2> DEFINE g == s.ring[c][1][1]
             r == Tail(s.ring[c])
             t == [s EXCEPT !.hdr[c] = g, !.have = @ \cup {c}, !.ring[c] = r]
  <2>1. TakeHdr(s, c) = t /\ NextFrame(s, c) = g
    BY <1>2 DEF TakeHdr, NextFrame
  <2>2. Said(r) \subseteq Said(s.ring[c]) /\ g \in Said(s.ring[c])
    <3>1. s.ring[c] \in Seq(Cell) /\ s.ring[c] # <<>>
      BY <1>2 DEF Sys
    <3> QED  BY <3>1, SaidTail
  <2> HIDE DEF g, r
  <2>3. /\ t.inbox = s.inbox /\ t.wire = s.wire
        /\ t.have = s.have \cup {c} /\ t.ring = [s.ring EXCEPT ![c] = r]
        /\ t.hdr = [s.hdr EXCEPT ![c] = g]
    BY DEF Sys
  <2> HIDE DEF t
  <2>4. t.ring[c] = r /\ t.hdr[c] = g
    BY <2>3 DEF Sys
  <2>5. Heard(t, c) \subseteq Heard(s, c)
    BY <2>2, <2>3, <2>4 DEF Heard
  <2>6. Forgets(s, t)
    <3>1. \A x \in Conn : x # c =>
              /\ x \in t.have <=> x \in s.have
              /\ t.hdr[x] = s.hdr[x] /\ t.ring[x] = s.ring[x]
              /\ t.inbox[x] = s.inbox[x] /\ t.wire[x] = s.wire[x]
      BY <2>3 DEF Sys
    <3> QED  BY <2>5, <3>1, InputForgets
  <2> QED  BY <2>1, <2>2, <2>6 DEF Heard
<1> QED  BY <1>1, <1>2

LEMMA LeadsForgets ==
    ASSUME NEW t, sys \in Sys, Forgets(sys, t), Leads(t)
    PROVE  Forgets(sys, sys')
BY FlagForgets DEF Leads

LEMMA SelfForgets ==
    ASSUME NEW s
    PROVE  Forgets(s, s)
BY DEF Forgets

LEMMA LoopForgets ==
    ASSUME IInv, \/ Wait \/ Handle \/ Accept \/ AcceptDrops \/ AcceptAgain \/ AcceptFails \/ Ending
    PROVE  Forgets(sys, sys')
<1>1. Good(sys) /\ sys \in Sys /\ Forgets(sys, sys)
  BY GoodSys, SelfForgets DEF IInv
<1>2. CASE Wait
  BY <1>1, <1>2, FlagForgets DEF Wait
<1>3. CASE Handle
  <2> DEFINE f    == Head(batch)[1]
             bits == Head(batch)[2]
             c    == IF f = Nil THEN Nil ELSE sys.tab[f]
  <2>1. c # Nil => c \in Conn /\ c \in sys.rings
    <3>1. c # Nil => c \in Conn /\ Live(sys, c)
      BY <1>3, HandledLive DEF Handle
    <3> QED  BY <1>1, <3>1 DEF Good, Sound, RingsLive
  <2>2. \/ HandleStale(f) \/ HandleListen(f)
        \/ HandleConnect(c, bits) \/ HandleIO(c, bits)
    BY <1>3 DEF Handle
  <2> HIDE DEF f, bits, c
  <2>3. CASE HandleStale(f) \/ HandleListen(f)
    BY <1>1, <2>3, GotoLeads, LeadsForgets DEF HandleStale, HandleListen
  <2>4. CASE HandleConnect(c, bits)
    <3>1. Forgets(sys, FinishConnect(sys, c))
      BY <1>1, <2>1, <2>4, FinishConnectForgets DEF HandleConnect, Connects
    <3> QED  BY <1>1, <2>4, <3>1, GotoLeads, LeadsForgets DEF HandleConnect
  <2>5. CASE HandleIO(c, bits)
    <3> DEFINE t == IF "W" \in bits THEN FlushRemain(sys, c) ELSE sys
               u == CloseConn(sys, c)
    <3>1. c \in Conn
      BY <2>1, <2>5 DEF HandleIO
    <3>2. Forgets(sys, u) /\ Forgets(sys, t)
      BY <1>1, <3>1, CloseConnForgets, FlushRemainForgets
    <3>3. Goto(u, "loop") \/ Then(t, "read", c, "loop") \/ Goto(t, "loop")
      BY <2>5 DEF HandleIO
    <3> HIDE DEF t, u
    <3>4. Leads(t) \/ Leads(u)
      BY <3>3, GotoLeads
    <3> QED  BY <1>1, <3>2, <3>4, LeadsForgets
  <2> QED  BY <2>2, <2>3, <2>4, <2>5
<1>4. CASE Accept
  <2> DEFINE c == Fresh(sys)
             f == FreeFD(sys)
             t == Adopt(sys, c, f, "down", Nil, "open")
  <2>1. c \in Conn /\ f \in FD
    BY <1>1, <1>4, FreshType DEF Accept, AcceptThen
  <2>2. Leads(t)
    BY <1>4, GotoLeads DEF Accept, AcceptThen
  <2> HIDE DEF c, f
  <2>3. Forgets(sys, t)
    BY <1>1, <2>1, AdoptForgets
  <2> HIDE DEF t
  <2> QED  BY <1>1, <2>2, <2>3, LeadsForgets
<1>5. CASE AcceptDrops \/ AcceptAgain \/ AcceptFails
  BY <1>1, <1>5, GotoLeads, LeadsForgets DEF AcceptDrops, AcceptAgain, AcceptFails
<1>6. CASE Ending
  <2>1. \A c \in Conn : Forgets(sys, CloseConn(sys, c))
    BY <1>1, CloseConnForgets
  <2>2. \/ Leads(sys)
        \/ \E c \in Conn : Leads(CloseConn(sys, c))
    BY <1>6, GotoLeads DEF Ending, SweepIdle, Stop, ShutdownOne, ShutdownEnds
  <2> QED  BY <1>1, <2>1, <2>2, LeadsForgets
<1> QED  BY <1>2, <1>3, <1>4, <1>5, <1>6

LEMMA ReadForgets ==
    ASSUME IInv, Read
    PROVE  Forgets(sys, sys')
<1>1. Good(sys) /\ sys \in Sys /\ cur \in Conn /\ Forgets(sys, sys)
  BY GoodSys, SelfForgets DEF IInv, Read, ReadGone, ReadPauses, ReadReturns,
                 ReadCloses, ReadSome, Reading, At, LoopsOK
<1>2. CASE ReadGone \/ ReadReturns
  BY <1>1, <1>2, GotoLeads, LeadsForgets DEF ReadGone, ReadReturns
<1>3. CASE ReadPauses
  <2> DEFINE P == sys.paused \cup {cur}
  <2>1. Leads([sys EXCEPT !.paused = P])
    BY <1>3, GotoLeads DEF ReadPauses
  <2> QED  BY <1>1, <2>1, FlagForgets, LeadsForgets
<1>4. CASE ReadCloses
  BY <1>1, <1>4, GotoLeads, CloseConnForgets, LeadsForgets DEF ReadCloses
<1>5. CASE ReadSome
  <2> DEFINE in == sys.inbox[cur]
             q  == sys.ring[cur]
  <2>1. PICK n \in 1 .. Free(sys, cur) :
           /\ n <= Len(in)
           /\ Goto([sys EXCEPT !.ring[cur] = q \o SubSeq(in, 1, n),
                               !.inbox[cur] = SubSeq(in, n + 1, Len(in))], "parse")
    BY <1>5 DEF ReadSome
  <2> DEFINE p == SubSeq(in, 1, n)
             r == q \o p
             w == SubSeq(in, n + 1, Len(in))
             t == [sys EXCEPT !.ring[cur] = r, !.inbox[cur] = w]
  <2>2. in \in Seq(Cell) /\ q \in Seq(Cell) /\ Len(q) \in Nat /\ Len(in) \in Nat
    BY <1>1, LenProperties DEF Sys
  <2>3. n \in 1 .. Len(in) /\ n \in Nat /\ n \in 0 .. Len(in) /\ 0 \in Nat
        /\ Len(in) \in 0 .. Len(in)
    BY <2>1, <2>2
  <2>4. p \in Seq(Cell)
    BY <2>2, <2>3, SubSeqProperties
  <2>5. Said(p) \subseteq Said(in)
    <3>1. Said(SubSeq(in, 0 + 1, n)) \subseteq Said(in)
      BY <2>2, <2>3, SaidPart
    <3> QED  BY <3>1
  <2>6. Leads(t)
    BY <2>1, GotoLeads
  <2> HIDE DEF p
  <2>7. Said(w) \subseteq Said(in) /\ Said(r) \subseteq Said(q) \cup Said(in)
    BY <2>2, <2>3, <2>4, <2>5, SaidPart, SaidConcat
  <2> HIDE DEF r, w
  <2>8. /\ t.wire = sys.wire /\ t.hdr = sys.hdr /\ t.have = sys.have
        /\ t.ring = [sys.ring EXCEPT ![cur] = r]
        /\ t.inbox = [sys.inbox EXCEPT ![cur] = w]
    BY <1>1 DEF Sys
  <2> HIDE DEF t
  <2>9. t.ring[cur] = r /\ t.inbox[cur] = w
    BY <1>1, <2>8 DEF Sys
  <2>10. Heard(t, cur) \subseteq Heard(sys, cur)
    BY <2>7, <2>8, <2>9 DEF Heard
  <2>11. \A x \in Conn : x # cur =>
              /\ x \in t.have <=> x \in sys.have
              /\ t.hdr[x] = sys.hdr[x] /\ t.ring[x] = sys.ring[x]
              /\ t.inbox[x] = sys.inbox[x] /\ t.wire[x] = sys.wire[x]
    BY <1>1, <2>8 DEF Sys
  <2>12. Forgets(sys, t)
    BY <1>1, <2>10, <2>11, InputForgets
  <2> QED  BY <1>1, <2>6, <2>12, LeadsForgets
<1> QED  BY <1>2, <1>3, <1>4, <1>5 DEF Read

LEMMA ParseForgets ==
    ASSUME IInv, Parse
    PROVE  Forgets(sys, sys')
<1>1. Good(sys) /\ sys \in Sys /\ cur \in Conn /\ Forgets(sys, sys)
  BY GoodSys, SelfForgets DEF IInv, Parse, ParseEnds, ParsePanics, ParseRejects,
                 ParseWaits, CanParse, Parsing, At, LoopsOK
<1>2. CASE ParseEnds
  BY <1>1, <1>2, GotoLeads, LeadsForgets DEF ParseEnds
<1>3. CASE ParsePanics
  BY <1>1, <1>3, GotoLeads, FlagForgets, LeadsForgets DEF ParsePanics
<1>4. CASE ParseRejects
  <2> DEFINE t == IF sys.role[cur] = "down" THEN Reply(sys, cur, 0) ELSE sys
             u == CloseConn(t, cur)
  <2>1. Leads(u)
    BY <1>4, GotoLeads DEF ParseRejects
  <2>2. 0 \in 0 .. MaxReq
    BY ReactorAssumption
  <2>3. Good(t) /\ Forgets(sys, t)
    BY <1>1, <2>2, ReplyCloses, ReplyForgets DEF Closes
  <2> HIDE DEF t
  <2>4. Forgets(t, u)
    BY <1>1, <2>3, CloseConnForgets
  <2> HIDE DEF u
  <2> QED  BY <1>1, <2>1, <2>3, <2>4, ForgetsTrans, LeadsForgets
<1>5. CASE ParseWaits
  BY <1>1, <1>5, TakeHdrForgets, GotoLeads, LeadsForgets DEF ParseWaits, CanParse
<1> QED  BY <1>2, <1>3, <1>4, <1>5 DEF Parse

LEMMA DownForgets ==
    ASSUME NEW t, NEW h \in Frame, IInv, cur \in Conn, Closes(sys, t), Forgets(sys, t),
           t.role[cur] = "down",
           \/ DownPing(t, h) \/ DownClose(t, h) \/ DownError(t, h)
           \/ DownRefused(t, h) \/ DownPooled(t, h)
           \/ DownUndialled(t, h) \/ DownDialled(t, h)
    PROVE  Forgets(sys, sys')
<1>1. /\ Good(t) /\ t \in Sys /\ sys \in Sys
  BY GoodSys DEF IInv, Closes
<1>2. ASSUME NEW u, Forgets(t, u), Leads(u) PROVE Forgets(sys, sys')
  BY <1>1, <1>2, ForgetsTrans, LeadsForgets
<1>3. CASE DownPing(t, h)
  <2> DEFINE u == Flush(t, cur, Pong(h))
  <2>1. Good(u) /\ Forgets(t, u)
    BY <1>1, MadeFrames, FlushCloses, FlushForgets DEF Closes
  <2>2. Leads(Consume(u, cur))
    BY <1>3, GotoLeads DEF DownPing
  <2> HIDE DEF u
  <2> QED  BY <1>2, <2>1, <2>2, ConsumeForgets, ForgetsTrans
<1>4. CASE DownClose(t, h)
  <2> DEFINE u == Consume(t, cur)
  <2>1. Good(u) /\ Forgets(t, u)
    BY <1>1, ConsumeCloses, ConsumeForgets DEF Closes
  <2>2. Leads(CloseConn(u, cur))
    BY <1>4, GotoLeads DEF DownClose
  <2> HIDE DEF u
  <2> QED  BY <1>2, <2>1, <2>2, CloseConnForgets, ForgetsTrans
<1>5. CASE DownError(t, h)
  BY <1>1, <1>2, <1>5, ConsumeForgets, GotoLeads DEF DownError
<1>6. CASE DownRefused(t, h)
  BY <1>1, <1>2, <1>6, OnNoDialForgets, GotoLeads DEF DownRefused
<1>7. CASE DownPooled(t, h)
  <2>1. t.peer[cur] # Nil
    BY <1>7 DEF DownPooled, Reuses, Upstream
  <2>2. Forgets(t, OnPooled(t, cur, h))
    BY <1>1, <2>1, OnPooledForgets
  <2>3. Leads(OnPooled(t, cur, h))
    BY <1>7, GotoLeads DEF DownPooled
  <2> QED  BY <1>2, <2>2, <2>3
<1> DEFINE u == Reselect(t, cur)
<1>8. /\ Good(u) /\ Forgets(t, u) /\ u.peer[cur] = Nil /\ u.role = t.role
  BY <1>1, ReselectCloses, ReselectForgets DEF Closes
<1>9. CASE DownUndialled(t, h)
  <2>1. Leads(OnNoDial(u, cur, h))
    BY <1>9, GotoLeads DEF DownUndialled
  <2> HIDE DEF u
  <2> QED  BY <1>2, <1>8, <2>1, OnNoDialForgets, ForgetsTrans
<1>10. CASE DownDialled(t, h)
  <2> DEFINE n == Fresh(t)
             f == FreeFD(u)
  <2>1. PICK e \in EP, how \in {"progress"} \cup ({"instant"} \cap Faults) :
           /\ FreeFDs(u) # {}
           /\ ThenResume(OnDialled(u, cur, h, e, n, f, how), "parse")
    <3>1. eligible \subseteq EP
      BY DEF IInv, EnvOK
    <3> QED  BY <1>10, <3>1 DEF DownDialled
  <2>2. n \in Conn /\ u.role[n] = "new"
    BY <1>1, <1>8, <1>10, FreshType DEF DownDialled
  <2>3. f \in FD /\ u.tab[f] = Nil
    BY <1>8, <2>1, FreshType
  <2> HIDE DEF u, n, f
  <2>4. Forgets(u, OnDialled(u, cur, h, e, n, f, how))
    BY <1>8, <2>2, <2>3, OnDialledForgets
  <2>5. Leads(OnDialled(u, cur, h, e, n, f, how))
    BY <2>1, GotoLeads
  <2> QED  BY <1>2, <1>8, <2>4, <2>5, ForgetsTrans
<1> QED  BY <1>3, <1>4, <1>5, <1>6, <1>7, <1>9, <1>10

LEMMA DispatchForgets ==
    ASSUME IInv, Dispatch
    PROVE  Forgets(sys, sys')
<1> DEFINE t == TakeHdr(sys, cur)
           h == t.hdr[cur]
<1>1. Good(sys) /\ sys \in Sys /\ cur \in Conn
      /\ cur \in sys.rings /\ (cur \in sys.have \/ sys.ring[cur] # <<>>)
  BY GoodSys DEF IInv, Dispatch, CanParse, Parsing, At, LoopsOK
<1>2. Closes(sys, t) /\ Forgets(sys, t)
  BY <1>1, TakeHdrCloses, TakeHdrForgets
<1>5. /\ sys.role[cur] = "down" =>
            \/ DownPing(t, h) \/ DownClose(t, h) \/ DownError(t, h)
            \/ DownRefused(t, h) \/ DownPooled(t, h)
            \/ DownUndialled(t, h) \/ DownDialled(t, h)
      /\ sys.role[cur] # "down" =>
            Goto(OnUp(t, cur, h), "parse") \/ Goto(Consume(t, cur), "parse")
  BY DEF Dispatch
<1> HIDE DEF t
<1>6. h \in Frame /\ Good(t) /\ t.role = sys.role
  BY <1>1, <1>2, HdrType, GoodSys DEF Closes
<1> HIDE DEF h
<1>7. CASE sys.role[cur] = "down"
  BY <1>1, <1>2, <1>5, <1>6, <1>7, DownForgets
<1>8. CASE sys.role[cur] # "down"
  <2>1. Forgets(sys, OnUp(t, cur, h)) /\ Forgets(sys, Consume(t, cur))
    BY <1>1, <1>2, <1>6, OnUpForgets, ConsumeForgets, ForgetsTrans
  <2>2. Leads(OnUp(t, cur, h)) \/ Leads(Consume(t, cur))
    BY <1>5, <1>8, GotoLeads
  <2> QED  BY <1>1, <2>1, <2>2, LeadsForgets
<1> QED  BY <1>7, <1>8

LEMMA RunForgets ==
    ASSUME IInv, Run
    PROVE  Forgets(sys, sys')
BY LoopForgets, ReadForgets, ParseForgets, DispatchForgets
   DEF Run, Work, Read, Parse, Ending

----------------------------------------------------------------------------
(* Whose the frames are: a client's input and output, its request and what *)
(* goes to and comes from its upstream are all its own.                    *)

(* Frame f belongs to client d, when a says who sent the first n requests. *)
Belongs(f, d, n, a) == f.id = 0 \/ (f.id \in 1 .. n /\ a[f.id] = d)
Mine(f, d)   == Belongs(f, d, nreq, asker)
Client(s, x) == IF IsUp(s, x) THEN s.peer[x] ELSE x

Private ==
    \A x \in Conn :
        /\ sys.role[x] = "new" => OutOf(sys, x) = <<>> /\ sys.pend[x].id = 0
        /\ sys.role[x] = "down" => Mine(sys.pend[x], x)
        /\ sys.role[x] = "down" \/ x \in sys.rings =>
              /\ \A k \in 1 .. Len(OutOf(sys, x)) : Mine(OutOf(sys, x)[k], Client(sys, x))
              /\ \A f \in Heard(sys, x) : Mine(f, Client(sys, x))

LEMMA InitPrivate == Init => Private
<1> SUFFICES ASSUME Init PROVE Private
  OBVIOUS
<1>1. sys.rings = {} /\ NoFrame.id = 0 /\ <<>> \in Seq(Frame)
  BY EmptySeq DEF Init, NoFrame
<1>2. ASSUME NEW x \in Conn
      PROVE  sys.role[x] = "new" /\ OutOf(sys, x) = <<>> /\ sys.pend[x].id = 0
  <2>1. sys.role[x] = "new" /\ sys.got[x] = <<>> /\ sys.remain[x] = <<>>
        /\ sys.pend[x] = NoFrame
    BY DEF Init
  <2>2. <<>> \o <<>> = <<>>
    OBVIOUS
  <2> QED  BY <1>1, <2>1, <2>2 DEF OutOf
<1> QED  BY <1>1, <1>2 DEF Private

LEMMA RunAsks == Run => nreq' = nreq /\ asker' = asker
<1>1. Wait => nreq' = nreq /\ asker' = asker
  BY DEF Wait
<1>2. Handle => nreq' = nreq /\ asker' = asker
  BY DEF Handle, env
<1>3. Accept \/ AcceptDrops \/ AcceptAgain \/ AcceptFails => nreq' = nreq /\ asker' = asker
  BY DEF Accept, AcceptThen, AcceptDrops, AcceptAgain, AcceptFails, env
<1>4. Read => nreq' = nreq /\ asker' = asker
  BY DEF Read, ReadGone, ReadPauses, ReadReturns, ReadCloses, ReadSome, Reading, env
<1>5. Parse \/ Dispatch => nreq' = nreq /\ asker' = asker
  BY DEF Parse, ParseEnds, ParsePanics, ParseRejects, ParseWaits, Dispatch,
         CanParse, Parsing, env
<1>6. Ending => nreq' = nreq /\ asker' = asker
  BY DEF Ending, SweepIdle, Stop, ShutdownOne, ShutdownEnds, env
<1> QED  BY <1>1, <1>2, <1>3, <1>4, <1>5, <1>6 DEF Run, Work, Read, Parse, Ending

(* What the goroutine may write to x, if the frames are to stay with their *)
(* clients.                                                                *)
Rightful ==
    [x \in Conn |-> {f \in Frame :
        IF sys.role[x] = "new" THEN Dialled /\ x = Fresh(sys) /\ Mine(f, cur)
        ELSE Mine(f, Client(sys, x))}]

LEMMA PeerSides ==
    ASSUME NEW s, NEW c \in Conn, Good(s), s.peer[c] # Nil
    PROVE  LET p == s.peer[c]
           IN  /\ p \in Conn /\ s.peer[p] = c
               /\ IsUp(s, p) <=> s.role[c] = "down"
               /\ IsUp(s, c) <=> s.role[p] = "down"
               /\ s.role[c] = "down" \/ IsUp(s, c)
<1> DEFINE p == s.peer[c]
<1>1. p \in Conn /\ s.peer[p] = c /\ c # Nil
  BY PeerApart, ReactorAssumption DEF Good, Paired
<1>2. s.peer[p] # Nil /\ (s.role[p] = "down" \/ IsUp(s, p))
  BY <1>1, PeerApart
<1>3. s.role[c] = "down" \/ IsUp(s, c)
  BY PeerApart
<1>4. /\ s.role[c] = "down" <=> IsUp(s, p)
      /\ s.role[p] = "down" <=> IsUp(s, c)
  BY <1>1, <1>2 DEF Good, Paired
<1> QED  BY <1>1, <1>3, <1>4

LEMMA MayWriteRightful ==
    ASSUME LinkInv, Private, NEW W, W = Rightful
    PROVE  MayWrite(W)
<1>1. Good(sys) /\ sys \in Sys /\ Wired(sys) /\ LoopsOK
  BY GoodSys DEF LinkInv, FlowInv, IInv
<1>2. ASSUME NEW x \in Conn, NEW f \in Frame, sys.role[x] # "new", Mine(f, Client(sys, x))
      PROVE  f \in W[x]
  BY <1>2 DEF Rightful
<1>3. Allowed(sys, W)
  <2> SUFFICES ASSUME NEW d \in Conn, sys.role[d] = "down"
               PROVE  ErrorOf(sys.pend[d].id) \in W[d]
    BY DEF Allowed
  <2>1. Mine(sys.pend[d], d) /\ Client(sys, d) = d
    BY DEF Private, Client, IsUp
  <2>2. ErrorOf(sys.pend[d].id) \in Frame
        /\ ErrorOf(sys.pend[d].id).id = sys.pend[d].id
    BY <1>1, HdrType, MadeFrames DEF ErrorOf
  <2> QED  BY <1>2, <2>1, <2>2 DEF Mine, Belongs
<1>4. ASSUME NEW c \in sys.rings, sys.role[c] = "connecting"
      PROVE  sys.pend[sys.peer[c]] \in W[c]
  <2>1. c \in Conn /\ sys.peer[c] # Nil /\ IsUp(sys, c)
    BY <1>1, <1>4 DEF Sys, Wired, IsUp
  <2>2. sys.peer[c] \in Conn /\ sys.role[sys.peer[c]] = "down"
    BY <1>1, <2>1, PeerSides
  <2>3. Mine(sys.pend[sys.peer[c]], Client(sys, c)) /\ sys.pend[sys.peer[c]] \in Frame
    BY <1>1, <2>1, <2>2, HdrType DEF Private, Client
  <2> QED  BY <1>2, <1>4, <2>1, <2>3
<1>5. ASSUME pc = "parse", cur \in sys.rings, sys.role[cur] = "down"
      PROVE  ErrorOf(0) \in W[cur]
  <2>1. 0 \in 0 .. MaxReq /\ cur \in Conn
    BY <1>1, <1>5, ReactorAssumption DEF LoopsOK, Sys
  <2>2. ErrorOf(0) \in Frame /\ ErrorOf(0).id = 0
    BY <2>1, MadeFrames DEF ErrorOf
  <2> QED  BY <1>2, <1>5, <2>1, <2>2 DEF Mine, Belongs
<1>6. ASSUME AtHeader
      PROVE  LET h == NextFrame(sys, cur)
             IN  /\ sys.role[cur] = "down" =>
                       /\ ErrorOf(h.id) \in W[cur] /\ Pong(h) \in W[cur]
                       /\ Dialled => h \in W[Fresh(sys)]
                 /\ sys.peer[cur] # Nil => h \in W[sys.peer[cur]]
  <2> DEFINE h == NextFrame(sys, cur)
  <2>1. cur \in Conn /\ cur \in sys.rings /\ h \in Frame /\ h \in Heard(sys, cur)
    BY <1>1, <1>6, NextFrameType, TakeHdrForgets DEF AtHeader, LoopsOK, Sys
  <2>2. Mine(h, Client(sys, cur)) /\ sys.role[cur] # "new"
    BY <1>1, <2>1 DEF Private, Good, Sound, Blank
  <2> HIDE DEF h
  <2>3. ASSUME sys.role[cur] = "down"
        PROVE  /\ ErrorOf(h.id) \in W[cur] /\ Pong(h) \in W[cur]
               /\ Dialled => h \in W[Fresh(sys)]
    <3>1. Client(sys, cur) = cur
      BY <2>3 DEF Client, IsUp
    <3>2. ErrorOf(h.id) \in Frame /\ Pong(h) \in Frame
          /\ ErrorOf(h.id).id = h.id /\ Pong(h).id = h.id
      BY <2>1, MadeFrames DEF Frame, ErrorOf, Pong
    <3>3. Dialled => Fresh(sys) \in Conn /\ sys.role[Fresh(sys)] = "new"
      BY <1>1, FreshType DEF Dialled
    <3>4. Dialled => h \in W[Fresh(sys)]
      BY <2>1, <2>2, <3>1, <3>3 DEF Rightful
    <3> QED  BY <1>2, <2>1, <2>2, <2>3, <3>1, <3>2, <3>4 DEF Mine, Belongs
  <2>4. ASSUME sys.peer[cur] # Nil PROVE h \in W[sys.peer[cur]]
    <3> DEFINE p == sys.peer[cur]
    <3>0. /\ p \in Conn /\ sys.peer[p] = cur
          /\ IsUp(sys, p) <=> sys.role[cur] = "down"
          /\ IsUp(sys, cur) <=> sys.role[p] = "down"
          /\ sys.role[cur] = "down" \/ IsUp(sys, cur)
      BY <1>1, <2>1, <2>4, PeerSides
    <3>1. p \in Conn /\ sys.peer[p] = cur /\ (IsUp(sys, p) <=> ~IsUp(sys, cur))
          /\ sys.role[p] # "new"
      BY <3>0 DEF IsUp
    <3>2. Client(sys, p) = Client(sys, cur)
      BY <3>1 DEF Client
    <3> QED  BY <1>2, <2>1, <2>2, <3>1, <3>2
  <2> QED  BY <2>3, <2>4 DEF h
<1> QED  BY <1>3, <1>4, <1>5, <1>6 DEF MayWrite

LEMMA RunPrivate ==
    ASSUME LinkInv, LinkInv', Private, Run, ~Reselects
    PROVE  Private'
<1> DEFINE Theirs(f, d) == Belongs(f, d, nreq', asker')
<1>1. /\ IInv /\ Wired(sys) /\ Good(sys) /\ sys \in Sys /\ sys' \in Sys
      /\ Good(sys') /\ Unused(sys) /\ LoopsOK
  BY GoodSys DEF LinkInv, FlowInv, IInv, Tidy
<1>2. PICK W : W = Rightful
  OBVIOUS
<1>3. Steps(sys', W)
  BY <1>1, <1>2, MayWriteRightful, RunSteps
<1>4. Forgets(sys, sys')
  BY <1>1, RunForgets
<1>5. \A f, d : Mine(f, d) => Theirs(f, d)
  BY RunAsks DEF Mine
<1>6. \A x \in Conn : Client(sys, x) = IF IsUp(sys, x) THEN sys.peer[x] ELSE x
  BY DEF Client
<1> SUFFICES ASSUME NEW x \in Conn
             PROVE  /\ sys'.role[x] = "new" => OutOf(sys', x) = <<>> /\ sys'.pend[x].id = 0
                    /\ sys'.role[x] = "down" => Theirs(sys'.pend[x], x)
                    /\ sys'.role[x] = "down" \/ x \in sys'.rings =>
                          /\ \A k \in 1 .. Len(OutOf(sys', x)) :
                                Theirs(OutOf(sys', x)[k], Client(sys', x))
                          /\ \A f \in Heard(sys', x) : Theirs(f, Client(sys', x))
  BY DEF Private, Mine
<1> HIDE DEF Theirs
<1> DEFINE p == OutOf(sys, x)
           q == OutOf(sys', x)
<1>7. /\ p \in Seq(Frame) /\ q \in Seq(Frame) /\ Len(p) \in Nat /\ Len(q) \in Nat
      /\ Longer(p, q, W[x])
  BY <1>1, <1>3, OutType DEF Steps, Adds
<1>8. ASSUME NEW d, NEW S, S = W[x],
             \A f \in S : Mine(f, d), \A k \in 1 .. Len(p) : Mine(p[k], d)
      PROVE  \A k \in 1 .. Len(q) : Theirs(q[k], d)
  <2> SUFFICES ASSUME NEW k \in 1 .. Len(q) PROVE Mine(q[k], d)
    BY <1>5
  <2>1. CASE k \in 1 .. Len(p)
    BY <1>7, <1>8, <2>1 DEF Longer
  <2>2. CASE k \in Len(p) + 1 .. Len(q)
    BY <1>7, <1>8, <2>2 DEF Longer
  <2> HIDE DEF p, q
  <2> QED  BY <1>7, <2>1, <2>2
<1>9. AtHeader => /\ cur \in Conn /\ cur \in sys.rings /\ sys.role[cur] # "new"
                  /\ NextFrame(sys, cur) \in Heard(sys, cur)
  BY <1>1, TakeHdrForgets DEF AtHeader, LoopsOK, Good, Sound, Blank
<1>10. ASSUME sys'.role[x] = "new" PROVE q = <<>> /\ sys'.pend[x].id = 0
  <2>1. sys.role[x] = "new"
    BY <1>3, <1>10 DEF Steps
  <2>2. W[x] = {}
    BY <1>2, <1>10, <2>1 DEF Rightful, Dialled
  <2>3. p = <<>> /\ sys.pend[x].id = 0
    BY <2>1 DEF Private
  <2>4. sys'.pend[x] = sys.pend[x]
    BY <1>3, <1>9, <2>1 DEF Steps
  <2> HIDE DEF p, q
  <2>5. Len(p) = 0
    BY <2>3
  <2>6. Len(q) = 0
    BY <1>7, <2>2, <2>5 DEF Longer
  <2> QED  BY <1>7, <2>3, <2>4, <2>6, EmptySeq
<1>11. ASSUME sys'.role[x] = "down"
       PROVE  /\ Theirs(sys'.pend[x], x) /\ Client(sys', x) = x
              /\ \A k \in 1 .. Len(q) : Theirs(q[k], x)
              /\ \A f \in Heard(sys', x) : Theirs(f, x)
  <2>1. Client(sys', x) = x
    BY <1>11 DEF Client, IsUp
  <2>2. CASE sys.role[x] = "down"
    <3>1. /\ Mine(sys.pend[x], x) /\ \A f \in Heard(sys, x) : Mine(f, x)
          /\ \A k \in 1 .. Len(p) : Mine(p[k], x)
      BY <1>6, <2>2 DEF Private, IsUp
    <3>2. \A f \in W[x] : Mine(f, x)
      BY <1>2, <1>6, <2>2 DEF Rightful, IsUp
    <3>3. Mine(sys'.pend[x], x)
      BY <1>3, <1>9, <3>1 DEF Steps
    <3>4. \A k \in 1 .. Len(q) : Theirs(q[k], x)
      BY <1>8, <3>1, <3>2
    <3>5. \A f \in Heard(sys', x) : Theirs(f, x)
      BY <1>4, <1>5, <3>1 DEF Forgets
    <3> QED  BY <1>5, <2>1, <3>3, <3>4, <3>5
  <2>3. CASE sys.role[x] # "down"
    <3>1. sys.role[x] = "new" /\ Mute(sys, sys')
      BY <1>3, <1>11, <2>3 DEF Steps
    <3>2. q = <<>> /\ Heard(sys, x) = {}
      BY <1>1, <3>1, SaidNone DEF Private, OutOf, Mute, Unused, Heard
    <3>3. sys'.pend[x] = sys.pend[x] /\ sys.pend[x].id = 0
      BY <1>3, <1>9, <3>1 DEF Steps, Private
    <3>4. Theirs(sys'.pend[x], x)
      BY <3>3 DEF Theirs, Belongs
    <3>5. \A k \in 1 .. Len(q) : Theirs(q[k], x)
      <4> HIDE DEF q
      <4> QED  BY <3>2
    <3>6. Heard(sys', x) = {}
      BY <1>4, <3>2 DEF Forgets
    <3> QED  BY <2>1, <3>4, <3>5, <3>6
  <2> QED  BY <2>2, <2>3
<1>12. ASSUME x \in sys'.rings, sys'.role[x] # "down"
       PROVE  /\ \A k \in 1 .. Len(q) : Theirs(q[k], Client(sys', x))
              /\ \A f \in Heard(sys', x) : Theirs(f, Client(sys', x))
  <2>1. IsUp(sys', x)
    <3>1. sys'.role[x] \in Roles /\ sys'.role[x] # "new"
      BY <1>1, <1>12 DEF Good, Sound, Blank, Sys
    <3> QED  BY <1>12, <3>1 DEF Roles, IsUp
  <2>2. Client(sys', x) = sys'.peer[x]
    BY <2>1 DEF Client
  <2> DEFINE d == sys'.peer[x]
  <2>3. CASE x \in sys.rings /\ IsUp(sys, x) /\ d = sys.peer[x]
    <3>1. d = Client(sys, x)
      BY <2>3 DEF Client
    <3>2. /\ \A f \in Heard(sys, x) : Mine(f, d)
          /\ \A k \in 1 .. Len(p) : Mine(p[k], d)
      BY <2>3, <3>1 DEF Private
    <3>3. \A f \in W[x] : Mine(f, d)
      BY <1>2, <2>3, <3>1 DEF Rightful, IsUp
    <3>4. \A k \in 1 .. Len(q) : Theirs(q[k], d)
      <4>1. PICK e : e = d
        OBVIOUS
      <4>2. \A k \in 1 .. Len(q) : Theirs(q[k], e)
        BY <1>8, <3>2, <3>3, <4>1
      <4> QED  BY <4>1, <4>2
    <3>5. \A f \in Heard(sys', x) : Theirs(f, d)
      BY <1>4, <1>5, <3>2 DEF Forgets
    <3> QED  BY <2>2, <3>4, <3>5
  <2>4. CASE /\ sys.role[x] = "new" /\ d = cur /\ AtHeader
             /\ x = Fresh(sys) /\ sys.role[cur] = "down"
    <3>1. p = <<>> /\ Heard(sys, x) = {}
      BY <1>1, <2>4, SaidNone DEF Private, Unused, Heard
    <3>2. \A f \in W[x] : Mine(f, d)
      BY <1>2, <2>4 DEF Rightful
    <3>3. \A k \in 1 .. Len(p) : Mine(p[k], d)
      <4> HIDE DEF p
      <4> QED  BY <3>1
    <3>4. \A k \in 1 .. Len(q) : Theirs(q[k], d)
      <4>1. PICK e : e = d
        OBVIOUS
      <4>2. \A k \in 1 .. Len(q) : Theirs(q[k], e)
        BY <1>8, <3>2, <3>3, <4>1
      <4> QED  BY <4>1, <4>2
    <3>5. Heard(sys', x) = {}
      BY <1>4, <3>1 DEF Forgets
    <3> QED  BY <2>2, <3>4, <3>5
  <2> QED  BY <1>3, <1>12, <2>1, <2>3, <2>4 DEF Steps
<1> QED  BY <1>10, <1>11, <1>12

(* What the kernel and the far ends bring: a client's next request, or an  *)
(* upstream's answer to the oldest frame it was sent.                      *)
Brought(x, f) ==
    \/ sys.role[x] = "down" /\ nreq' = nreq + 1 /\ f.id = nreq' /\ asker'[nreq'] = x
    \/ Up(x) /\ x \in sys.rings /\ sys.got[x] # <<>> /\ f.id = Head(sys.got[x]).id

Brings == \A x \in Conn : \A f \in Heard(sys', x) : f \in Heard(sys, x) \/ Brought(x, f)

(* The input t of c is that of s with parts of q in it.                    *)
LEMMA SocketHeard ==
    ASSUME NEW s \in Sys, NEW t, NEW c \in Conn, AtSocket(s, t, c),
           NEW S, Said(t.inbox[c]) \cup Said(t.wire[c])
                      \subseteq Said(s.inbox[c]) \cup Said(s.wire[c]) \cup S
    PROVE  \A x \in Conn : \A f \in Heard(t, x) :
               f \in Heard(s, x) \/ (x = c /\ f \in S)
<1> SUFFICES ASSUME NEW x \in Conn, NEW f \in Heard(t, x), f \notin Heard(s, x)
             PROVE  x = c /\ f \in S
  OBVIOUS
<1>1. /\ t.have = s.have /\ t.hdr = s.hdr /\ t.ring = s.ring
      /\ x # c => t.inbox[x] = s.inbox[x] /\ t.wire[x] = s.wire[x]
  BY DEF AtSocket
<1>2. x = c
  BY <1>1 DEF Heard
<1> QED  BY <1>1, <1>2 DEF Heard

LEMMA ArmHeard ==
    ASSUME NEW t \in Sys, NEW c \in Conn
    PROVE  \A x \in Conn : Heard(Arm(t, c), x) = Heard(t, x)
BY ArmQuiet DEF Quiet, Heard

(* Every cell of a frame carries that frame.                               *)
LEMMA SaidCells ==
    ASSUME NEW f \in Frame, NEW k \in 1 .. f.len + 1
    PROVE  /\ Said(SubSeq(Cells(f), 1, k)) \subseteq {f}
           /\ Said(SubSeq(Cells(f), k + 1, Len(Cells(f)))) \subseteq {f}
<1> DEFINE q == Cells(f)
<1>1. q \in Seq(Cell) /\ Len(q) = f.len + 1 /\ f.len \in Nat
  BY CellsType DEF Frame
<1>2. \A i \in 1 .. Len(q) : q[i][1] = f
  BY <1>1 DEF Cells
<1> HIDE DEF q
<1>3. Said(q) \subseteq {f}
  BY <1>2 DEF Said
<1>4. k \in 0 .. Len(q) /\ k \in Nat /\ Len(q) \in 0 .. Len(q) /\ 0 \in Nat
      /\ 0 + 1 = 1
  BY <1>1
<1>5. Said(SubSeq(q, 0 + 1, k)) \subseteq Said(q)
      /\ Said(SubSeq(q, k + 1, Len(q))) \subseteq Said(q)
  BY <1>1, <1>4, SaidPart
<1> QED  BY <1>3, <1>4, <1>5 DEF q

LEMMA ArriveHeard ==
    ASSUME NEW s \in Sys, NEW c \in Conn, NEW f \in Frame, NEW k \in 1 .. f.len + 1
    PROVE  \A x \in Conn : \A g \in Heard(Arrive(s, c, f, k), x) :
               g \in Heard(s, x) \/ (x = c /\ g = f)
<1> DEFINE cells == Cells(f)
           a  == SubSeq(cells, 1, k)
           in == s.inbox[c] \o a
           w  == SubSeq(cells, k + 1, Len(cells))
           t  == [s EXCEPT !.inbox[c] = in, !.wire[c] = w]
<1>1. f.len \in Nat /\ s.inbox[c] \in Seq(Cell)
  BY DEF Frame, Sys
<1>2. cells \in Seq(Cell) /\ Len(cells) = f.len + 1
  BY CellsType
<1>a. Said(a) \subseteq {f} /\ Said(w) \subseteq {f}
  BY SaidCells
<1> HIDE DEF cells
<1>3. a \in Seq(Cell)
  BY <1>1, <1>2, SubSeqProperties
<1>4. in \in Seq(Cell) /\ w \in Seq(Cell)
  BY <1>1, <1>2, <1>3, DropPrefix, ConcatProperties
<1>5. Arrive(s, c, f, k) = Arm(t, c)
  BY DEF Arrive, cells
<1>b. Said(in) \subseteq Said(s.inbox[c]) \cup {f}
  <2> HIDE DEF a
  <2> QED  BY <1>1, <1>3, <1>a, SaidConcat
<1> HIDE DEF in, w
<1>7. t \in Sys
  BY <1>1, <1>4 DEF Sys
<1>8. AtSocket(s, t, c) /\ t.inbox[c] = in /\ t.wire[c] = w
  BY <1>1 DEF Sys, AtSocket
<1> HIDE DEF t
<1>9. Said(t.inbox[c]) \cup Said(t.wire[c])
          \subseteq Said(s.inbox[c]) \cup Said(s.wire[c]) \cup {f}
  BY <1>8, <1>a, <1>b
<1>10. \A x \in Conn : \A g \in Heard(t, x) :
          g \in Heard(s, x) \/ (x = c /\ g \in {f})
  BY <1>8, <1>9, SocketHeard
<1> QED  BY <1>5, <1>7, <1>10, ArmHeard

(* An input from which the far end's part was cut.                         *)
LEMMA GoneHeard ==
    ASSUME NEW s \in Sys, NEW c \in Conn, NEW t \in Sys, AtSocket(s, t, c),
           t.wire[c] = <<>>, t.inbox[c] \in {s.inbox[c], <<>>}
    PROVE  Forgets(s, Arm(t, c))
<1>1. Said(t.inbox[c]) \cup Said(t.wire[c])
          \subseteq Said(s.inbox[c]) \cup Said(s.wire[c]) \cup {}
  BY SaidNone
<1>2. \A x \in Conn : \A f \in Heard(t, x) :
          f \in Heard(s, x) \/ (x = c /\ f \in {})
  BY <1>1, SocketHeard
<1> QED  BY <1>2, ArmHeard DEF Forgets

LEMMA RoomHeard ==
    ASSUME NEW s \in Sys, NEW c \in Conn, NEW r \in {"open", "tight", "full"}
    PROVE  /\ Forgets(s, [s EXCEPT !.tx[c] = r])
           /\ Forgets(s, Arm([s EXCEPT !.tx[c] = r], c))
<1> DEFINE t == [s EXCEPT !.tx[c] = r]
<1>1. t \in Sys /\ Quiet(s, t)
  BY DEF Sys, Quiet
<1> HIDE DEF t
<1>2. Forgets(s, t)
  BY <1>1, QuietForgets
<1> QED  BY <1>1, <1>2, ArmHeard DEF Forgets, t

LEMMA ClientBrings ==
    ASSUME NEW c \in Conn, IInv,
           \/ ClientConnects \/ HealthChanges \/ ClientSends(c) \/ Slows(c)
    PROVE  /\ Brings /\ nreq' \in Nat /\ nreq' >= nreq
           /\ \A i \in 1 .. nreq : asker'[i] = asker[i]
<1>1. sys \in Sys /\ EnvOK /\ nreq \in Nat
  BY GoodSys, ReactorAssumption DEF IInv, EnvOK
<1>2. CASE ClientConnects \/ HealthChanges
  <2>1. sys' = sys /\ nreq' = nreq /\ asker' = asker
    BY <1>2 DEF ClientConnects, HealthChanges
  <2> QED  BY <1>1, <2>1 DEF Brings
<1>3. CASE ClientSends(c)
  <2>0. PICK m \in ClientKinds : \E k \in 1 .. m.len + 1 :
           sys' = Arrive(sys, c, [op |-> m.op, id |-> nreq', len |-> m.len], k)
    BY <1>3 DEF ClientSends
  <2>1. PICK k \in 1 .. m.len + 1 :
           sys' = Arrive(sys, c, [op |-> m.op, id |-> nreq', len |-> m.len], k)
    BY <2>0
  <2>2. /\ nreq' = nreq + 1 /\ nreq' \in 1 .. MaxReq
        /\ asker' = [asker EXCEPT ![nreq'] = c]
    BY <1>1, <1>3, ReactorAssumption DEF ClientSends, EnvOK
  <2> DEFINE f == [op |-> m.op, id |-> nreq', len |-> m.len]
  <2>3. f \in Frame /\ f.len = m.len /\ f.id = nreq'
    BY <2>2, ReactorAssumption DEF Frame
  <2>4. sys' = Arrive(sys, c, f, k)
    BY <2>1
  <2> HIDE DEF f
  <2>5. \A x \in Conn : \A g \in Heard(sys', x) :
           g \in Heard(sys, x) \/ (x = c /\ g = f)
    BY <1>1, <2>3, <2>4, ArriveHeard
  <2>6. asker'[nreq'] = c /\ \A i \in 1 .. nreq : asker'[i] = asker[i]
    <3>1. asker \in [1 .. MaxReq -> Conn \cup {Nil}]
      BY <1>1 DEF EnvOK
    <3>2. \A i \in 1 .. MaxReq : asker'[i] = IF i = nreq' THEN c ELSE asker[i]
      BY <2>2, <3>1
    <3>3. \A i \in 1 .. nreq : i \in 1 .. MaxReq /\ i # nreq'
      BY <1>1, <2>2, ReactorAssumption
    <3> QED  BY <2>2, <3>2, <3>3
  <2>7. sys.role[c] = "down"
    BY <1>3 DEF ClientSends
  <2>8. Brings
    BY <2>2, <2>3, <2>5, <2>6, <2>7 DEF Brings, Brought
  <2> QED  BY <1>1, <2>2, <2>6, <2>8
<1>4. CASE Slows(c)
  <2>1. PICK r \in {"tight", "full"} : sys' = [sys EXCEPT !.tx[c] = r]
    BY <1>4 DEF Slows
  <2>2. nreq' = nreq /\ asker' = asker
    BY <1>4 DEF Slows
  <2>3. Forgets(sys, sys')
    BY <1>1, <2>1, RoomHeard
  <2> QED  BY <1>1, <2>2, <2>3 DEF Brings, Forgets
<1> QED  BY <1>2, <1>3, <1>4

LEMMA FarBrings ==
    ASSUME NEW c \in Conn, IInv,
           \/ UpstreamAnswers(c) \/ RestArrives(c) \/ PeerCloses(c)
           \/ PeerResets(c) \/ ConnectCompletes(c) \/ Drains(c)
    PROVE  Brings /\ nreq' = nreq /\ asker' = asker
<1>1. Good(sys) /\ sys \in Sys /\ <<>> \in Seq(Cell)
  BY GoodSys, EmptySeq DEF IInv
<1>2. c \in sys.rings
  <2>1. Live(sys, c)
    BY DEF UpstreamAnswers, RestArrives, PeerCloses, PeerResets,
           ConnectCompletes, Drains, Sends, Open
  <2> QED  BY <1>1, <2>1 DEF Good, Sound, RingsLive
<1>u. nreq' = nreq /\ asker' = asker
  BY DEF UpstreamAnswers, RestArrives, PeerCloses, PeerResets,
         ConnectCompletes, Drains, env
<1>f. Forgets(sys, sys') => Brings
  BY DEF Forgets, Brings
<1>3. CASE UpstreamAnswers(c)
  <2>0. PICK m \in UpKinds : \E k \in 1 .. m.len + 1 :
           sys' = [Arrive(sys, c, [op |-> m.op, id |-> Head(sys.got[c]).id,
                                   len |-> m.len], k) EXCEPT !.got[c] = Tail(@)]
    BY <1>3 DEF UpstreamAnswers
  <2>1. PICK k \in 1 .. m.len + 1 :
           sys' = [Arrive(sys, c, [op |-> m.op, id |-> Head(sys.got[c]).id,
                                   len |-> m.len], k) EXCEPT !.got[c] = Tail(@)]
    BY <2>0
  <2> DEFINE f == [op |-> m.op, id |-> Head(sys.got[c]).id, len |-> m.len]
             t == Arrive(sys, c, f, k)
             g == Tail(t.got[c])
             u == [t EXCEPT !.got[c] = g]
  <2>2. sys.got[c] \in Seq(Frame) /\ sys.got[c] # <<>> /\ Up(c)
    BY <1>1, <1>3 DEF UpstreamAnswers, Sys
  <2>3. Head(sys.got[c]) \in Frame
    BY <2>2, HeadTailProperties
  <2>4. f \in Frame /\ f.len = m.len /\ f.id = Head(sys.got[c]).id
    BY <2>3, ReactorAssumption DEF Frame
  <2>5. sys' = u
    BY <2>1
  <2> HIDE DEF f
  <2>6. t \in Sys
    BY <1>1, <2>4, ArriveGood, GoodSys
  <2>7. \A x \in Conn : \A e \in Heard(t, x) :
           e \in Heard(sys, x) \/ (x = c /\ e = f)
    BY <1>1, <2>4, ArriveHeard
  <2> HIDE DEF t, g
  <2>8. Forgets(t, u)
    <3>1. Quiet(t, u)
      BY <2>6 DEF Quiet, Sys
    <3> QED  BY <3>1, QuietForgets
  <2>9. Brings
    BY <1>2, <2>2, <2>4, <2>5, <2>7, <2>8 DEF Brings, Brought, Forgets
  <2> QED  BY <1>u, <2>9
<1>4. CASE RestArrives(c)
  <2> DEFINE in == sys.inbox[c] \o sys.wire[c]
             t  == [sys EXCEPT !.inbox[c] = in, !.wire[c] = <<>>]
  <2>1. in \in Seq(Cell) /\ Said(in) \subseteq Said(sys.inbox[c]) \cup Said(sys.wire[c])
    BY <1>1, ConcatProperties, SaidConcat DEF Sys
  <2>2. sys' = Arm(t, c)
    BY <1>4 DEF RestArrives
  <2> HIDE DEF in
  <2>4. t \in Sys
    BY <1>1, <2>1 DEF Sys
  <2>5. AtSocket(sys, t, c) /\ t.inbox[c] = in /\ t.wire[c] = <<>>
    BY <1>1 DEF Sys, AtSocket
  <2> HIDE DEF t
  <2>6. Said(t.inbox[c]) \cup Said(t.wire[c])
            \subseteq Said(sys.inbox[c]) \cup Said(sys.wire[c]) \cup {}
    BY <2>1, <2>5, SaidNone
  <2>7. \A x \in Conn : \A f \in Heard(t, x) :
            f \in Heard(sys, x) \/ (x = c /\ f \in {})
    BY <1>1, <2>5, <2>6, SocketHeard
  <2>8. Forgets(sys, sys')
    BY <2>2, <2>4, <2>7, ArmHeard DEF Forgets
  <2> QED  BY <1>u, <1>f, <2>8
<1>5. CASE PeerCloses(c)
  <2> DEFINE t == [sys EXCEPT !.rx[c] = "eof", !.wire[c] = <<>>]
  <2>1. t \in Sys
    BY <1>1 DEF Sys
  <2>2. AtSocket(sys, t, c) /\ t.wire[c] = <<>> /\ t.inbox[c] = sys.inbox[c]
    BY <1>1 DEF Sys, AtSocket
  <2>3. sys' = Arm(t, c)
    BY <1>5 DEF PeerCloses
  <2> HIDE DEF t
  <2> QED  BY <1>1, <1>u, <1>f, <2>1, <2>2, <2>3, GoneHeard
<1>6. CASE sys' = Reset(sys, c)
  <2> DEFINE t == [sys EXCEPT !.rx[c] = "err", !.tx[c] = "broken",
                              !.inbox[c] = <<>>, !.wire[c] = <<>>]
  <2>1. t \in Sys
    BY <1>1 DEF Sys
  <2>2. AtSocket(sys, t, c) /\ t.wire[c] = <<>> /\ t.inbox[c] = <<>>
    BY <1>1 DEF Sys, AtSocket
  <2>3. sys' = Arm(t, c)
    BY <1>6 DEF Reset
  <2> HIDE DEF t
  <2> QED  BY <1>1, <1>u, <1>f, <2>1, <2>2, <2>3, GoneHeard
<1>7. CASE sys' = Arm([sys EXCEPT !.tx[c] = "open"], c)
  BY <1>1, <1>u, <1>f, <1>7, RoomHeard
<1> QED
  BY <1>3, <1>4, <1>5, <1>6, <1>7 DEF PeerResets, ConnectCompletes, Drains

LEMMA EnvironmentBrings ==
    ASSUME IInv, Environment
    PROVE  /\ Brings /\ nreq' \in Nat /\ nreq' >= nreq
           /\ \A i \in 1 .. nreq : asker'[i] = asker[i]
<1>0. nreq \in Nat
  BY ReactorAssumption DEF IInv, EnvOK
<1>1. CASE ClientConnects \/ HealthChanges
  <2>1. Conn # {}
    BY ReactorAssumption
  <2> QED  BY <1>1, <2>1, ClientBrings
<1>2. CASE \E c \in Conn : \/ ClientSends(c) \/ UpstreamAnswers(c)
                           \/ RestArrives(c) \/ PeerCloses(c) \/ PeerResets(c)
                           \/ ConnectCompletes(c) \/ Slows(c) \/ Drains(c)
  <2>1. PICK c \in Conn : \/ ClientSends(c) \/ UpstreamAnswers(c)
                          \/ RestArrives(c) \/ PeerCloses(c) \/ PeerResets(c)
                          \/ ConnectCompletes(c) \/ Slows(c) \/ Drains(c)
    BY <1>2
  <2>2. CASE ClientSends(c) \/ Slows(c)
    BY <2>2, ClientBrings
  <2>3. CASE ~(ClientSends(c) \/ Slows(c))
    <3>1. Brings /\ nreq' = nreq /\ asker' = asker
      BY <2>1, <2>3, FarBrings
    <3> QED  BY <1>0, <3>1
  <2> QED  BY <2>2, <2>3
<1> QED  BY <1>1, <1>2 DEF Environment

LEMMA FirstOfConcat ==
    ASSUME NEW p \in Seq(Frame), NEW q \in Seq(Frame), NEW k \in 1 .. Len(p)
    PROVE  k \in 1 .. Len(p \o q) /\ (p \o q)[k] = p[k]
<1> DEFINE m == Len(p)
           n == Len(q)
<1>1. m \in Nat /\ n \in Nat
  BY LenProperties
<1>2. k \in 1 .. m
  OBVIOUS
<1>3. /\ Len(p \o q) = m + n
      /\ \A i \in 1 .. m + n : (p \o q)[i] = IF i <= m THEN p[i] ELSE q[i - m]
  BY ConcatProperties
<1> HIDE DEF m, n
<1>4. k \in 1 .. m + n /\ k <= m
  BY <1>1, <1>2
<1> QED  BY <1>3, <1>4

LEMMA TailConcat ==
    ASSUME NEW p \in Seq(Frame), p # <<>>, NEW q \in Seq(Frame),
           NEW k \in 1 .. Len(Tail(p) \o q)
    PROVE  k + 1 \in 1 .. Len(p \o q) /\ (Tail(p) \o q)[k] = (p \o q)[k + 1]
<1> DEFINE r == Tail(p)
<1>1. /\ Len(p) \in Nat \ {0} /\ Len(q) \in Nat /\ r \in Seq(Frame)
      /\ Len(r) = Len(p) - 1 /\ \A i \in 1 .. Len(r) : r[i] = p[i + 1]
  BY EmptySeq, HeadTailProperties, LenProperties
<1> HIDE DEF r
<1>2. /\ Len(r \o q) = Len(r) + Len(q)
      /\ \A i \in 1 .. Len(r) + Len(q) :
            (r \o q)[i] = IF i <= Len(r) THEN r[i] ELSE q[i - Len(r)]
  BY <1>1, ConcatProperties
<1>3. /\ Len(p \o q) = Len(p) + Len(q)
      /\ \A i \in 1 .. Len(p) + Len(q) :
            (p \o q)[i] = IF i <= Len(p) THEN p[i] ELSE q[i - Len(p)]
  BY ConcatProperties
<1>4. k \in 1 .. Len(r) + Len(q) /\ k + 1 \in 1 .. Len(p) + Len(q)
      /\ k + 1 - Len(p) = k - Len(r) /\ (k <= Len(r) <=> k + 1 <= Len(p))
  BY <1>1, <1>2 DEF r
<1>5. CASE k <= Len(r)
  <2>1. k \in 1 .. Len(r)
    BY <1>1, <1>4, <1>5
  <2> QED  BY <1>1, <1>2, <1>3, <1>4, <1>5, <2>1 DEF r
<1>6. CASE ~(k <= Len(r))
  BY <1>2, <1>3, <1>4, <1>6 DEF r
<1> QED  BY <1>5, <1>6

LEMMA EnvironmentPrivate ==
    ASSUME LinkInv, Private, Environment
    PROVE  Private'
<1> DEFINE Theirs(f, d) == Belongs(f, d, nreq', asker')
<1>1. Good(sys) /\ sys \in Sys /\ IInv /\ nreq \in Nat
  BY GoodSys, ReactorAssumption DEF LinkInv, FlowInv, IInv, EnvOK
<1>2. /\ Outside(sys, sys')
      /\ \A x \in Conn : \/ sys'.got[x] = sys.got[x]
                         \/ Up(x) /\ sys.got[x] # <<>>
                                  /\ sys'.got[x] = Tail(sys.got[x])
  BY <1>1, EnvironmentOutside
<1>3. /\ Brings /\ nreq' \in Nat /\ nreq' >= nreq
      /\ \A i \in 1 .. nreq : asker'[i] = asker[i]
  BY <1>1, EnvironmentBrings
<1>4. ASSUME NEW f, NEW d, Mine(f, d) PROVE Theirs(f, d)
  <2>1. 1 .. nreq \subseteq 1 .. nreq'
    BY <1>1, <1>3
  <2> QED  BY <1>3, <1>4, <2>1 DEF Mine, Belongs
<1>5. ASSUME NEW x \in Conn PROVE Client(sys', x) = Client(sys, x)
  BY <1>2 DEF Client, Outside, IsUp
<1> SUFFICES ASSUME NEW x \in Conn
             PROVE  /\ sys'.role[x] = "new" => OutOf(sys', x) = <<>> /\ sys'.pend[x].id = 0
                    /\ sys'.role[x] = "down" => Theirs(sys'.pend[x], x)
                    /\ sys'.role[x] = "down" \/ x \in sys'.rings =>
                          /\ \A k \in 1 .. Len(OutOf(sys', x)) :
                                Theirs(OutOf(sys', x)[k], Client(sys', x))
                          /\ \A f \in Heard(sys', x) : Theirs(f, Client(sys', x))
  BY DEF Private, Mine
<1>6. /\ sys'.role[x] = sys.role[x] /\ sys'.pend[x] = sys.pend[x]
      /\ sys'.rings = sys.rings /\ sys'.remain[x] = sys.remain[x]
  BY <1>2 DEF Outside
<1> DEFINE p == OutOf(sys, x)
           q == OutOf(sys', x)
<1>7. sys'.role[x] = "new" => q = <<>> /\ sys'.pend[x].id = 0
  BY <1>2, <1>6 DEF Private, OutOf, Up
<1>8. sys'.role[x] = "down" => Theirs(sys'.pend[x], x)
  BY <1>4, <1>6 DEF Private
<1>9. ASSUME sys.role[x] = "down" \/ x \in sys.rings
      PROVE  /\ \A k \in 1 .. Len(q) : Theirs(q[k], Client(sys, x))
             /\ \A f \in Heard(sys', x) : Theirs(f, Client(sys, x))
  <2>1. /\ \A k \in 1 .. Len(p) : Mine(p[k], Client(sys, x))
        /\ \A f \in Heard(sys, x) : Mine(f, Client(sys, x))
    BY <1>9 DEF Private
  <2>2. ASSUME NEW k \in 1 .. Len(q)
        PROVE  \E j \in 1 .. Len(p) : q[k] = p[j]
    <3>1. CASE sys'.got[x] = sys.got[x]
      BY <1>6, <3>1 DEF OutOf
    <3>2. CASE sys.got[x] # <<>> /\ sys'.got[x] = Tail(sys.got[x])
      <4>1. sys.got[x] \in Seq(Frame) /\ sys.remain[x] \in Seq(Frame)
        BY <1>1, OutType
      <4>2. q = Tail(sys.got[x]) \o sys.remain[x]
        BY <1>6, <3>2 DEF OutOf
      <4>3. k + 1 \in 1 .. Len(p) /\ q[k] = p[k + 1]
        <5>1. \A i \in 1 .. Len(Tail(sys.got[x]) \o sys.remain[x]) :
                 /\ i + 1 \in 1 .. Len(sys.got[x] \o sys.remain[x])
                 /\ (Tail(sys.got[x]) \o sys.remain[x])[i]
                       = (sys.got[x] \o sys.remain[x])[i + 1]
          BY <3>2, <4>1, TailConcat
        <5>2. p = sys.got[x] \o sys.remain[x] /\ k \in 1 .. Len(q)
          BY <2>2 DEF OutOf
        <5> HIDE DEF p, q
        <5> QED  BY <4>2, <5>1, <5>2
      <4> QED  BY <4>3
    <3> QED  BY <1>2, <3>1, <3>2
  <2>3. ASSUME NEW k \in 1 .. Len(q) PROVE Theirs(q[k], Client(sys, x))
    <3> HIDE DEF p, q, Theirs
    <3> QED  BY <1>4, <2>1, <2>2
  <2>4. ASSUME NEW f \in Heard(sys', x) PROVE Theirs(f, Client(sys, x))
    <3>1. CASE f \in Heard(sys, x)
      BY <1>4, <2>1, <3>1
    <3>2. CASE sys.role[x] = "down" /\ nreq' = nreq + 1 /\ f.id = nreq' /\ asker'[nreq'] = x
      <4>1. f.id \in 1 .. nreq' /\ asker'[f.id] = x
        BY <1>1, <3>2
      <4> QED  BY <3>2, <4>1 DEF Client, IsUp, Belongs
    <3>3. CASE sys.got[x] # <<>> /\ f.id = Head(sys.got[x]).id
      <4>1. sys.got[x] \in Seq(Frame) /\ sys.remain[x] \in Seq(Frame)
        BY <1>1, OutType
      <4>2. 1 \in 1 .. Len(sys.got[x]) /\ Head(sys.got[x]) = sys.got[x][1]
        <5>1. Len(sys.got[x]) \in Nat \ {0} /\ Head(sys.got[x]) = sys.got[x][1]
          BY <3>3, <4>1, EmptySeq, HeadTailProperties, LenProperties
        <5> QED  BY <5>1
      <4>3. 1 \in 1 .. Len(p) /\ p[1] = sys.got[x][1]
        BY <4>1, <4>2, FirstOfConcat DEF OutOf
      <4>4. Mine(p[1], Client(sys, x)) /\ f.id = p[1].id
        BY <2>1, <3>3, <4>2, <4>3
      <4>5. Mine(f, Client(sys, x))
        <5> HIDE DEF p
        <5> QED  BY <4>4 DEF Mine, Belongs
      <4> QED  BY <1>4, <4>5
    <3> QED  BY <1>3, <3>1, <3>2, <3>3 DEF Brings, Brought
  <2> QED  BY <2>3, <2>4
<1> QED  BY <1>5, <1>6, <1>7, <1>8, <1>9

LEMMA NextPrivate ==
    LinkInv /\ LinkInv' /\ Private /\ [Next]_vars /\ [~Reselects]_vars => Private'
<1> SUFFICES ASSUME LinkInv, LinkInv', Private, [Next]_vars, [~Reselects]_vars
             PROVE  Private'
  OBVIOUS
<1>1. CASE Run /\ ~Reselects
  BY <1>1, RunPrivate
<1>2. CASE Environment
  BY <1>2, EnvironmentPrivate
<1>3. CASE UNCHANGED vars
  BY <1>3 DEF vars, Private, Mine, Belongs
<1> QED  BY <1>1, <1>2, <1>3 DEF Next

(* A client is sent answers to its own requests only, however descriptors  *)
(* and upstreams' ports are reused, through held requests, stashed output, *)
(* failed connects and the errors that closeConn sends; as long as no      *)
(* client's upstream is replaced, after which its descriptor may name the  *)
(* socket of another client.                                               *)
THEOREM AnswersAreOwn == Spec /\ [][~Reselects]_vars => []OwnAnswers
<1>1. LinkInv /\ Private => OwnAnswers
  <2> SUFFICES ASSUME LinkInv, Private, NEW c \in Conn, sys.role[c] = "down",
                      NEW k \in DOMAIN sys.got[c], sys.got[c][k].id # 0
               PROVE  asker[sys.got[c][k].id] = c
    BY DEF OwnAnswers
  <2>1. sys \in Sys
    BY GoodSys DEF LinkInv, FlowInv, IInv
  <2>2. sys.got[c] \in Seq(Frame) /\ sys.remain[c] \in Seq(Frame)
    BY <2>1, OutType
  <2>3. k \in 1 .. Len(sys.got[c])
    BY <2>2, LenProperties
  <2>4. k \in 1 .. Len(OutOf(sys, c)) /\ OutOf(sys, c)[k] = sys.got[c][k]
    BY <2>2, <2>3, FirstOfConcat DEF OutOf
  <2>5. Mine(sys.got[c][k], c)
    BY <2>4 DEF Private, Client, IsUp
  <2> QED  BY <2>5 DEF Mine, Belongs
<1> QED  BY <1>1, InitLinks, InitPrivate, NextLinks, NextPrivate, PTL DEF Spec

(* With one endpoint it holds of every behaviour.                          *)
THEOREM OneEndpointAnswers ==
    ASSUME OneEndpoint
    PROVE  Spec => []OwnAnswers
<1>1. LinkInv /\ [Next]_vars => LinkInv' /\ [~Reselects]_vars
  BY NoneReselects, NextLinks
<1>2. Spec => [][~Reselects]_vars
  BY <1>1, InitLinks, PTL DEF Spec
<1> QED  BY <1>2, AnswersAreOwn, PTL

----------------------------------------------------------------------------
(* Edges: a socket that has become ready is on the ready list, or its      *)
(* event is still to be handled.                                           *)

(* What a connection may wait for, and the interest it must have in it.    *)
Reads(s, x)  == s.role[x] # "connecting" /\ Readable(s, x)
Writes(s, x) == s.remain[x] # <<>> /\ Writable(s, x)
Asks(s, x) ==
    /\ s.role[x] # "connecting" => "R" \in s.want[x]
    /\ s.remain[x] # <<>> => "W" \in s.want[x]

(* The goroutine will still read the connections in P and write those in   *)
(* Q; any other that is ready is on the ready list.                        *)
Watched(s, P, Q) ==
    \A x \in s.rings :
        /\ Asks(s, x)
        /\ Reads(s, x) /\ x \notin s.paused => x \in s.armed \cup P
        /\ Writes(s, x) => x \in s.armed \cup Q

(* From s to t nothing becomes ready at x without its edge, and no edge    *)
(* is taken away; or x has been registered anew.                           *)
Seen(t, x) == Asks(t, x) /\ (Reads(t, x) \/ Writes(t, x) => x \in t.armed)
Carries(s, t, x) ==
    Asks(s, x) => /\ Asks(t, x) /\ (x \in s.armed => x \in t.armed)
                  /\ Reads(t, x) => x \in t.armed \/ Reads(s, x)
                  /\ Writes(t, x) => x \in t.armed \/ Writes(s, x)
Watches(s, t) ==
    \A x \in t.rings : Seen(t, x) \/ (x \in s.rings /\ Carries(s, t, x))

(* Nothing that matters to the edges of x changes.                         *)
Rests(s, t, x) ==
    /\ t.role[x] = s.role[x] /\ t.want[x] = s.want[x]
    /\ t.remain[x] = s.remain[x] /\ t.tx[x] = s.tx[x]
    /\ t.inbox[x] = s.inbox[x] /\ t.rx[x] = s.rx[x]
    /\ x \in s.armed => x \in t.armed

LEMMA RestsCarries ==
    ASSUME NEW s, NEW t, NEW x, Rests(s, t, x)
    PROVE  Carries(s, t, x)
BY DEF Rests, Carries, Asks, Reads, Writes, Readable, Writable

LEMMA RestsTrans ==
    ASSUME NEW s, NEW t, NEW u, NEW x, Rests(s, t, x), Rests(t, u, x)
    PROVE  Rests(s, u, x)
BY DEF Rests

LEMMA SeenOn ==
    ASSUME NEW s, NEW t, NEW x, Seen(s, x), Carries(s, t, x)
    PROVE  Seen(t, x)
BY DEF Seen, Carries

LEMMA CarriesTrans ==
    ASSUME NEW s, NEW t, NEW u, NEW x, Carries(s, t, x), Carries(t, u, x)
    PROVE  Carries(s, u, x)
BY DEF Carries

LEMMA WatchesTrans ==
    ASSUME NEW s, NEW t, NEW u, Watches(s, t), Watches(t, u)
    PROVE  Watches(s, u)
BY SeenOn, CarriesTrans DEF Watches

LEMMA WatchesSeen ==
    ASSUME NEW s, NEW t, NEW x, Seen(s, x), Watches(s, t), x \in t.rings
    PROVE  Seen(t, x)
BY SeenOn DEF Watches

LEMMA WatchesSelf ==
    ASSUME NEW s
    PROVE  Watches(s, s)
BY RestsCarries DEF Watches, Rests

(* A step that concerns the edges of c alone.                              *)
LEMMA WatchesAt ==
    ASSUME NEW s, NEW t, NEW c, t.rings \subseteq s.rings,
           \A x \in t.rings : x # c => Rests(s, t, x),
           c \in t.rings => Seen(t, c) \/ Carries(s, t, c)
    PROVE  Watches(s, t)
BY RestsCarries DEF Watches

LEMMA WatchesIdle ==
    ASSUME NEW s, NEW t, t.rings \subseteq s.rings,
           \A x \in t.rings : Rests(s, t, x)
    PROVE  Watches(s, t)
BY RestsCarries DEF Watches

LEMMA ArmRests ==
    ASSUME NEW s \in Sys, NEW c \in Conn
    PROVE  /\ \A x \in Conn : Rests(s, Arm(s, c), x)
           /\ Asks(s, c) => Seen(Arm(s, c), c)
<1> DEFINE u == [s EXCEPT !.armed = @ \cup {c}]
<1>1. /\ u.role = s.role /\ u.want = s.want /\ u.remain = s.remain /\ u.tx = s.tx
      /\ u.inbox = s.inbox /\ u.rx = s.rx /\ u.armed = s.armed \cup {c}
  BY DEF Sys
<1>2. Arm(s, c) = IF Bits(s, c) = {} THEN s ELSE u
  BY DEF Arm
<1> HIDE DEF u
<1>3. Asks(s, c) /\ (Reads(s, c) \/ Writes(s, c)) => Bits(s, c) # {}
  BY DEF Asks, Reads, Writes, Bits
<1>4. \A x \in Conn : Rests(s, u, x) /\ Rests(s, s, x)
  BY <1>1 DEF Rests
<1>5. Asks(s, c) => Seen(u, c)
  BY <1>1 DEF Seen, Asks
<1>6. Asks(s, c) /\ Bits(s, c) = {} => Seen(s, c)
  BY <1>3 DEF Seen
<1> QED  BY <1>2, <1>4, <1>5, <1>6

(* Mod on a descriptor of its own registers anew.                          *)
LEMMA ModSeen ==
    ASSUME NEW s \in Sys, NEW c \in Conn, NEW bits \in SUBSET {"R", "W"},
           Own(s, c), Sock(s, c) # Nil, "R" \in bits,
           s.remain[c] # <<>> => "W" \in bits
    PROVE  LET t == Mod(s, c, bits)
           IN  /\ \A x \in Conn : x # c => Rests(s, t, x)
               /\ Seen(t, c)
<1> DEFINE w == [s EXCEPT !.want[c] = bits]
<1>1. w \in Sys
  BY DEF Sys
<1>2. /\ w.role = s.role /\ w.remain = s.remain /\ w.tx = s.tx
      /\ w.inbox = s.inbox /\ w.rx = s.rx /\ w.armed = s.armed
      /\ w.want[c] = bits /\ \A x \in Conn : x # c => w.want[x] = s.want[x]
  BY DEF Sys
<1>3. Mod(s, c, bits) = Arm(w, c)
  BY DEF Mod, Own
<1> HIDE DEF w
<1>4. Asks(w, c)
  BY <1>2 DEF Asks
<1>5. \A x \in Conn : x # c => Rests(s, w, x)
  BY <1>2 DEF Rests
<1>6. Seen(Arm(w, c), c) /\ \A x \in Conn : Rests(w, Arm(w, c), x)
  BY <1>1, <1>4, ArmRests
<1> QED  BY <1>3, <1>5, <1>6, RestsTrans

(* flushRemain sends all, and asks for input alone; or fills the buffer.   *)
LEMMA ResendWatches ==
    ASSUME NEW s \in Sys, NEW c \in Conn, Own(s, c)
    PROVE  /\ Watches(s, Resend(s, c))
           /\ Live(s, c) /\ Room(s, c) # "broken" => ~Writes(Resend(s, c), c)
<1> DEFINE r == s.remain[c]
<1>0. r \in Seq(Frame) /\ Resend(s, c).rings = s.rings /\ s.rings \subseteq Conn
  BY OutType, ResendKeeps DEF Same, Sys
<1>1. CASE r = <<>> \/ Room(s, c) \notin {"open", "tight"}
  <2>1. Resend(s, c) = s
    BY <1>1 DEF Resend
  <2>2. Live(s, c) /\ Room(s, c) # "broken" => ~Writes(s, c)
    <3>1. Live(s, c) /\ Room(s, c) # "broken" => Room(s, c) = s.tx[c]
      BY ReactorAssumption DEF Room, Live
    <3>2. s.tx[c] \in {"open", "tight", "full", "syn", "broken"}
      BY DEF Sys
    <3> QED  BY <1>1, <3>1, <3>2 DEF Writes, Writable
  <2> QED  BY <2>1, <2>2, WatchesSelf
<1>2. CASE r # <<>> /\ Room(s, c) = "open"
  <2> DEFINE t == Deliver(s, c, r)
             u == [t EXCEPT !.remain[c] = <<>>]
             v == Mod(u, c, {"R"})
  <2>1. Sock(s, c) = c /\ <<>> \in Seq(Frame) /\ c # Nil
    BY <1>2, OwnSock, EmptySeq, ReactorAssumption
  <2>2. t \in Sys /\ Same(s, t)
    BY <1>0, <2>1, DeliverKeeps
  <2>3. /\ t.remain = s.remain /\ t.want = s.want /\ t.tx = s.tx
        /\ t.inbox = s.inbox /\ t.rx = s.rx /\ t.armed = s.armed
    BY DEF Deliver, Sys
  <2>4. Resend(s, c) = v
    BY <1>2 DEF Resend
  <2> HIDE DEF t
  <2>5. u \in Sys /\ Same(t, u)
    BY <2>1, <2>2, RemainKeeps
  <2>6. /\ u.want = t.want /\ u.tx = t.tx /\ u.inbox = t.inbox /\ u.rx = t.rx
        /\ u.armed = t.armed /\ u.remain[c] = <<>>
        /\ \A x \in Conn : x # c => u.remain[x] = t.remain[x]
    BY <2>2 DEF Sys
  <2> HIDE DEF u
  <2>7. \A x \in Conn : x # c => Rests(s, u, x)
    BY <2>2, <2>3, <2>5, <2>6 DEF Rests, Same
  <2>8. Own(u, c) /\ Sock(u, c) # Nil
    BY <2>1, <2>2, <2>5 DEF Own, Sock, Same
  <2>9. Seen(v, c) /\ \A x \in Conn : x # c => Rests(u, v, x)
    BY <2>5, <2>6, <2>8, ModSeen
  <2>10. ~Writes(v, c)
    <3>1. Mute(u, v)
      BY <2>5, ModMute
    <3> QED  BY <2>6, <3>1 DEF Mute, Writes
  <2> HIDE DEF v
  <2>11. \A x \in Conn : x # c => Rests(s, v, x)
    BY <2>7, <2>9, RestsTrans
  <2> QED  BY <1>0, <2>4, <2>9, <2>10, <2>11, WatchesAt
<1>3. CASE r # <<>> /\ Room(s, c) = "tight"
  <2> DEFINE q == SubSeq(r, 1, Len(r) - 1)
             w == <<r[Len(r)]>>
             t == Deliver(s, c, q)
             u == [t EXCEPT !.remain[c] = w]
             v == [u EXCEPT !.tx[Sock(s, c)] = "full"]
  <2>1. q \in Seq(Frame) /\ w \in Seq(Frame) /\ Sock(s, c) = c
    BY <1>0, <1>3, ButLast, OwnSock
  <2>2. t \in Sys /\ Same(s, t)
    BY <2>1, DeliverKeeps
  <2>3. /\ t.remain = s.remain /\ t.want = s.want /\ t.tx = s.tx
        /\ t.inbox = s.inbox /\ t.rx = s.rx /\ t.armed = s.armed
    BY DEF Deliver, Sys
  <2>4. Resend(s, c) = v
    BY <1>3 DEF Resend
  <2> HIDE DEF t, q, w
  <2>5. u \in Sys /\ Same(t, u)
    BY <2>1, <2>2, RemainKeeps
  <2>6. /\ u.want = t.want /\ u.tx = t.tx /\ u.inbox = t.inbox /\ u.rx = t.rx
        /\ u.armed = t.armed /\ \A x \in Conn : x # c => u.remain[x] = t.remain[x]
    BY <2>2 DEF Sys
  <2> HIDE DEF u
  <2>7. /\ v.role = u.role /\ v.want = u.want /\ v.inbox = u.inbox /\ v.rx = u.rx
        /\ v.armed = u.armed /\ v.remain = u.remain /\ v.tx[c] = "full"
        /\ \A x \in Conn : x # c => v.tx[x] = u.tx[x]
    BY <2>1, <2>5 DEF Sys
  <2> HIDE DEF v
  <2>8. \A x \in Conn : x # c => Rests(s, v, x)
    BY <2>2, <2>3, <2>5, <2>6, <2>7 DEF Rests, Same
  <2>9. ~Writes(v, c)
    BY <2>7 DEF Writes, Writable
  <2>10. Carries(s, v, c)
    <3>1. /\ v.role[c] = s.role[c] /\ v.want[c] = s.want[c] /\ v.armed = s.armed
          /\ v.inbox[c] = s.inbox[c] /\ v.rx[c] = s.rx[c]
      BY <2>2, <2>3, <2>5, <2>6, <2>7 DEF Same
    <3>2. Asks(s, c) => Asks(v, c)
      BY <1>3, <3>1 DEF Asks
    <3>3. Reads(v, c) => Reads(s, c)
      BY <3>1 DEF Reads, Readable
    <3> QED  BY <2>9, <3>1, <3>2, <3>3 DEF Carries
  <2> QED  BY <1>0, <2>4, <2>8, <2>9, <2>10, WatchesAt
<1> QED  BY <1>1, <1>2, <1>3

LEMMA StashWatches ==
    ASSUME NEW s \in Sys, NEW c \in Conn, NEW r, s.remain[c] # <<>>
    PROVE  Watches(s, [s EXCEPT !.remain[c] = r])
<1> DEFINE t == [s EXCEPT !.remain[c] = r]
<1>1. /\ t.role = s.role /\ t.want = s.want /\ t.inbox = s.inbox /\ t.rx = s.rx
      /\ t.armed = s.armed /\ t.tx = s.tx /\ t.rings = s.rings
      /\ \A x \in Conn : x # c => t.remain[x] = s.remain[x]
  BY DEF Sys
<1> HIDE DEF t
<1>2. Carries(s, t, c)
  BY <1>1 DEF Carries, Asks, Reads, Writes, Readable, Writable
<1>3. \A x \in Conn : x # c => Rests(s, t, x)
  BY <1>1 DEF Rests
<1>4. s.rings \subseteq Conn
  BY DEF Sys
<1>5. Watches(s, t)
  BY <1>1, <1>2, <1>3, <1>4, WatchesAt
<1> QED  BY <1>5 DEF t

LEMMA SpillWatches ==
    ASSUME NEW s \in Sys, NEW c \in Conn, NEW f \in Frame
    PROVE  Watches(s, Spill(s, c, f))
<1>1. CASE s.remain[c] = <<>>
  <2> DEFINE t == Spill(s, c, f)
  <2>1. t = [s EXCEPT !.remain[c] = s.remain[c]]
    BY <1>1 DEF Spill, Sys
  <2>2. /\ t.role = s.role /\ t.want = s.want /\ t.inbox = s.inbox /\ t.rx = s.rx
        /\ t.armed = s.armed /\ t.tx = s.tx /\ t.rings = s.rings
        /\ t.remain = s.remain
    BY <2>1 DEF Sys
  <2> HIDE DEF t
  <2>3. Watches(s, t)
    BY <2>2, WatchesIdle DEF Rests
  <2> QED  BY <2>3 DEF t
<1>2. CASE s.remain[c] # <<>>
  <2> DEFINE r == Append(s.remain[c], f)
  <2>1. Spill(s, c, f) = [s EXCEPT !.remain[c] = r]
    BY <1>2 DEF Spill, Sys
  <2> HIDE DEF r
  <2> QED  BY <1>2, <2>1, StashWatches
<1> QED  BY <1>1, <1>2

(* A short write stashes the rest and asks for output.                     *)
LEMMA WritevWatches ==
    ASSUME NEW s \in Sys, NEW c \in Conn, NEW f \in Frame, Own(s, c)
    PROVE  Watches(s, Writev(s, c, f))
<1>1. CASE Room(s, c) # "tight"
  <2> DEFINE t == Writev(s, c, f)
  <2>1. t = Deliver(s, c, <<f>>) \/ t = [s EXCEPT !.panic = TRUE]
    BY <1>1 DEF Writev
  <2>2. /\ t.role = s.role /\ t.want = s.want /\ t.inbox = s.inbox /\ t.rx = s.rx
        /\ t.armed = s.armed /\ t.tx = s.tx /\ t.rings = s.rings
        /\ t.remain = s.remain
    BY <2>1 DEF Deliver, Sys
  <2> HIDE DEF t
  <2>3. Watches(s, t)
    BY <2>2, WatchesIdle DEF Rests
  <2> QED  BY <2>3 DEF t
<1>2. CASE Room(s, c) = "tight"
  <2> DEFINE w == <<f>>
             t == [s EXCEPT !.remain[c] = w, !.tx[Sock(s, c)] = "full"]
             v == Mod(t, c, WantStashed)
  <2>1. Sock(s, c) = c /\ w \in Seq(Frame) /\ c # Nil
    BY <1>2, OwnSock, ReactorAssumption
  <2>2. t \in Sys
    BY <2>1 DEF Sys
  <2>3. /\ t.role = s.role /\ t.want = s.want /\ t.inbox = s.inbox /\ t.rx = s.rx
        /\ t.armed = s.armed /\ t.rings = s.rings /\ t.tab = s.tab /\ t.fd = s.fd
        /\ \A x \in Conn : x # c => t.remain[x] = s.remain[x] /\ t.tx[x] = s.tx[x]
    BY <2>1 DEF Sys
  <2>4. Writev(s, c, f) = v
    BY <1>2 DEF Writev
  <2> HIDE DEF t, w
  <2>5. Own(t, c) /\ Sock(t, c) # Nil
    BY <2>1, <2>3 DEF Own, Sock
  <2>6. Seen(v, c) /\ \A x \in Conn : x # c => Rests(t, v, x)
    BY <2>2, <2>5, ModSeen DEF WantStashed
  <2>7. v.rings = s.rings /\ s.rings \subseteq Conn
    <3>1. WantStashed \in SUBSET {"R", "W"}
      BY DEF WantStashed
    <3>2. Same(t, v)
      BY <2>2, <3>1, ModKeeps
    <3> QED  BY <2>3, <3>2 DEF Same, Sys
  <2> HIDE DEF v
  <2>8. \A x \in Conn : x # c => Rests(s, t, x)
    BY <2>3 DEF Rests
  <2>9. \A x \in Conn : x # c => Rests(s, v, x)
    BY <2>6, <2>8, RestsTrans
  <2> QED  BY <2>4, <2>6, <2>7, <2>9, WatchesAt
<1> QED  BY <1>1, <1>2

LEMMA WriteWatches ==
    ASSUME NEW s \in Sys, NEW c \in Conn, NEW f \in Frame, Own(s, c)
    PROVE  Watches(s, Write(s, c, f))
<1> DEFINE t == Resend(s, c)
           u == Write(s, c, f)
<1>1. t \in Sys /\ Same(s, t) /\ Watches(s, t)
  BY ResendKeeps, ResendWatches
<1>2. u = IF t.remain[c] = <<>> THEN Writev(t, c, f)
          ELSE [t EXCEPT !.remain[c] = Append(t.remain[c], f)]
  BY <1>1 DEF Write, Sys
<1>3. Own(t, c)
  BY <1>1 DEF Own, Sock, Same
<1> HIDE DEF t, u
<1>4. Watches(t, u)
  BY <1>1, <1>2, <1>3, WritevWatches, StashWatches
<1> QED  BY <1>1, <1>4, WatchesTrans DEF u

(* Closing a connection leaves the edges of all others alone.              *)
LEMMA DropRests ==
    ASSUME NEW s \in Sys, NEW c \in Conn
    PROVE  LET t == Drop(s, c)
           IN  t.rings = s.rings \ {c} /\ \A x \in Conn : x # c => Rests(s, t, x)
<1> DEFINE t == Drop(s, c)
<1>1. /\ t.role = s.role /\ t.remain = s.remain /\ t.tx = s.tx /\ t.rx = s.rx
      /\ t.rings = s.rings \ {c} /\ t.armed = s.armed \ {c}
      /\ \A x \in Conn : x # c => t.want[x] = s.want[x] /\ t.inbox[x] = s.inbox[x]
  BY DEF Drop, Sys
<1> HIDE DEF t
<1>2. \A x \in Conn : x # c => Rests(s, t, x)
  BY <1>1 DEF Rests
<1> QED  BY <1>1, <1>2 DEF t

LEMMA DropLiveWatches ==
    ASSUME NEW s \in Sys, NEW c \in Conn
    PROVE  Watches(s, DropLive(s, c))
<1> DEFINE t == Drop(s, c)
<1>1. t.rings = s.rings \ {c} /\ \A x \in Conn : x # c => Rests(s, t, x)
  BY DropRests
<1>2. s.rings \subseteq Conn
  BY DEF Sys
<1> HIDE DEF t
<1>3. Watches(s, t)
  BY <1>1, <1>2, WatchesIdle
<1> QED  BY <1>3, WatchesSelf DEF DropLive, t

LEMMA ReplyAloneWatches ==
    ASSUME NEW s, NEW c \in Conn, NEW f \in Frame, Good(s), s.peer[c] = Nil,
           Own(s, c)
    PROVE  Watches(s, ReplyAlone(s, c, f))
<1>0. s \in Sys
  BY GoodSys
<1>1. CASE Room(s, c) = "broken"
  <2> DEFINE t == DropLive(s, c)
             u == Spill(t, c, f)
  <2>1. t \in Sys /\ Watches(s, t)
    BY <1>0, DropLiveCloses, DropLiveWatches, GoodSys DEF Closes
  <2>2. ReplyAlone(s, c, f) = u
    BY <1>1 DEF ReplyAlone
  <2> HIDE DEF t
  <2>3. Watches(t, u)
    BY <2>1, SpillWatches
  <2> HIDE DEF u
  <2> QED  BY <2>1, <2>2, <2>3, WatchesTrans
<1>2. CASE Room(s, c) # "broken"
  BY <1>0, <1>2, WriteWatches DEF ReplyAlone
<1> QED  BY <1>1, <1>2

LEMMA CloseConnWatches ==
    ASSUME NEW s, NEW c \in Conn, Good(s), Wired(s)
    PROVE  Watches(s, CloseConn(s, c)) /\ c \notin CloseConn(s, c).rings
<1>0. s \in Sys /\ Sound(s)
  BY GoodSys DEF Good
<1>1. CASE ~Live(s, c)
  <2>1. CloseConn(s, c) = s /\ c \notin s.rings
    BY <1>0, <1>1 DEF CloseConn, Sound, RingsLive
  <2> QED  BY <2>1, WatchesSelf
<1>2. CASE Live(s, c) /\ s.peer[c] = Nil
  <2>1. CloseConn(s, c) = Drop(s, c) /\ CloseConn(s, c) = DropLive(s, c)
    BY <1>2 DEF CloseConn, DropLive
  <2>2. c \notin Drop(s, c).rings
    BY <1>0, DropRests
  <2>3. Watches(s, DropLive(s, c))
    BY <1>0, DropLiveWatches
  <2> QED  BY <2>1, <2>2, <2>3
<1>3. CASE Live(s, c) /\ s.peer[c] # Nil
  <2> DEFINE p == s.peer[c]
             t == Drop(s, c)
             u == Unlink(t, p)
             f == ErrorOf(u.pend[p].id)
             r == CloseConn(s, c)
  <2>1. /\ t \in Sys /\ t.peer[p] = c /\ p \in Conn /\ Good(u)
        /\ u.peer[p] = Nil /\ f \in Frame
    BY <1>3, UnlinkCloses DEF Closes
  <2>2. r = IF u.role[p] = "down" THEN ReplyAlone(u, p, f) ELSE DropLive(u, p)
    BY <1>3, <2>1 DEF CloseConn
  <2>3. t.rings = s.rings \ {c} /\ \A x \in Conn : x # c => Rests(s, t, x)
    BY <1>0, DropRests
  <2> HIDE DEF t
  <2>4. /\ u.role = t.role /\ u.want = t.want /\ u.remain = t.remain /\ u.tx = t.tx
        /\ u.inbox = t.inbox /\ u.rx = t.rx /\ u.armed = t.armed /\ u.rings = t.rings
    BY <2>1 DEF Unlink, Sys
  <2> HIDE DEF u, f, r
  <2>5. p # c /\ s.peer[p] = c /\ c # Nil
    BY <1>3, PeerApart, ReactorAssumption DEF Good, Paired
  <2>6. p \in u.rings
    BY <2>1, <2>3, <2>4, <2>5 DEF Wired
  <2>7. \A x \in Conn : x # c => Rests(s, u, x)
    BY <2>3, <2>4 DEF Rests
  <2>8. s.rings \subseteq Conn
    BY <1>0 DEF Sys
  <2>9. Watches(s, u)
    BY <2>3, <2>4, <2>7, <2>8, WatchesIdle
  <2>10. Own(u, p) /\ u \in Sys /\ Sound(u)
    BY <2>1, <2>6, RingOwn, GoodSys DEF Good
  <2>11. Watches(u, r)
    BY <2>1, <2>2, <2>10, ReplyAloneWatches, DropLiveWatches
  <2>12. r.rings \subseteq u.rings
    BY <2>1, <2>2, <2>10, ReplyAloneTrims, DropLiveTrims DEF Trims
  <2>13. Watches(s, r) /\ c \notin r.rings
    BY <2>3, <2>4, <2>9, <2>11, <2>12, WatchesTrans
  <2> QED  BY <2>13 DEF r
<1> QED  BY <1>1, <1>2, <1>3

LEMMA FlushWatches ==
    ASSUME NEW s, NEW c \in Conn, NEW f \in Frame, Good(s), Wired(s), Own(s, c)
    PROVE  Watches(s, Flush(s, c, f))
<1>0. s \in Sys
  BY GoodSys
<1>1. CASE Room(s, c) = "broken"
  <2> DEFINE t == CloseConn(s, c)
             u == Spill(t, c, f)
  <2>1. t \in Sys /\ Watches(s, t)
    BY CloseConnCloses, CloseConnWatches, GoodSys DEF Closes
  <2>2. Flush(s, c, f) = u
    BY <1>1 DEF Flush
  <2> HIDE DEF t
  <2>3. Watches(t, u)
    BY <2>1, SpillWatches
  <2> HIDE DEF u
  <2> QED  BY <2>1, <2>2, <2>3, WatchesTrans
<1>2. CASE Room(s, c) # "broken"
  BY <1>0, <1>2, WriteWatches DEF Flush
<1> QED  BY <1>1, <1>2

(* After EvWrite nothing more can be written: it was flushed, or the       *)
(* buffer is full again.                                                   *)
LEMMA FlushRemainWatches ==
    ASSUME NEW s, NEW c \in Conn, Good(s), Wired(s), Live(s, c)
    PROVE  LET t == FlushRemain(s, c)
           IN  Watches(s, t) /\ (c \in t.rings => ~Writes(t, c))
<1>0. s \in Sys /\ Own(s, c)
  BY GoodSys DEF Own, Live
<1>1. CASE s.remain[c] # <<>> /\ Room(s, c) = "broken"
  BY <1>1, CloseConnWatches DEF FlushRemain
<1>2. CASE s.remain[c] = <<>>
  <2>1. FlushRemain(s, c) = s
    BY <1>2 DEF FlushRemain, Resend
  <2> QED  BY <1>2, <2>1, WatchesSelf DEF Writes
<1>3. CASE Room(s, c) # "broken"
  BY <1>0, <1>3, ResendWatches DEF FlushRemain
<1> QED  BY <1>1, <1>2, <1>3

LEMMA ReplyWatches ==
    ASSUME NEW s, NEW c \in Conn, NEW i \in 0 .. MaxReq, Good(s), Wired(s), Own(s, c)
    PROVE  Watches(s, Reply(s, c, i))
BY MadeFrames, FlushWatches DEF Reply

(* What the handlers change besides has no part in it.                     *)
Apart(s, t) ==
    /\ t.rings = s.rings /\ t.role = s.role /\ t.want = s.want
    /\ t.remain = s.remain /\ t.tx = s.tx /\ t.inbox = s.inbox
    /\ t.rx = s.rx /\ t.armed = s.armed

LEMMA ApartWatches ==
    ASSUME NEW s, NEW t, Apart(s, t)
    PROVE  Watches(s, t)
BY WatchesIdle DEF Apart, Rests

LEMMA FlagsApart ==
    ASSUME NEW s \in Sys, NEW v, NEW c
    PROVE  /\ Apart(s, [s EXCEPT !.paused = v]) /\ Apart(s, [s EXCEPT !.panic = v])
           /\ Apart(s, [s EXCEPT !.held = v]) /\ Apart(s, [s EXCEPT !.peer[c] = v])
BY DEF Sys, Apart

LEMMA ConsumeApart ==
    ASSUME NEW s \in Sys, NEW c \in Conn
    PROVE  Apart(s, Consume(s, c))
BY DEF Consume, Sys, Apart

LEMMA ReleaseWatches ==
    ASSUME NEW s, NEW c \in Conn, Good(s)
    PROVE  Watches(s, Consume(s, c)) /\ Watches(s, Release(s, c))
<1> DEFINE t == Consume(s, c)
           u == [t EXCEPT !.held = @ \ {c}]
<1>1. s \in Sys /\ t \in Sys
  BY GoodSys, ConsumeCloses DEF Closes
<1>2. Apart(s, t)
  BY <1>1, ConsumeApart
<1>3. Release(s, c) = [t EXCEPT !.held = t.held \ {c}]
  BY <1>1 DEF Release
<1> HIDE DEF t
<1>4. Apart(t, [t EXCEPT !.held = t.held \ {c}])
  BY <1>1, FlagsApart
<1>5. Watches(s, t) /\ Watches(t, Release(s, c))
  BY <1>2, <1>3, <1>4, ApartWatches
<1>6. Watches(s, Release(s, c))
  BY <1>5, WatchesTrans
<1> QED  BY <1>5, <1>6 DEF t

LEMMA AnythingGoes ==
    ASSUME NEW s, Good(s)
    PROVE  Allowed(s, Anything) /\ \A f \in Frame, c \in Conn : f \in Anything[c]
<1>1. s \in Sys
  BY GoodSys
<1>2. \A d \in Conn : ErrorOf(s.pend[d].id) \in Frame
  BY <1>1, HdrType, MadeFrames
<1> QED  BY <1>2 DEF Allowed, Anything

LEMMA SendPendingWatches ==
    ASSUME NEW s, NEW down \in Conn, NEW up \in Conn, Good(s), Wired(s), Own(s, up)
    PROVE  Watches(s, SendPending(s, down, up))
<1> DEFINE r == Flush(s, up, s.pend[down])
           t == Release(r, down)
           v == SendPending(s, down, up)
<1>1. s.pend[down] \in Frame /\ s \in Sys
  BY HdrType, GoodSys
<1>2. Watches(s, r) /\ Good(r)
  BY <1>1, FlushWatches, FlushCloses DEF Closes
<1>3. \/ v = t
      \/ v = [t EXCEPT !.panic = TRUE]
      \/ v = [t EXCEPT !.paused = t.paused \ {down}]
  BY DEF SendPending
<1> HIDE DEF r, v
<1>4. Watches(r, t) /\ t \in Sys
  BY <1>2, ReleaseWatches, ReleaseCloses, GoodSys DEF Closes
<1> HIDE DEF t
<1>5. Watches(t, v)
  <2>1. v = t \/ Apart(t, v)
    BY <1>3, <1>4, FlagsApart
  <2> QED  BY <2>1, WatchesSelf, ApartWatches
<1>6. Watches(s, v)
  BY <1>2, <1>4, <1>5, WatchesTrans
<1> QED  BY <1>6 DEF v

LEMMA ConnectFailedWatches ==
    ASSUME NEW s, NEW c \in Conn, Good(s), Wired(s),
           c \in s.rings, s.role[c] = "connecting"
    PROVE  LET w == ConnectFailed(s, c)
           IN  Watches(s, w) /\ c \notin w.rings
<1> DEFINE d == s.peer[c]
           t == CloseConn(s, c)
           u == Reply(t, d, t.pend[d].id)
           v == IF d \in u.held THEN Release(u, d) ELSE u
           w == ConnectFailed(s, c)
<1>1. d # Nil /\ d \in Conn /\ s.peer[d] = c
  <2>1. s.peer[c] # Nil
    BY DEF Wired, IsUp
  <2> QED  BY <2>1, PeerApart DEF Good, Paired
<1>2. Own(s, d)
  BY <1>1, ReactorAssumption, RingOwn DEF Wired
<1>3. /\ Moves(s, t, Anything) /\ s \in Sys /\ Watches(s, t) /\ c \notin t.rings
  BY AnythingGoes, CloseConnMoves, CloseConnWatches, GoodSys
<1>4. w = [v EXCEPT !.peer[d] = Nil]
  BY <1>1 DEF ConnectFailed
<1> HIDE DEF t, d, w
<1>5. Good(t) /\ Wired(t) /\ Own(t, d) /\ t \in Sys
  BY <1>1, <1>2, <1>3, MovesWired, FadesOwn, GoodSys DEF Moves, Closes
<1>6. t.pend[d].id \in 0 .. MaxReq
  BY <1>1, <1>5, HdrType
<1>7. Watches(t, u) /\ Good(u) /\ u.rings \subseteq t.rings
  BY <1>1, <1>5, <1>6, ReplyWatches, ReplyCloses, ReplyTrims DEF Closes, Trims
<1> HIDE DEF u
<1>8. Watches(u, v) /\ Good(v) /\ v.rings = u.rings
  <2>1. Watches(u, Release(u, d)) /\ Good(Release(u, d))
    BY <1>1, <1>7, ReleaseWatches, ReleaseCloses DEF Closes
  <2>2. Release(u, d).rings = u.rings
    <3>1. Same(u, Consume(u, d))
      BY <1>1, <1>7, ConsumeParts, GoodSys
    <3> QED  BY <3>1 DEF Release, Same
  <2> QED  BY <1>7, <2>1, <2>2, WatchesSelf
<1> HIDE DEF v
<1>9. Apart(v, w)
  BY <1>4, <1>8, GoodSys, FlagsApart
<1>10. Watches(v, w) /\ w.rings = v.rings
  BY <1>9, ApartWatches DEF Apart
<1>11. Watches(s, w) /\ c \notin w.rings
  BY <1>3, <1>7, <1>8, <1>10, WatchesTrans
<1> QED  BY <1>11 DEF w

(* A connect that succeeds registers for both.                             *)
LEMMA ConnectOnlyWatches ==
    ASSUME NEW s, NEW c \in Conn, Good(s), c \in s.rings, s.role[c] = "connecting"
    PROVE  LET v == ConnectOnly(s, c)
           IN  Watches(s, v) /\ Seen(v, c)
<1> DEFINE a == [s.active EXCEPT ![s.ep[c]] = @ + 1]
           t == [s EXCEPT !.role[c] = "up", !.active = a]
           v == ConnectOnly(s, c)
<1>1. s \in Sys /\ a \in [EP -> Int]
  <2>1. s \in Sys
    BY GoodSys
  <2>2. s.active \in [EP -> Int]
    BY <2>1 DEF Sys
  <2> QED  BY <2>1, <2>2, CountType
<1>2. v = Mod(t, c, {"R", "W"})
  BY DEF ConnectOnly
<1> HIDE DEF a, v
<1>3. /\ t.rings = s.rings /\ t.tab = s.tab /\ t.fd = s.fd /\ t.want = s.want
      /\ t.remain = s.remain /\ t.tx = s.tx /\ t.inbox = s.inbox
      /\ t.rx = s.rx /\ t.armed = s.armed
      /\ \A x \in Conn : x # c => t.role[x] = s.role[x]
  BY <1>1 DEF Sys
<1>4. t \in Sys
  <2> DEFINE q == [s EXCEPT !.role[c] = "up"]
  <2>1. q \in Sys
    BY <1>1 DEF Sys, Roles
  <2>2. t = [q EXCEPT !.active = a]
    BY <1>1 DEF Sys
  <2> HIDE DEF q, t
  <2> QED  BY <1>1, <2>1, <2>2 DEF Sys
<1> HIDE DEF t
<1>5. Sock(s, c) = c /\ c # Nil /\ s.rings \subseteq Conn
  BY <1>1, ReactorAssumption DEF Good, Sound, RingsLive, Live, Sys
<1>6. Own(t, c) /\ Sock(t, c) # Nil
  BY <1>3, <1>5 DEF Own, Sock
<1>7. Seen(v, c) /\ \A x \in Conn : x # c => Rests(t, v, x)
  BY <1>2, <1>4, <1>6, ModSeen
<1>8. v.rings = s.rings
  BY <1>2, <1>3, <1>4, ModKeeps DEF Same
<1>9. \A x \in Conn : x # c => Rests(s, t, x)
  BY <1>3 DEF Rests
<1>10. \A x \in Conn : x # c => Rests(s, v, x)
  BY <1>7, <1>9, RestsTrans
<1>11. Watches(s, v)
  BY <1>5, <1>7, <1>8, <1>10, WatchesAt
<1> QED  BY <1>7, <1>11 DEF v

LEMMA FinishConnectWatches ==
    ASSUME NEW s, NEW c \in Conn, Good(s), Wired(s),
           c \in s.rings, s.role[c] = "connecting"
    PROVE  LET w == FinishConnect(s, c)
           IN  Watches(s, w) /\ (c \in w.rings => Seen(w, c))
<1> DEFINE d == s.peer[c]
           t == ConnectOnly(s, c)
           v == SendPending(t, d, c)
<1>1. LET w == ConnectFailed(s, c) IN Watches(s, w) /\ c \notin w.rings
  BY ConnectFailedWatches
<1>2. Watches(s, t) /\ Seen(t, c)
  BY ConnectOnlyWatches
<1>3. Settles(s, t, Anything) /\ t.tab = s.tab /\ t.fd = s.fd
  BY ConnectOnlySettles
<1>4. ConnectMade(s, c) = IF d # Nil /\ d \in t.held THEN v ELSE t
  BY DEF ConnectMade
<1> HIDE DEF t
<1>5. ASSUME d # Nil PROVE Watches(t, v)
  <2>1. d \in Conn
    BY <1>5, PeerApart
  <2>2. Good(t) /\ Wired(t)
    BY <1>3 DEF Settles
  <2>3. Own(t, c)
    BY <1>3, RingOwn DEF Own, Sock
  <2> HIDE DEF d
  <2> QED  BY <2>1, <2>2, <2>3, SendPendingWatches
<1> HIDE DEF v
<1>6. d # Nil => Watches(s, v) /\ (c \in v.rings => Seen(v, c))
  BY <1>2, <1>5, WatchesTrans, WatchesSeen
<1> QED  BY <1>1, <1>2, <1>4, <1>6 DEF FinishConnect

LEMMA HoldApart ==
    ASSUME NEW s \in Sys, NEW c, NEW h
    PROVE  Apart(s, Hold(s, c, h))
BY DEF Hold, Sys, Apart

LEMMA OnPooledWatches ==
    ASSUME NEW s, NEW c \in Conn, NEW h \in Frame, Good(s), Wired(s),
           s.role[c] = "down", s.peer[c] # Nil, s.role[s.peer[c]] = "up"
    PROVE  Watches(s, OnPooled(s, c, h))
<1> DEFINE u == Hold(s, c, h)
           p == s.peer[c]
           t == OnPooled(s, c, h)
<1>1. p \in Conn /\ s.peer[p] = c /\ s \in Sys /\ c # Nil
  BY PeerApart, GoodSys, ReactorAssumption DEF Good, Paired
<1>2. t = SendPending(u, c, p) /\ Good(u)
  BY HoldCloses DEF OnPooled, Upstream, Closes
<1>3. /\ u.tab = s.tab /\ u.fd = s.fd /\ u.rings = s.rings
      /\ u.peer = s.peer /\ u.role = s.role /\ u.held = s.held \cup {c}
  BY <1>1, HoldParts
<1>4. Apart(s, u)
  BY <1>1, HoldApart
<1> HIDE DEF u, t
<1>5. Wired(u)
  BY <1>1, <1>3 DEF Wired, IsUp
<1>6. Own(u, p)
  <2>1. p \in u.rings
    BY <1>1, <1>3 DEF Wired
  <2> QED  BY <1>1, <1>2, <2>1, RingOwn
<1>7. Watches(u, t)
  BY <1>1, <1>2, <1>5, <1>6, SendPendingWatches
<1>8. Watches(s, t)
  BY <1>4, <1>7, ApartWatches, WatchesTrans
<1> QED  BY <1>8 DEF t

LEMMA OnNoDialWatches ==
    ASSUME NEW s, NEW c \in Conn, NEW h \in Frame, Good(s), Wired(s), Own(s, c)
    PROVE  Watches(s, OnNoDial(s, c, h))
<1> DEFINE t == Reply(s, c, h.id)
<1>1. h.id \in 0 .. MaxReq
  BY DEF Frame
<1>2. Watches(s, t) /\ Good(t)
  BY <1>1, ReplyWatches, ReplyCloses DEF Closes
<1>3. OnNoDial(s, c, h) = Consume(t, c)
  BY DEF OnNoDial
<1> HIDE DEF t
<1> QED  BY <1>2, <1>3, ReleaseWatches, WatchesTrans

LEMMA OnUpWatches ==
    ASSUME NEW s, NEW c \in Conn, NEW h \in Frame, Good(s), Wired(s)
    PROVE  Watches(s, OnUp(s, c, h))
<1> DEFINE p == s.peer[c]
           t == Flush(s, p, h)
<1>1. CASE p = Nil
  BY <1>1, ReleaseWatches DEF OnUp
<1>2. CASE p # Nil
  <2>1. p \in Conn /\ Own(s, p)
    <3>1. p \in Conn /\ s.peer[p] = c /\ c # Nil
      BY <1>2, PeerApart, ReactorAssumption DEF Good, Paired
    <3> QED  BY <3>1, RingOwn DEF Wired
  <2>2. Watches(s, t) /\ Good(t)
    BY <2>1, FlushWatches, FlushCloses DEF Closes
  <2>3. OnUp(s, c, h) = Consume(t, c)
    BY <1>2 DEF OnUp
  <2> HIDE DEF t
  <2> QED  BY <2>2, <2>3, ReleaseWatches, WatchesTrans
<1> QED  BY <1>1, <1>2

(* adopt registers a connection that has nothing stashed.                  *)
LEMMA AdoptWatches ==
    ASSUME NEW s \in Sys, NEW n \in Conn, NEW f \in FD, NEW e \in EP \cup {Nil},
           NEW role \in {"down", "up", "connecting"}, NEW tx \in {"open", "syn"},
           s.remain[n] = <<>>
    PROVE  Watches(s, Adopt(s, n, f, role, e, tx))
<1>a. PICK y \in Sys : /\ Adopt(s, n, f, role, e, tx) = Arm(y, n)
                       /\ Makes(s, y, n, f, e, role, tx)
  BY AdoptMakes
<1> DEFINE t == Arm(y, n)
<1>1. /\ y.rings = s.rings \cup {n} /\ y.remain = s.remain /\ y.inbox = s.inbox
      /\ y.rx = s.rx /\ y.armed = s.armed
      /\ y.role = [s.role EXCEPT ![n] = role] /\ y.tx = [s.tx EXCEPT ![n] = tx]
      /\ y.want = [s.want EXCEPT ![n] = IF role = "connecting" THEN {"W"} ELSE {"R"}]
  BY <1>a DEF Makes
<1>2. DOMAIN s.role = Conn /\ DOMAIN s.tx = Conn /\ DOMAIN s.want = Conn
      /\ s.rings \subseteq Conn
  BY DEF Sys
<1>3. \A x \in Conn : x # n => Rests(s, y, x)
  BY <1>1, <1>2 DEF Rests
<1>4. Asks(y, n)
  BY <1>1, <1>2 DEF Asks
<1>5. Seen(t, n) /\ (\A x \in Conn : Rests(y, t, x)) /\ t.rings = y.rings
  BY <1>4, ArmRests, ArmKeeps DEF Same
<1> HIDE DEF t
<1>6. \A x \in Conn : x # n => Rests(s, t, x)
  BY <1>3, <1>5, RestsTrans
<1>7. Watches(s, t)
  BY <1>1, <1>2, <1>5, <1>6, RestsCarries DEF Watches
<1> QED  BY <1>a, <1>7 DEF t

LEMMA OnDialledWatches ==
    ASSUME NEW s, NEW c \in Conn, NEW h \in Frame, NEW e \in EP,
           NEW n \in Conn, NEW f \in FD, NEW how,
           Good(s), Wired(s), c \in s.rings, s.role[c] = "down", s.peer[c] = Nil,
           s.role[n] = "new", s.tab[f] = Nil, s.remain[n] = <<>>
    PROVE  Watches(s, OnDialled(s, c, h, e, n, f, how))
<1> DEFINE sock == IF how = "instant" THEN "open" ELSE "syn"
           kind == DialRole(how)
           t == Adopt(s, n, f, kind, e, sock)
           l == [t EXCEPT !.peer[n] = c, !.peer[c] = n]
           u == Hold(l, c, h)
           v == SendPending(u, c, n)
<1>1. sock \in {"open", "syn"} /\ kind \in {"up", "connecting"} /\ s \in Sys
      /\ kind \in {"down", "up", "connecting"} /\ e \in EP \cup {Nil}
  BY GoodSys DEF DialRole
<1>2. OnDialled(s, c, h, e, n, f, how) = IF kind = "up" THEN v ELSE u
  BY DEF OnDialled
<1> HIDE DEF sock, kind
<1>3. /\ t \in Sys /\ t.rings = s.rings \cup {n}
      /\ t.peer = s.peer /\ t.held = s.held
  BY <1>1, AdoptParts
<1>4. Adopted(s, t, n, kind)
  BY <1>1, AdoptGood
<1>5. Watches(s, t)
  BY <1>1, AdoptWatches
<1> HIDE DEF t
<1>6. /\ n # c /\ s.peer[n] = Nil /\ IsUp(t, n) /\ t.role[c] = "down"
      /\ \A x \in Conn : x # n => t.role[x] = s.role[x]
  <2>1. t.role = [s.role EXCEPT ![n] = kind]
    BY <1>4 DEF Adopted
  <2>2. DOMAIN s.role = Conn
    BY <1>1 DEF Sys
  <2>3. s.peer[n] = Nil
    BY DEF Good, Sound, Blank
  <2> QED  BY <1>1, <2>1, <2>2, <2>3 DEF IsUp
<1>7. Good(l)
  BY <1>3, <1>4, <1>6, LinkGood DEF Adopted
<1>8. /\ Apart(t, l) /\ l.held = s.held /\ l.role = t.role /\ l.rings = t.rings
      /\ l.peer[n] = c /\ l.peer[c] = n
      /\ \A x \in Conn : x \notin {c, n} => l.peer[x] = s.peer[x]
  <2>1. /\ l.held = t.held /\ l.role = t.role /\ l.rings = t.rings
        /\ l.want = t.want /\ l.remain = t.remain /\ l.tx = t.tx
        /\ l.inbox = t.inbox /\ l.rx = t.rx /\ l.armed = t.armed
        /\ l.peer = [t.peer EXCEPT ![n] = c, ![c] = n]
    BY <1>3 DEF Sys
  <2>2. DOMAIN t.peer = Conn
    BY <1>3 DEF Sys
  <2> HIDE DEF l
  <2> QED  BY <1>3, <1>6, <2>1, <2>2 DEF Apart
<1> HIDE DEF l
<1>9. /\ u.rings = l.rings /\ u.peer = l.peer /\ u.role = l.role
      /\ u.held = l.held \cup {c} /\ Apart(l, u) /\ Good(u)
  BY <1>7, HoldParts, HoldApart, HoldCloses, GoodSys DEF Closes
<1> HIDE DEF u, v
<1>10. Watches(s, u)
  <2>1. Watches(t, l) /\ Watches(l, u)
    BY <1>8, <1>9, ApartWatches
  <2> QED  BY <1>5, <2>1, WatchesTrans
<1>11. ASSUME kind = "up" PROVE Watches(u, v)
  <2>1. Wired(u)
    <3> SUFFICES ASSUME NEW x \in Conn
                 PROVE  /\ u.peer[x] # Nil => x \in u.rings
                        /\ x \in u.rings /\ IsUp(u, x) => u.peer[x] # Nil
                        /\ x \in u.rings /\ u.role[x] = "connecting"
                              => u.peer[x] \in u.held
      BY DEF Wired
    <3>1. CASE x = n
      BY <1>3, <1>8, <1>9, <3>1, ReactorAssumption
    <3>2. CASE x = c
      BY <1>3, <1>6, <1>8, <1>9, <3>2 DEF IsUp
    <3>3. CASE x \notin {c, n}
      BY <1>3, <1>6, <1>8, <1>9, <3>3 DEF Wired, IsUp
    <3> QED  BY <3>1, <3>2, <3>3
  <2>2. Own(u, n)
    BY <1>3, <1>8, <1>9, RingOwn
  <2> QED  BY <1>9, <2>1, <2>2, SendPendingWatches DEF v
<1>12. kind = "up" => Watches(s, v)
  BY <1>10, <1>11, WatchesTrans
<1> QED  BY <1>2, <1>10, <1>12

LEMMA TakeHdrApart ==
    ASSUME NEW s \in Sys, NEW c \in Conn
    PROVE  Apart(s, TakeHdr(s, c)) /\ TakeHdr(s, c).paused = s.paused
BY DEF TakeHdr, Sys, Apart

LEMMA WatchedNext ==
    ASSUME NEW s, NEW t, NEW P, NEW Q, NEW P2, NEW Q2,
           Watched(s, P, Q), Watches(s, t),
           \A x \in t.rings : x \in s.rings =>
              /\ x \in P \/ x \in s.paused \ t.paused =>
                    x \in P2 \cup t.armed \cup t.paused \/ ~Reads(t, x)
              /\ x \in Q => x \in Q2 \cup t.armed \/ ~Writes(t, x)
    PROVE  Watched(t, P2, Q2)
<1> SUFFICES ASSUME NEW x \in t.rings
             PROVE  /\ Asks(t, x)
                    /\ Reads(t, x) /\ x \notin t.paused => x \in t.armed \cup P2
                    /\ Writes(t, x) => x \in t.armed \cup Q2
  BY DEF Watched
<1>1. CASE Seen(t, x)
  BY <1>1 DEF Seen
<1>2. CASE x \in s.rings /\ Carries(s, t, x)
  <2>1. /\ Asks(s, x)
        /\ Reads(s, x) /\ x \notin s.paused => x \in s.armed \cup P
        /\ Writes(s, x) => x \in s.armed \cup Q
    BY <1>2 DEF Watched
  <2>2. /\ Asks(t, x) /\ (x \in s.armed => x \in t.armed)
        /\ Reads(t, x) => x \in t.armed \/ Reads(s, x)
        /\ Writes(t, x) => x \in t.armed \/ Writes(s, x)
    BY <1>2, <2>1 DEF Carries
  <2> QED  BY <1>2, <2>1, <2>2
<1> QED  BY <1>1, <1>2 DEF Watches

(* An event of the last Wait that is still to be handled; the connection   *)
(* that is being read.                                                     *)
Due(s, q, x, b) == \E i \in DOMAIN q : q[i][1] = s.fd[x] /\ b \in q[i][2]
Served(x) == pc \in Inner /\ cur = x
ReadDue   == {x \in sys.rings : Due(sys, batch, x, "R") \/ Served(x)}
WriteDue  == {x \in sys.rings : Due(sys, batch, x, "W")}
WatchInv  == ~sys.panic => Watched(sys, ReadDue, WriteDue)

LEMMA LeadsOn ==
    ASSUME NEW t, sys \in Sys, Leads(t), ~sys'.panic
    PROVE  sys' = t
BY DEF Leads, Sys

(* A connection that a step no longer reads, or no longer pauses, has      *)
(* nothing to read.                                                        *)
Leaves(x) ==
    /\ x \in sys'.rings
    /\ Served(x) \/ x \in sys.paused \ sys'.paused
    /\ x \notin sys'.paused /\ ~(pc' \in Inner /\ cur' = x)

LEMMA StepWatch ==
    ASSUME WatchInv, ~sys.panic, batch' = batch, Watches(sys, sys'),
           \A x \in sys.rings : sys'.fd[x] = sys.fd[x],
           \A x \in sys.rings : Leaves(x) => ~Reads(sys', x)
    PROVE  WatchInv'
<1>1. Watched(sys, ReadDue, WriteDue)
  BY DEF WatchInv
<1>2. ASSUME NEW x \in sys'.rings, x \in sys.rings,
             x \in ReadDue \/ x \in sys.paused \ sys'.paused
      PROVE  x \in ReadDue' \cup sys'.armed \cup sys'.paused \/ ~Reads(sys', x)
  <2>1. CASE Due(sys, batch, x, "R")
    BY <1>2, <2>1 DEF ReadDue, Due
  <2>2. CASE Served(x) \/ x \in sys.paused \ sys'.paused
    <3>1. CASE pc' \in Inner /\ cur' = x
      BY <1>2, <3>1 DEF ReadDue, Served
    <3>2. CASE ~(pc' \in Inner /\ cur' = x)
      BY <1>2, <2>2, <3>2 DEF Leaves
    <3> QED  BY <3>1, <3>2
  <2> QED  BY <1>2, <2>1, <2>2 DEF ReadDue
<1>3. ASSUME NEW x \in sys'.rings, x \in sys.rings, x \in WriteDue
      PROVE  x \in WriteDue'
  BY <1>3 DEF WriteDue, Due
<1>4. Watched(sys', ReadDue', WriteDue')
  <2> DEFINE P == ReadDue
             Q == WriteDue
             P2 == ReadDue'
             Q2 == WriteDue'
             t == sys'
  <2>1. \A x \in t.rings : x \in sys.rings =>
              /\ x \in P \/ x \in sys.paused \ t.paused =>
                    x \in P2 \cup t.armed \cup t.paused \/ ~Reads(t, x)
              /\ x \in Q => x \in Q2 \cup t.armed \/ ~Writes(t, x)
    BY <1>2, <1>3
  <2>2. Watched(sys, P, Q) /\ Watches(sys, t)
    BY <1>1
  <2> HIDE DEF P, Q, P2, Q2, t
  <2>3. Watched(t, P2, Q2)
    BY <2>1, <2>2, WatchedNext
  <2> QED  BY <2>3 DEF P2, Q2, t
<1> QED  BY <1>4 DEF WatchInv

LEMMA RingsAged ==
    ASSUME Good(sys), NEW x \in sys.rings
    PROVE  x \in Conn /\ sys.role[x] # "new"
BY DEF Good, Sound, Blank, Sys

LEMMA RunWatch ==
    ASSUME LinkInv, WatchInv, Run, ~Reselects, batch' = batch,
           ~sys'.panic => Watches(sys, sys'),
           ~sys'.panic => \A x \in sys.rings : Leaves(x) => ~Reads(sys', x)
    PROVE  WatchInv'
<1>1. IInv /\ Wired(sys) /\ Good(sys) /\ ~sys.panic
  BY DEF LinkInv, FlowInv, IInv, Run, Work, Wait, Handle, Accept, AcceptThen,
         AcceptDrops, AcceptAgain, AcceptFails, ReadGone, ReadPauses, ReadReturns, ReadCloses,
         ReadSome, Reading, ParseEnds, ParsePanics, ParseRejects, ParseWaits,
         CanParse, Parsing, Dispatch, SweepIdle, Stop, ShutdownOne, ShutdownEnds,
         At, Running
<1>2. Steps(sys', Anything)
  BY <1>1, MayWriteAnything, RunSteps
<1>3. \A x \in sys.rings : sys'.fd[x] = sys.fd[x]
  BY <1>1, <1>2, RingsAged DEF Steps
<1>4. CASE ~sys'.panic
  BY <1>1, <1>3, <1>4, StepWatch
<1>5. CASE sys'.panic
  BY <1>5 DEF WatchInv
<1> QED  BY <1>4, <1>5

LEMMA ReadWatch ==
    ASSUME LinkInv, WatchInv, Read, ~Reselects
    PROVE  WatchInv'
<1>1. /\ Good(sys) /\ sys \in Sys /\ Wired(sys) /\ cur \in Conn
      /\ Run /\ batch' = batch
  BY GoodSys DEF LinkInv, FlowInv, IInv, Read, ReadGone, ReadPauses, ReadReturns,
                 ReadCloses, ReadSome, Reading, At, LoopsOK, Run, Work
<1>2. SUFFICES ASSUME ~sys'.panic
               PROVE  /\ Watches(sys, sys')
                      /\ \A x \in sys.rings : Leaves(x) => ~Reads(sys', x)
  BY <1>1, RunWatch
<1>3. ASSUME sys'.paused = sys.paused,
             cur \in sys'.rings => ~Reads(sys', cur) \/ (pc' \in Inner /\ cur' = cur)
      PROVE  \A x \in sys.rings : Leaves(x) => ~Reads(sys', x)
  BY <1>3 DEF Leaves, Served
<1>4. CASE ReadGone \/ ReadReturns
  <2>1. Leads(sys)
    BY <1>4, GotoLeads DEF ReadGone, ReadReturns
  <2>2. sys' = sys
    BY <1>1, <1>2, <2>1, LeadsOn
  <2>3. cur \notin sys.rings \/ ~Readable(sys, cur)
    BY <1>4 DEF ReadGone, ReadReturns
  <2> QED  BY <1>3, <2>2, <2>3, WatchesSelf DEF Reads
<1>5. CASE ReadPauses
  <2> DEFINE P == sys.paused \cup {cur}
  <2>1. sys' = [sys EXCEPT !.paused = P]
    BY <1>1, <1>2, <1>5, GotoLeads, LeadsOn DEF ReadPauses
  <2>2. Watches(sys, sys')
    BY <1>1, <2>1, FlagsApart, ApartWatches
  <2>3. sys'.paused = P
    BY <1>1, <2>1 DEF Sys
  <2> QED  BY <2>2, <2>3 DEF Leaves, Served
<1>6. CASE ReadCloses
  <2>1. sys' = CloseConn(sys, cur)
    BY <1>1, <1>2, <1>6, GotoLeads, LeadsOn DEF ReadCloses
  <2>2. Watches(sys, sys') /\ cur \notin sys'.rings
    BY <1>1, <2>1, CloseConnWatches
  <2>3. sys'.paused = sys.paused
    BY <1>1, <2>1, CloseConnCloses DEF Closes
  <2> QED  BY <1>3, <2>2, <2>3
<1>7. CASE ReadSome
  <2> DEFINE in == sys.inbox[cur]
  <2>1. PICK n \in 1 .. Free(sys, cur) :
           /\ n <= Len(in)
           /\ Goto([sys EXCEPT !.ring[cur] = @ \o SubSeq(in, 1, n),
                               !.inbox[cur] = SubSeq(in, n + 1, Len(in))], "parse")
    BY <1>7 DEF ReadSome
  <2> DEFINE r == sys.ring[cur] \o SubSeq(in, 1, n)
             w == SubSeq(in, n + 1, Len(in))
             t == [sys EXCEPT !.ring[cur] = r, !.inbox[cur] = w]
  <2>2. Goto(t, "parse")
    BY <2>1
  <2>3. in # <<>>
    BY <2>1
  <2> HIDE DEF r, w
  <2>4. /\ t.rings = sys.rings /\ t.role = sys.role /\ t.want = sys.want
        /\ t.remain = sys.remain /\ t.tx = sys.tx /\ t.rx = sys.rx
        /\ t.armed = sys.armed /\ t.paused = sys.paused
        /\ \A x \in Conn : x # cur => t.inbox[x] = sys.inbox[x]
    BY <1>1 DEF Sys
  <2> HIDE DEF t
  <2>5. sys' = t /\ pc' = "parse" /\ cur' = cur
    BY <1>1, <1>2, <2>2, GotoLeads, LeadsOn DEF Goto, Then
  <2>6. \A x \in t.rings : x # cur => Rests(sys, t, x)
    BY <1>1, <2>4 DEF Rests, Sys
  <2>7. Reads(t, cur) => Reads(sys, cur)
    BY <2>3, <2>4 DEF Reads, Readable
  <2>8. Carries(sys, t, cur)
    BY <2>4, <2>7 DEF Carries, Asks, Writes, Writable
  <2>9. Watches(sys, t)
    BY <1>1, <2>4, <2>6, <2>8, WatchesAt
  <2> QED  BY <1>3, <2>4, <2>5, <2>9 DEF Inner
<1> QED  BY <1>4, <1>5, <1>6, <1>7 DEF Read

LEMMA ParseWatch ==
    ASSUME LinkInv, WatchInv, Parse, ~Reselects
    PROVE  WatchInv'
<1>1. /\ Good(sys) /\ sys \in Sys /\ Wired(sys) /\ cur \in Conn
      /\ Run /\ batch' = batch
  BY GoodSys DEF LinkInv, FlowInv, IInv, Parse, ParseEnds, ParsePanics,
                 ParseRejects, ParseWaits, CanParse, Parsing, At, LoopsOK, Run, Work
<1>2. SUFFICES ASSUME ~sys'.panic
               PROVE  /\ Watches(sys, sys')
                      /\ \A x \in sys.rings : Leaves(x) => ~Reads(sys', x)
  BY <1>1, RunWatch
<1>3. ASSUME sys'.paused = sys.paused,
             cur \in sys'.rings => pc' \in Inner /\ cur' = cur
      PROVE  \A x \in sys.rings : Leaves(x) => ~Reads(sys', x)
  BY <1>3 DEF Leaves, Served
<1>4. CASE ParseEnds
  <2>1. sys' = sys /\ pc' = "read" /\ cur' = cur
    BY <1>1, <1>2, <1>4, GotoLeads, LeadsOn DEF ParseEnds, Goto, Then
  <2> QED  BY <1>3, <2>1, WatchesSelf DEF Inner
<1>5. CASE ParsePanics
  <2>1. Leads([sys EXCEPT !.panic = TRUE])
    BY <1>5, GotoLeads DEF ParsePanics
  <2> QED  BY <1>1, <1>2, <2>1 DEF Leads, Sys
<1>6. CASE ParseRejects
  <2> DEFINE t == IF sys.role[cur] = "down" THEN Reply(sys, cur, 0) ELSE sys
             u == CloseConn(t, cur)
  <2>1. Leads(u) /\ cur \in sys.rings
    BY <1>6, GotoLeads DEF ParseRejects, CanParse
  <2>2. 0 \in 0 .. MaxReq
    BY ReactorAssumption
  <2>3. Own(sys, cur)
    BY <1>1, <2>1, RingOwn
  <2>4. Good(t) /\ Wired(t) /\ t.paused = sys.paused /\ Watches(sys, t)
    <3>1. CASE sys.role[cur] = "down"
      <4>1. t = Reply(sys, cur, 0)
        BY <3>1
      <4>2. Allowed(sys, Anything) /\ ErrorOf(0) \in Anything[cur]
        BY <1>1, <2>2, AnythingGoes, MadeFrames
      <4>3. Wired(t)
        BY <1>1, <2>2, <2>3, <4>1, <4>2, ReplyMoves, MovesWired
      <4>4. Watches(sys, t)
        BY <1>1, <2>2, <2>3, <4>1, ReplyWatches
      <4> QED  BY <1>1, <2>2, <4>1, <4>3, <4>4, ReplyCloses DEF Closes
    <3>2. CASE sys.role[cur] # "down"
      BY <1>1, <3>2, WatchesSelf
    <3> QED  BY <3>1, <3>2
  <2> HIDE DEF t
  <2>5. Watches(t, u) /\ cur \notin u.rings /\ u.paused = t.paused
    BY <1>1, <2>4, CloseConnWatches, CloseConnCloses DEF Closes
  <2> HIDE DEF u
  <2>6. sys' = u
    BY <1>1, <1>2, <2>1, LeadsOn
  <2> QED  BY <1>3, <2>4, <2>5, <2>6, WatchesTrans
<1>7. CASE ParseWaits
  <2> DEFINE t == TakeHdr(sys, cur)
  <2>1. Goto(t, "read")
    BY <1>7 DEF ParseWaits
  <2>2. sys' = t /\ pc' = "read" /\ cur' = cur
    BY <1>1, <1>2, <2>1, GotoLeads, LeadsOn DEF Goto, Then
  <2>3. Watches(sys, t) /\ t.paused = sys.paused
    BY <1>1, TakeHdrApart, ApartWatches
  <2> HIDE DEF t
  <2> QED  BY <1>3, <2>2, <2>3 DEF Inner
<1> QED  BY <1>4, <1>5, <1>6, <1>7 DEF Parse

LEMMA EndingWatch ==
    ASSUME LinkInv, WatchInv, Ending, ~Reselects
    PROVE  WatchInv'
<1>1. /\ Good(sys) /\ sys \in Sys /\ Wired(sys) /\ pc \notin Inner
      /\ Run /\ batch' = batch
  BY GoodSys DEF LinkInv, FlowInv, IInv, Ending, SweepIdle, Stop, ShutdownOne,
                 ShutdownEnds, At, Run, Work, Inner
<1>2. SUFFICES ASSUME ~sys'.panic
               PROVE  Watches(sys, sys') /\ sys'.paused = sys.paused
  BY <1>1, RunWatch DEF Leaves, Served
<1>3. CASE Stop \/ ShutdownEnds
  <2>1. Leads(sys)
    BY <1>3, GotoLeads DEF Stop, ShutdownEnds
  <2> QED  BY <1>1, <1>2, <2>1, LeadsOn, WatchesSelf
<1>4. CASE SweepIdle \/ ShutdownOne
  <2>1. PICK c \in Conn : \/ Goto(CloseConn(sys, c), "loop")
                          \/ Goto(CloseConn(sys, c), "shutdown")
    BY <1>4 DEF SweepIdle, ShutdownOne
  <2>2. sys' = CloseConn(sys, c)
    BY <1>1, <1>2, <2>1, GotoLeads, LeadsOn
  <2> QED  BY <1>1, <2>2, CloseConnWatches, CloseConnCloses DEF Closes
<1> QED  BY <1>3, <1>4 DEF Ending

(* A connection object that was never used has nothing stashed.            *)
LEMMA BlankRemain ==
    ASSUME sys \in Sys, Private, NEW x \in Conn, sys.role[x] = "new"
    PROVE  sys.remain[x] = <<>>
<1> DEFINE p == sys.got[x]
           q == sys.remain[x]
<1>1. p \in Seq(Frame) /\ q \in Seq(Frame)
  BY OutType
<1>2. p \o q = <<>>
  BY DEF Private, OutOf
<1> HIDE DEF p, q
<1>3. Len(p \o q) = Len(p) + Len(q) /\ Len(p) \in Nat /\ Len(q) \in Nat
  BY <1>1, ConcatProperties, LenProperties
<1>4. Len(q) = 0
  <2>1. Len(p \o q) = 0
    BY <1>2
  <2> QED  BY <1>3, <2>1
<1> QED  BY <1>1, <1>4, EmptySeq DEF q

LEMMA AcceptWatch ==
    ASSUME LinkInv, Private, WatchInv, Accept \/ AcceptDrops \/ AcceptAgain \/ AcceptFails, ~Reselects
    PROVE  WatchInv'
<1>1. /\ Good(sys) /\ sys \in Sys /\ Wired(sys) /\ pc \notin Inner
      /\ Run /\ batch' = batch
  BY GoodSys DEF LinkInv, FlowInv, IInv, Accept, AcceptThen, AcceptDrops, AcceptAgain,
                 AcceptFails, At, Run, Work, Inner
<1>2. SUFFICES ASSUME ~sys'.panic
               PROVE  Watches(sys, sys') /\ sys'.paused = sys.paused
  BY <1>1, RunWatch DEF Leaves, Served
<1>3. CASE AcceptDrops \/ AcceptAgain \/ AcceptFails
  <2>1. Leads(sys)
    BY <1>3, GotoLeads DEF AcceptDrops, AcceptAgain, AcceptFails
  <2> QED  BY <1>1, <1>2, <2>1, LeadsOn, WatchesSelf
<1>4. CASE Accept
  <2> DEFINE n == Fresh(sys)
             f == FreeFD(sys)
             t == Adopt(sys, n, f, "down", Nil, "open")
  <2>1. n \in Conn /\ sys.role[n] = "new" /\ f \in FD /\ sys.tab[f] = Nil
    BY <1>1, <1>4, FreshType DEF Accept, AcceptThen
  <2>2. Leads(t)
    BY <1>4, GotoLeads DEF Accept, AcceptThen
  <2> HIDE DEF n, f
  <2>3. Watches(sys, t)
    BY <1>1, <2>1, BlankRemain, AdoptWatches
  <2>4. Adopted(sys, t, n, "down")
    BY <1>1, <2>1, AdoptGood
  <2> HIDE DEF t
  <2> QED  BY <1>1, <1>2, <2>2, <2>3, <2>4, LeadsOn DEF Adopted
<1> QED  BY <1>3, <1>4

(* The client that is parsed was not paused, so a handler resumes no other *)
(* and goes on parsing.                                                    *)
LEMMA BackToParse ==
    ASSUME NEW s, NEW t, s.paused = sys.paused, cur \notin sys.paused,
           Resumes(s, t, cur), ThenResume(t, "parse")
    PROVE  Goto(t, "parse") /\ t.paused = sys.paused
<1>1. t.paused = sys.paused
  BY DEF Resumes
<1>2. sys.paused \ t.paused = {}
  BY <1>1
<1> QED  BY <1>1, <1>2 DEF ThenResume

LEMMA DownWatches ==
    ASSUME NEW t, NEW h \in Frame, LinkInv, Private, ~sys'.panic,
           cur \in Conn, cur \notin sys.paused, cur \in sys.rings,
           Good(t), Wired(t), Apart(sys, t), t.paused = sys.paused,
           t.role[cur] = "down",
           DownUndialled(t, h) \/ DownDialled(t, h) => t.peer[cur] = Nil,
           \/ DownPing(t, h) \/ DownClose(t, h) \/ DownError(t, h)
           \/ DownRefused(t, h) \/ DownPooled(t, h)
           \/ DownUndialled(t, h) \/ DownDialled(t, h)
    PROVE  \E u : Watches(t, u) /\ u.paused = sys.paused /\ Goto(u, "parse")
<1>1. /\ sys \in Sys /\ t \in Sys /\ cur \in t.rings /\ Own(t, cur)
  <2>1. cur \in t.rings
    BY DEF Apart
  <2> QED  BY <2>1, GoodSys, RingOwn DEF LinkInv, FlowInv, IInv
<1>2. CASE DownPing(t, h)
  <2> DEFINE u == Flush(t, cur, Pong(h))
             v == Consume(u, cur)
  <2>1. Watches(t, u) /\ Closes(t, u)
    BY <1>1, MadeFrames, FlushWatches, FlushCloses
  <2>2. Goto(v, "parse")
    BY <1>2 DEF DownPing
  <2> HIDE DEF u
  <2>3. Watches(u, v) /\ Closes(u, v)
    BY <2>1, ReleaseWatches, ConsumeCloses DEF Closes
  <2> HIDE DEF v
  <2>4. Watches(t, v) /\ v.paused = t.paused
    BY <2>1, <2>3, WatchesTrans DEF Closes
  <2> QED  BY <2>2, <2>4
<1>3. CASE DownClose(t, h)
  <2> DEFINE u == Consume(t, cur)
             v == CloseConn(u, cur)
  <2>1. Watches(t, u) /\ Closes(t, u)
    BY ReleaseWatches, ConsumeCloses
  <2>2. Goto(v, "parse")
    BY <1>3 DEF DownClose
  <2>3. Wired(u)
    <3>1. Moves(t, u, Anything)
      BY <1>1, ConsumeMoves
    <3> HIDE DEF u
    <3> QED  BY <3>1, MovesWired
  <2> HIDE DEF u
  <2>4. Watches(u, v) /\ Closes(u, v)
    BY <2>1, <2>3, CloseConnWatches, CloseConnCloses DEF Closes
  <2> HIDE DEF v
  <2>5. Watches(t, v) /\ v.paused = t.paused
    BY <2>1, <2>4, WatchesTrans DEF Closes
  <2> QED  BY <2>2, <2>5
<1>4. CASE DownError(t, h)
  <2> DEFINE u == Consume(t, cur)
  <2>1. Watches(t, u) /\ u.paused = t.paused
    BY ReleaseWatches, ConsumeCloses DEF Closes
  <2> QED  BY <1>4, <2>1 DEF DownError
<1>5. Watches(t, OnNoDial(t, cur, h)) /\ OnNoDial(t, cur, h).paused = t.paused
  BY <1>1, OnNoDialWatches, OnNoDialCloses DEF Closes
<1>6. CASE DownRefused(t, h)
  BY <1>5, <1>6 DEF DownRefused
<1>7. CASE DownPooled(t, h)
  <2> DEFINE v == OnPooled(t, cur, h)
  <2>1. t.peer[cur] # Nil /\ t.role[t.peer[cur]] = "up"
    BY <1>7 DEF DownPooled, Reuses, Upstream
  <2>2. Watches(t, v) /\ Resumes(t, v, cur)
    BY <2>1, OnPooledWatches, OnPooledResumes
  <2>3. ThenResume(v, "parse")
    BY <1>7 DEF DownPooled
  <2> HIDE DEF v
  <2>4. Goto(v, "parse") /\ v.paused = sys.paused
    BY <2>2, <2>3, BackToParse
  <2> QED  BY <2>2, <2>4
<1>8. DownUndialled(t, h) \/ DownDialled(t, h) =>
          t.peer[cur] = Nil /\ Reselect(t, cur) = t
  BY DEF Reselect
<1>9. CASE DownUndialled(t, h)
  BY <1>5, <1>8, <1>9 DEF DownUndialled
<1>10. CASE DownDialled(t, h)
  <2> DEFINE n == Fresh(t)
             f == FreeFD(t)
  <2>1. PICK e \in EP, how \in {"progress"} \cup ({"instant"} \cap Faults) :
           /\ t.peer[cur] = Nil /\ FreeFDs(t) # {}
           /\ ThenResume(OnDialled(t, cur, h, e, n, f, how), "parse")
    <3>1. eligible \subseteq EP
      BY DEF LinkInv, FlowInv, IInv, EnvOK
    <3> QED  BY <1>8, <1>10, <3>1 DEF DownDialled
  <2>2. n \in Conn /\ t.role[n] = "new" /\ f \in FD /\ t.tab[f] = Nil
    BY <1>10, <2>1, FreshType DEF DownDialled
  <2>3. t.remain[n] = <<>>
    BY <1>1, <2>2, BlankRemain DEF Apart
  <2> DEFINE v == OnDialled(t, cur, h, e, n, f, how)
  <2> HIDE DEF n, f
  <2>4. Watches(t, v) /\ Resumes(t, v, cur)
    BY <1>1, <2>1, <2>2, <2>3, OnDialledWatches, OnDialledResumes
  <2>5. ThenResume(v, "parse")
    BY <2>1
  <2> HIDE DEF v
  <2>6. Goto(v, "parse") /\ v.paused = sys.paused
    BY <2>4, <2>5, BackToParse
  <2> QED  BY <2>4, <2>6
<1> QED  BY <1>2, <1>3, <1>4, <1>6, <1>7, <1>9, <1>10

LEMMA DispatchWatch ==
    ASSUME LinkInv, Private, WatchInv, Dispatch, ~Reselects
    PROVE  WatchInv'
<1> DEFINE t == TakeHdr(sys, cur)
           h == NextFrame(sys, cur)
<1>1. /\ Good(sys) /\ sys \in Sys /\ Wired(sys) /\ cur \in Conn /\ AtHeader
      /\ cur \notin sys.paused /\ Run /\ batch' = batch
  BY GoodSys DEF LinkInv, FlowInv, IInv, Dispatch, CanParse, Parsing, At, Running,
                 LoopsOK, AtHeader, Run, Work
<1>2. SUFFICES ASSUME ~sys'.panic
               PROVE  /\ Watches(sys, sys')
                      /\ \A x \in sys.rings : Leaves(x) => ~Reads(sys', x)
  BY <1>1, RunWatch
<1>3. h \in Frame
  BY <1>1, NextFrameType DEF AtHeader
<1>4. Still(sys, t) /\ t.hdr[cur] = h /\ t.ep = sys.ep
  BY <1>1, TakeHdrStill
<1>5. Apart(sys, t) /\ t.paused = sys.paused /\ Good(t)
  BY <1>1, TakeHdrApart, TakeHdrCloses DEF AtHeader, Closes
<1>6. /\ sys.role[cur] = "down" =>
            \/ DownPing(t, h) \/ DownClose(t, h) \/ DownError(t, h)
            \/ DownRefused(t, h) \/ DownPooled(t, h)
            \/ DownUndialled(t, h) \/ DownDialled(t, h)
      /\ sys.role[cur] = "up" => Goto(OnUp(t, cur, h), "parse")
      /\ sys.role[cur] \notin {"down", "up"} => Goto(Consume(t, cur), "parse")
  BY <1>4 DEF Dispatch
<1>7. sys.role[cur] = "down" /\ (DownUndialled(t, h) \/ DownDialled(t, h)) =>
          sys.peer[cur] = Nil
  BY <1>4 DEF Reselects
<1> HIDE DEF t, h
<1>8. /\ Wired(t) /\ t.role = sys.role /\ t.peer = sys.peer
  <2>1. /\ t.role = sys.role /\ t.peer = sys.peer /\ t.rings = sys.rings
        /\ t.held = sys.held /\ t.ep = sys.ep
    BY <1>4 DEF Still
  <2>2. Wired(t)
    BY <1>1, <2>1 DEF Wired, IsUp
  <2> QED  BY <2>1, <2>2
<1>9. \E u : Watches(t, u) /\ u.paused = sys.paused /\ Goto(u, "parse")
  <2>1. CASE sys.role[cur] = "down"
    BY <1>1, <1>2, <1>3, <1>5, <1>6, <1>7, <1>8, <2>1, DownWatches DEF AtHeader
  <2>2. CASE sys.role[cur] = "up"
    <3>1. Watches(t, OnUp(t, cur, h)) /\ OnUp(t, cur, h).paused = t.paused
      BY <1>1, <1>3, <1>5, <1>8, OnUpWatches, OnUpCloses DEF Closes
    <3> QED  BY <1>5, <1>6, <2>2, <3>1
  <2>3. CASE sys.role[cur] \notin {"down", "up"}
    <3>1. Watches(t, Consume(t, cur)) /\ Consume(t, cur).paused = t.paused
      BY <1>1, <1>5, ReleaseWatches, ConsumeCloses DEF Closes
    <3> QED  BY <1>5, <1>6, <2>3, <3>1
  <2> QED  BY <2>1, <2>2, <2>3
<1>10. PICK u : Watches(t, u) /\ u.paused = sys.paused /\ Goto(u, "parse")
  BY <1>9
<1>11. sys' = u /\ pc' = "parse" /\ cur' = cur
  BY <1>1, <1>2, <1>10, GotoLeads, LeadsOn DEF Goto, Then
<1>12. Watches(sys, u)
  BY <1>5, <1>10, ApartWatches, WatchesTrans
<1> QED  BY <1>10, <1>11, <1>12 DEF Leaves, Served, Inner

LEMMA WaitWatch ==
    ASSUME LinkInv, WatchInv, Wait
    PROVE  WatchInv'
<1>1. Good(sys) /\ sys \in Sys /\ ~sys.panic /\ pc = "loop" /\ batch = <<>>
  BY GoodSys DEF LinkInv, FlowInv, IInv, Wait, At, Running
<1>2. ReadDue = {} /\ WriteDue = {}
  BY <1>1 DEF ReadDue, WriteDue, Due, Served, Inner
<1>3. Watched(sys, {}, {})
  BY <1>1, <1>2 DEF WatchInv
<1>4. /\ sys'.rings = sys.rings /\ sys'.role = sys.role /\ sys'.want = sys.want
      /\ sys'.remain = sys.remain /\ sys'.tx = sys.tx /\ sys'.inbox = sys.inbox
      /\ sys'.rx = sys.rx /\ sys'.paused = sys.paused /\ sys'.fd = sys.fd
  BY <1>1 DEF Wait, Sys
<1>5. ASSUME NEW x \in sys.rings, x \in sys.armed, NEW b \in {"R", "W"},
             b \in sys.want[x], b = "R" => Readable(sys, x),
             b = "W" => Writable(sys, x)
      PROVE  Due(sys', batch', x, b)
  <2>1. b \in Bits(sys, x)
    BY <1>5 DEF Bits
  <2>2. <<sys.fd[x], Bits(sys, x)>> \in ReadyEvents
    BY <1>5, <2>1 DEF ReadyEvents
  <2>3. PICK i \in DOMAIN batch' : batch'[i] = <<sys.fd[x], Bits(sys, x)>>
    BY <1>1, <2>2, WaitReports DEF LinkInv, FlowInv
  <2> QED  BY <1>4, <2>1, <2>3 DEF Due
<1>6. ASSUME NEW x \in sys'.rings
      PROVE  /\ Asks(sys', x)
             /\ Reads(sys', x) /\ x \notin sys'.paused => x \in ReadDue'
             /\ Writes(sys', x) => x \in WriteDue'
  <2>1. /\ Asks(sys, x) /\ x \in sys.rings
        /\ Reads(sys, x) /\ x \notin sys.paused => x \in sys.armed
        /\ Writes(sys, x) => x \in sys.armed
    BY <1>3, <1>4, <1>6 DEF Watched
  <2>2. /\ Asks(sys', x) /\ (Reads(sys', x) <=> Reads(sys, x))
        /\ Writes(sys', x) <=> Writes(sys, x)
    BY <1>4, <2>1 DEF Asks, Reads, Writes, Readable, Writable
  <2>3. ASSUME Reads(sys, x), x \notin sys.paused PROVE x \in ReadDue'
    <3>1. Due(sys', batch', x, "R")
      BY <1>5, <2>1, <2>3 DEF Asks, Reads
    <3> QED  BY <1>6, <3>1 DEF ReadDue
  <2>4. ASSUME Writes(sys, x) PROVE x \in WriteDue'
    <3>1. Due(sys', batch', x, "W")
      BY <1>5, <2>1, <2>4 DEF Asks, Writes
    <3> QED  BY <1>6, <3>1 DEF WriteDue
  <2> QED  BY <1>4, <2>2, <2>3, <2>4
<1> QED  BY <1>6 DEF WatchInv, Watched

(* What is due is due of the event at the head or of a later one.          *)
LEMMA DueTail ==
    ASSUME NEW q \in Seq(Events), q # <<>>, NEW s, NEW x, NEW b, Due(s, q, x, b),
           ~(Head(q)[1] = s.fd[x] /\ b \in Head(q)[2])
    PROVE  Due(s, Tail(q), x, b)
<1>1. PICK i \in 1 .. Len(q) : q[i][1] = s.fd[x] /\ b \in q[i][2]
  BY LenProperties DEF Due
<1>2. /\ Len(q) \in Nat /\ Head(q) = q[1] /\ Tail(q) \in Seq(Events)
      /\ Len(Tail(q)) = Len(q) - 1
      /\ \A j \in 1 .. Len(Tail(q)) : Tail(q)[j] = q[j + 1]
  BY HeadTailProperties, LenProperties
<1>3. i # 1
  BY <1>1, <1>2
<1>4. i - 1 \in 1 .. Len(Tail(q)) /\ Tail(q)[i - 1] = q[i]
  BY <1>1, <1>2, <1>3
<1> QED  BY <1>1, <1>2, <1>4, LenProperties DEF Due

Handled    == IF Head(batch)[1] = Nil THEN Nil ELSE sys.tab[Head(batch)[1]]
HandledFor == Head(batch)[2]

LEMMA HandledWatch ==
    ASSUME LinkInv, WatchInv, Handle, ~Reselects, ~sys'.panic,
           Watches(sys, sys'),
           \A x \in sys.rings : Leaves(x) => ~Reads(sys', x),
           Handled \in sys'.rings =>
              /\ "R" \in HandledFor =>
                    \/ Handled \in sys'.armed \cup sys'.paused
                    \/ ~Reads(sys', Handled) \/ (pc' \in Inner /\ cur' = Handled)
              /\ "W" \in HandledFor =>
                    Handled \in sys'.armed \/ ~Writes(sys', Handled)
    PROVE  WatchInv'
<1>1. /\ Good(sys) /\ sys \in Sys /\ IInv /\ Wired(sys) /\ batch \in Seq(Events)
      /\ ~sys.panic /\ pc = "loop" /\ batch # <<>> /\ batch' = Tail(batch)
  BY GoodSys DEF LinkInv, FlowInv, IInv, Handle, At, Running
<1>2. \A x \in sys.rings : sys'.fd[x] = sys.fd[x]
  <2>1. Steps(sys', Anything)
    BY <1>1, MayWriteAnything, RunSteps DEF Run, Work
  <2> QED  BY <1>1, <2>1, RingsAged DEF Steps
<1>3. ASSUME NEW x \in sys.rings, NEW b, Due(sys, batch, x, b)
      PROVE  Due(sys', batch', x, b) \/ (x = Handled /\ b \in HandledFor)
  <2>1. CASE Head(batch)[1] = sys.fd[x] /\ b \in Head(batch)[2]
    <3>1. x \in Conn /\ Live(sys, x)
      BY <1>1 DEF Good, Sound, RingsLive, Sys
    <3>2. sys.fd[x] # Nil
      BY <1>1, <3>1, ReactorAssumption DEF Sys
    <3> QED  BY <2>1, <3>1, <3>2 DEF Handled, HandledFor, Live, Sock
  <2>2. CASE ~(Head(batch)[1] = sys.fd[x] /\ b \in Head(batch)[2])
    <3>1. Due(sys, Tail(batch), x, b)
      BY <1>1, <1>3, <2>2, DueTail
    <3> QED  BY <1>1, <1>2, <3>1 DEF Due
  <2> QED  BY <2>1, <2>2
<1>4. Watched(sys, ReadDue, WriteDue)
  BY <1>1 DEF WatchInv
<1>5. ASSUME NEW x \in sys'.rings, x \in sys.rings,
             x \in ReadDue \/ x \in sys.paused \ sys'.paused
      PROVE  x \in ReadDue' \cup sys'.armed \cup sys'.paused \/ ~Reads(sys', x)
  <2>1. CASE pc' \in Inner /\ cur' = x
    BY <1>5, <2>1 DEF ReadDue, Served
  <2>2. CASE ~(pc' \in Inner /\ cur' = x) /\ x \in sys.paused \ sys'.paused
    BY <1>5, <2>2 DEF Leaves
  <2>3. CASE ~(pc' \in Inner /\ cur' = x) /\ Due(sys, batch, x, "R")
    <3>1. Due(sys', batch', x, "R") => x \in ReadDue'
      BY <1>5 DEF ReadDue
    <3> QED  BY <1>3, <1>5, <2>3, <3>1
  <2> QED  BY <1>1, <1>5, <2>1, <2>2, <2>3 DEF ReadDue, Served, Inner
<1>6. ASSUME NEW x \in sys'.rings, x \in sys.rings, x \in WriteDue
      PROVE  x \in WriteDue' \cup sys'.armed \/ ~Writes(sys', x)
  <2>1. Due(sys, batch, x, "W")
    BY <1>6 DEF WriteDue
  <2>2. Due(sys', batch', x, "W") => x \in WriteDue'
    BY <1>6 DEF WriteDue
  <2> QED  BY <1>3, <1>6, <2>1, <2>2
<1>7. Watched(sys', ReadDue', WriteDue')
  <2> DEFINE P == ReadDue
             Q == WriteDue
             P2 == ReadDue'
             Q2 == WriteDue'
             t == sys'
  <2>1. \A x \in t.rings : x \in sys.rings =>
              /\ x \in P \/ x \in sys.paused \ t.paused =>
                    x \in P2 \cup t.armed \cup t.paused \/ ~Reads(t, x)
              /\ x \in Q => x \in Q2 \cup t.armed \/ ~Writes(t, x)
    BY <1>5, <1>6
  <2>2. Watched(sys, P, Q) /\ Watches(sys, t)
    BY <1>4
  <2> HIDE DEF P, Q, P2, Q2, t
  <2>3. Watched(t, P2, Q2)
    BY <2>1, <2>2, WatchedNext
  <2> QED  BY <2>3 DEF P2, Q2, t
<1> QED  BY <1>7 DEF WatchInv

LEMMA ConnectOnlyPaused ==
    ASSUME NEW s, NEW c \in Conn, Good(s)
    PROVE  ConnectOnly(s, c).paused = s.paused
<1> DEFINE a == [s.active EXCEPT ![s.ep[c]] = @ + 1]
           q == [s EXCEPT !.role[c] = "up"]
           t == [q EXCEPT !.active = a]
<1>1. s \in Sys /\ a \in [EP -> Int]
  <2>1. s.active \in [EP -> Int]
    BY DEF Good, Sound, Sys
  <2> QED  BY <2>1, GoodSys, CountType
<1> HIDE DEF a
<1>2. q \in Sys /\ q.paused = s.paused
  BY <1>1 DEF Sys, Roles
<1>3. ConnectOnly(s, c) = Mod(t, c, {"R", "W"})
  <2>1. t = [s EXCEPT !.role[c] = "up", !.active = a]
    BY <1>1 DEF Sys
  <2> QED  BY <2>1 DEF ConnectOnly, a
<1> HIDE DEF q
<1>4. t \in Sys /\ t.paused = q.paused
  BY <1>1, <1>2 DEF Sys
<1> HIDE DEF t
<1>5. Same(t, Mod(t, c, {"R", "W"}))
  BY <1>4, ModKeeps
<1> QED  BY <1>2, <1>3, <1>4, <1>5 DEF Same

(* The end of a connect resumes the client that waited for it, if any.     *)
LEMMA FinishConnectResumes ==
    ASSUME NEW s, NEW c \in Conn, Good(s), Live(s, c), s.role[c] = "connecting"
    PROVE  \E d : FinishConnect(s, c).paused \in {s.paused, s.paused \ {d}}
<1> DEFINE d == s.peer[c]
<1>1. d # Nil => d \in Conn
  BY GoodSys DEF Sys
<1> HIDE DEF d
<1>2. ConnectFailed(s, c).paused = s.paused
  <2> DEFINE t == CloseConn(s, c)
             u == Reply(t, d, t.pend[d].id)
             v == IF d \in u.held THEN Release(u, d) ELSE u
  <2>1. Good(t) /\ t.paused = s.paused
    BY CloseConnCloses DEF Closes
  <2>2. ConnectFailed(s, c) = IF d = Nil THEN t ELSE [v EXCEPT !.peer[d] = Nil]
    BY DEF ConnectFailed, d
  <2> HIDE DEF t
  <2>3. CASE d = Nil
    BY <2>1, <2>2, <2>3
  <2>4. CASE d # Nil
    <3>1. d \in Conn /\ t.pend[d].id \in 0 .. MaxReq
      BY <1>1, <2>1, <2>4, GoodSys, HdrType
    <3>2. Good(u) /\ u.paused = t.paused
      BY <2>1, <3>1, ReplyCloses DEF Closes
    <3> HIDE DEF u
    <3>3. Good(v) /\ v.paused = u.paused
      BY <3>1, <3>2, ReleaseCloses DEF Closes
    <3> HIDE DEF v
    <3>4. [v EXCEPT !.peer[d] = Nil].paused = v.paused
      BY <3>3, GoodSys DEF Sys
    <3> QED  BY <2>1, <2>2, <2>4, <3>2, <3>3, <3>4
  <2> QED  BY <2>3, <2>4
<1>3. ConnectMade(s, c).paused \in {s.paused, s.paused \ {d}}
  <2> DEFINE t == ConnectOnly(s, c)
  <2>1. Good(t) /\ t.paused = s.paused
    BY ConnectOnlyGood, ConnectOnlyPaused
  <2>2. ConnectMade(s, c) = IF d # Nil /\ d \in t.held THEN SendPending(t, d, c) ELSE t
    BY DEF ConnectMade, d
  <2> HIDE DEF t
  <2>3. d \in Conn => Resumes(t, SendPending(t, d, c), d)
    BY <2>1, SendPendingResumes
  <2> QED  BY <1>1, <2>1, <2>2, <2>3 DEF Resumes
<1> QED  BY <1>2, <1>3 DEF FinishConnect

(* A handler that resumes at most one connection reads it next.            *)
LEMMA ResumesRead ==
    ASSUME NEW t, sys \in Sys, ~sys'.panic, ThenResume(t, "loop"), NEW d,
           t.paused \in {sys.paused, sys.paused \ {d}}, pc \notin Inner
    PROVE  sys' = t /\ \A x \in sys.rings : ~Leaves(x)
<1>1. sys' = t
  BY GotoLeads, LeadsOn
<1> DEFINE R == sys.paused \ t.paused
<1>2. R \subseteq {d}
  OBVIOUS
<1>3. R # {} => pc' = "read" /\ cur' \in R
  <2>1. R # {} => (CHOOSE x \in R : TRUE) \in R
    OBVIOUS
  <2>2. R # {} => pc' = "read" /\ cur' = CHOOSE x \in R : TRUE
    BY DEF ThenResume, Then
  <2> QED  BY <2>1, <2>2
<1>4. ASSUME NEW x \in sys.rings, Leaves(x) PROVE FALSE
  <2>1. x \in R /\ ~(pc' \in Inner /\ cur' = x)
    BY <1>1, <1>4 DEF Leaves, Served
  <2>2. x = d /\ cur' = d /\ pc' = "read"
    BY <1>2, <1>3, <2>1
  <2> QED  BY <2>1, <2>2 DEF Inner
<1> QED  BY <1>1, <1>4

LEMMA HandleWatch ==
    ASSUME LinkInv, WatchInv, Handle, ~Reselects
    PROVE  WatchInv'
<1> DEFINE f    == Head(batch)[1]
           bits == HandledFor
           c    == Handled
<1>1. /\ Good(sys) /\ sys \in Sys /\ IInv /\ Wired(sys) /\ pc \notin Inner
  BY GoodSys DEF LinkInv, FlowInv, IInv, Handle, At, Inner
<1>2. c # Nil => c \in Conn /\ Live(sys, c) /\ c \in sys.rings
  <2>1. c # Nil => c \in Conn /\ Live(sys, c)
    BY <1>1, HandledLive DEF Handle, Handled
  <2> QED  BY <1>1, <2>1 DEF Good, Sound, RingsLive
<1>3. \/ HandleStale(f) \/ HandleListen(f)
      \/ HandleConnect(c, bits) \/ HandleIO(c, bits)
  BY DEF Handle, Handled, HandledFor
<1>4. HandleStale(f) \/ HandleListen(f) => c = Nil
  BY DEF HandleStale, HandleListen, Handled
<1>5. CASE sys'.panic
  BY <1>5 DEF WatchInv
<1>6. SUFFICES ASSUME ~sys'.panic PROVE WatchInv'
  BY <1>5
<1>7. Nil \notin sys'.rings
  <2>1. Good(sys')
    BY <1>1, HandleStep DEF IInv
  <2> QED  BY <2>1, GoodSys, ReactorAssumption DEF Sys
<1> HIDE DEF f
<1>8. CASE HandleStale(f) \/ HandleListen(f)
  <2>1. Leads(sys)
    BY <1>8, GotoLeads DEF HandleStale, HandleListen
  <2>2. sys' = sys
    BY <1>1, <1>6, <2>1, LeadsOn
  <2>3. Watches(sys, sys') /\ \A x \in sys.rings : ~Leaves(x)
    BY <1>1, <2>2, WatchesSelf DEF Leaves, Served
  <2> QED  BY <1>4, <1>6, <1>7, <1>8, <2>3, HandledWatch
<1>9. CASE HandleConnect(c, bits)
  <2> DEFINE w == FinishConnect(sys, c)
  <2>1. /\ c \in Conn /\ Live(sys, c) /\ c \in sys.rings
        /\ sys.role[c] = "connecting" /\ ThenResume(w, "loop")
    BY <1>2, <1>9 DEF HandleConnect, Connects
  <2> HIDE DEF c, bits
  <2>2. Watches(sys, w) /\ (c \in w.rings => Seen(w, c))
    BY <1>1, <2>1, FinishConnectWatches
  <2>3. PICK d : w.paused \in {sys.paused, sys.paused \ {d}}
    BY <1>1, <2>1, FinishConnectResumes
  <2> HIDE DEF w
  <2>4. sys' = w /\ \A x \in sys.rings : ~Leaves(x)
    <3>1. sys \in Sys /\ pc \notin Inner /\ ~sys'.panic
      BY <1>1, <1>6
    <3>2. ThenResume(w, "loop")
      BY <2>1
    <3> QED  BY <2>3, <3>1, <3>2, ResumesRead
  <2>5. c \in sys'.rings => /\ c \in sys'.armed \/ ~Reads(sys', c)
                            /\ c \in sys'.armed \/ ~Writes(sys', c)
    BY <2>2, <2>4 DEF Seen
  <2> QED  BY <1>6, <2>2, <2>4, <2>5, HandledWatch DEF c
<1>10. CASE HandleIO(c, bits)
  <2> DEFINE t == IF "W" \in bits THEN FlushRemain(sys, c) ELSE sys
             u == CloseConn(sys, c)
  <2>1. c \in Conn /\ Live(sys, c) /\ c \in sys.rings
    BY <1>2, <1>10 DEF HandleIO
  <2>2. IF bits = {"E"} THEN Goto(u, "loop")
        ELSE IF "R" \in bits /\ c \notin sys.paused
             THEN Then(t, "read", c, "loop") ELSE Goto(t, "loop")
    BY <1>10 DEF HandleIO
  <2> HIDE DEF c, bits
  <2>3. CASE bits = {"E"}
    <3>1. Watches(sys, u) /\ c \notin u.rings /\ u.paused = sys.paused
      BY <1>1, <2>1, CloseConnWatches, CloseConnCloses DEF Closes
    <3> HIDE DEF u
    <3>2. sys' = u
      BY <1>1, <1>6, <2>2, <2>3, GotoLeads, LeadsOn
    <3>3. \A x \in sys.rings : ~Leaves(x)
      BY <1>1, <3>1, <3>2 DEF Leaves, Served
    <3> QED  BY <1>6, <3>1, <3>2, <3>3, HandledWatch DEF c
  <2>4. CASE bits # {"E"}
    <3>1. /\ Watches(sys, t) /\ t.paused = sys.paused
          /\ "W" \in bits /\ c \in t.rings => ~Writes(t, c)
      <4>1. CASE "W" \in bits
        BY <1>1, <2>1, <4>1, FlushRemainWatches, FlushRemainCloses DEF Closes
      <4>2. CASE "W" \notin bits
        BY <4>2, WatchesSelf
      <4> QED  BY <4>1, <4>2
    <3>2. Then(t, "read", c, "loop") \/ Goto(t, "loop")
      BY <2>2, <2>4
    <3>3. "R" \in bits => c \in t.paused \/ (pc' = "read" /\ cur' = c)
      BY <2>2, <2>4, <3>1 DEF Then
    <3> HIDE DEF t
    <3>4. sys' = t
      BY <1>1, <1>6, <3>2, GotoLeads, LeadsOn
    <3>5. \A x \in sys.rings : ~Leaves(x)
      BY <1>1, <3>1, <3>4 DEF Leaves, Served
    <3>6. c \in sys'.rings =>
              /\ "R" \in bits => c \in sys'.paused \/ (pc' \in Inner /\ cur' = c)
              /\ "W" \in bits => ~Writes(sys', c)
      BY <3>1, <3>3, <3>4 DEF Inner
    <3> QED  BY <1>6, <3>1, <3>4, <3>5, <3>6, HandledWatch DEF c, bits
  <2> QED  BY <2>3, <2>4
<1> QED  BY <1>3, <1>8, <1>9, <1>10

----------------------------------------------------------------------------
(* The kernel and the far ends: whatever makes a socket ready puts it on   *)
(* the ready list.                                                         *)

(* Only the socket of c changes.                                           *)
Touches(s, t, c) ==
    /\ t.rings = s.rings /\ t.role = s.role /\ t.want = s.want /\ t.fd = s.fd
    /\ t.remain = s.remain /\ t.armed = s.armed /\ t.paused = s.paused
    /\ \A x \in Conn : x # c =>
          t.tx[x] = s.tx[x] /\ t.inbox[x] = s.inbox[x] /\ t.rx[x] = s.rx[x]

Beside(s, t) == Watches(s, t) /\ t.paused = s.paused /\ t.fd = s.fd

LEMMA ArmBeside ==
    ASSUME NEW s \in Sys, NEW t \in Sys, NEW c \in Conn, Touches(s, t, c)
    PROVE  Beside(s, Arm(t, c))
<1> DEFINE u == Arm(t, c)
<1>1. Same(t, u) /\ \A x \in Conn : Rests(t, u, x)
  BY ArmKeeps, ArmRests
<1>2. Asks(t, c) => Seen(u, c)
  BY ArmRests
<1> HIDE DEF u
<1>3. u.rings = s.rings /\ u.paused = s.paused /\ u.fd = s.fd
  BY <1>1 DEF Same, Touches
<1>4. ASSUME NEW x \in u.rings, x # c PROVE Rests(s, u, x)
  <2>1. x \in Conn
    BY <1>3, <1>4 DEF Sys
  <2>2. Rests(s, t, x)
    BY <1>4, <2>1 DEF Rests, Touches
  <2> QED  BY <1>1, <2>1, <2>2, RestsTrans
<1>5. Carries(s, u, c)
  <2>1. Asks(s, c) => Asks(t, c)
    BY DEF Asks, Touches
  <2>2. c \in s.armed => c \in u.armed
    BY <1>1 DEF Rests, Touches
  <2> QED  BY <1>2, <2>1, <2>2 DEF Carries, Seen
<1>6. Watches(s, u)
  BY <1>3, <1>4, <1>5, WatchesAt
<1> QED  BY <1>3, <1>6 DEF Beside, u

LEMMA ArriveBeside ==
    ASSUME NEW s, Good(s), NEW c \in Conn, NEW f \in Frame, NEW k \in 1 .. f.len + 1
    PROVE  Arrive(s, c, f, k) \in Sys /\ Beside(s, Arrive(s, c, f, k))
<1> DEFINE cells == Cells(f)
           a  == SubSeq(cells, 1, k)
           in == s.inbox[c] \o a
           w  == SubSeq(cells, k + 1, Len(cells))
           t  == [s EXCEPT !.inbox[c] = in, !.wire[c] = w]
<1>0. s \in Sys
  BY GoodSys
<1>1. f.len \in Nat /\ s.inbox[c] \in Seq(Cell) /\ s \in Sys
  BY <1>0 DEF Frame, Sys
<1>2. cells \in Seq(Cell) /\ Len(cells) = f.len + 1
  BY CellsType
<1> HIDE DEF cells
<1>3. a \in Seq(Cell)
  BY <1>1, <1>2, SubSeqProperties
<1>4. in \in Seq(Cell) /\ w \in Seq(Cell)
  BY <1>1, <1>2, <1>3, DropPrefix, ConcatProperties
<1>5. Arrive(s, c, f, k) = Arm(t, c)
  BY DEF Arrive, cells
<1> HIDE DEF in, w
<1>6. t \in Sys /\ Touches(s, t, c)
  BY <1>1, <1>4 DEF Sys, Touches
<1> HIDE DEF t
<1> QED  BY <1>1, <1>5, <1>6, ArmBeside, ArmKeeps

LEMMA SlowBeside ==
    ASSUME NEW s \in Sys, NEW c \in Conn, s.tx[c] = "open", NEW r
    PROVE  Beside(s, [s EXCEPT !.tx[c] = r])
<1> DEFINE t == [s EXCEPT !.tx[c] = r]
<1>1. /\ t.rings = s.rings /\ t.role = s.role /\ t.want = s.want /\ t.fd = s.fd
      /\ t.remain = s.remain /\ t.armed = s.armed /\ t.paused = s.paused
      /\ t.inbox = s.inbox /\ t.rx = s.rx
      /\ \A x \in Conn : x # c => t.tx[x] = s.tx[x]
  BY DEF Sys
<1> HIDE DEF t
<1>2. \A x \in t.rings : x # c => Rests(s, t, x)
  BY <1>1 DEF Rests, Sys
<1>3. Carries(s, t, c)
  BY <1>1 DEF Carries, Asks, Reads, Readable, Writes, Writable
<1>4. Watches(s, t)
  BY <1>1, <1>2, <1>3, WatchesAt
<1> QED  BY <1>1, <1>4 DEF Beside, t

LEMMA ClientBeside ==
    ASSUME NEW c \in Conn, IInv,
           \/ ClientConnects \/ HealthChanges \/ ClientSends(c) \/ Slows(c)
    PROVE  Beside(sys, sys')
<1>1. Good(sys) /\ sys \in Sys /\ EnvOK /\ nreq \in Nat
  BY GoodSys, ReactorAssumption DEF IInv, EnvOK
<1>2. CASE ClientConnects \/ HealthChanges
  BY <1>2, WatchesSelf DEF ClientConnects, HealthChanges, Beside
<1>3. CASE ClientSends(c)
  <2>0. PICK m \in ClientKinds : \E k \in 1 .. m.len + 1 :
           sys' = Arrive(sys, c, [op |-> m.op, id |-> nreq', len |-> m.len], k)
    BY <1>3 DEF ClientSends
  <2>1. PICK k \in 1 .. m.len + 1 :
           sys' = Arrive(sys, c, [op |-> m.op, id |-> nreq', len |-> m.len], k)
    BY <2>0
  <2>2. nreq' \in 0 .. MaxReq
    BY <1>1, <1>3, ReactorAssumption DEF ClientSends, EnvOK
  <2> DEFINE f == [op |-> m.op, id |-> nreq', len |-> m.len]
  <2>3. f \in Frame /\ f.len = m.len
    BY <2>2, ReactorAssumption DEF Frame
  <2>4. sys' = Arrive(sys, c, f, k)
    BY <2>1
  <2> HIDE DEF f
  <2> QED  BY <1>1, <2>3, <2>4, ArriveBeside
<1>4. CASE Slows(c)
  <2>1. PICK r \in {"tight", "full"} : sys' = [sys EXCEPT !.tx[c] = r]
    BY <1>4 DEF Slows
  <2>2. sys.tx[c] = "open"
    BY <1>4 DEF Slows
  <2> QED  BY <1>1, <2>1, <2>2, SlowBeside
<1> QED  BY <1>2, <1>3, <1>4

LEMMA FarBeside ==
    ASSUME NEW c \in Conn, IInv,
           \/ UpstreamAnswers(c) \/ RestArrives(c) \/ PeerCloses(c)
           \/ PeerResets(c) \/ ConnectCompletes(c) \/ Drains(c)
    PROVE  Beside(sys, sys')
<1>1. Good(sys) /\ sys \in Sys /\ <<>> \in Seq(Cell)
  BY GoodSys, EmptySeq DEF IInv
<1>2. CASE UpstreamAnswers(c)
  <2>0. PICK m \in UpKinds : \E k \in 1 .. m.len + 1 :
           sys' = [Arrive(sys, c, [op |-> m.op, id |-> Head(sys.got[c]).id,
                                   len |-> m.len], k) EXCEPT !.got[c] = Tail(@)]
    BY <1>2 DEF UpstreamAnswers
  <2>1. PICK k \in 1 .. m.len + 1 :
           sys' = [Arrive(sys, c, [op |-> m.op, id |-> Head(sys.got[c]).id,
                                   len |-> m.len], k) EXCEPT !.got[c] = Tail(@)]
    BY <2>0
  <2> DEFINE f == [op |-> m.op, id |-> Head(sys.got[c]).id, len |-> m.len]
             t == Arrive(sys, c, f, k)
             g == Tail(t.got[c])
             u == [t EXCEPT !.got[c] = g]
  <2>2. sys.got[c] \in Seq(Frame) /\ sys.got[c] # <<>>
    BY <1>1, <1>2 DEF UpstreamAnswers, Sys
  <2>3. Head(sys.got[c]) \in Frame
    BY <2>2, HeadTailProperties
  <2>4. f \in Frame /\ f.len = m.len
    BY <2>3, ReactorAssumption DEF Frame
  <2>5. sys' = u
    BY <2>1
  <2> HIDE DEF f
  <2>6. t \in Sys /\ Beside(sys, t)
    BY <1>1, <2>4, ArriveBeside
  <2> HIDE DEF t, g
  <2>7. Apart(t, u) /\ u.paused = t.paused /\ u.fd = t.fd
    BY <2>6 DEF Apart, Sys
  <2> HIDE DEF u
  <2> QED  BY <2>5, <2>6, <2>7, ApartWatches, WatchesTrans DEF Beside
<1>3. CASE RestArrives(c)
  <2> DEFINE in == sys.inbox[c] \o sys.wire[c]
             t  == [sys EXCEPT !.inbox[c] = in, !.wire[c] = <<>>]
  <2>1. in \in Seq(Cell)
    BY <1>1, ConcatProperties DEF Sys
  <2>2. sys' = Arm(t, c)
    BY <1>3 DEF RestArrives
  <2> HIDE DEF in
  <2>3. t \in Sys /\ Touches(sys, t, c)
    BY <1>1, <2>1 DEF Sys, Touches
  <2> HIDE DEF t
  <2> QED  BY <1>1, <2>2, <2>3, ArmBeside
<1>4. CASE PeerCloses(c)
  <2> DEFINE t == [sys EXCEPT !.rx[c] = "eof", !.wire[c] = <<>>]
  <2>1. t \in Sys /\ Touches(sys, t, c)
    BY <1>1 DEF Sys, Touches
  <2>2. sys' = Arm(t, c)
    BY <1>4 DEF PeerCloses
  <2> HIDE DEF t
  <2> QED  BY <1>1, <2>1, <2>2, ArmBeside
<1>5. CASE sys' = Reset(sys, c)
  <2> DEFINE t == [sys EXCEPT !.rx[c] = "err", !.tx[c] = "broken",
                              !.inbox[c] = <<>>, !.wire[c] = <<>>]
  <2>1. t \in Sys /\ Touches(sys, t, c)
    BY <1>1 DEF Sys, Touches
  <2>2. sys' = Arm(t, c)
    BY <1>5 DEF Reset
  <2> HIDE DEF t
  <2> QED  BY <1>1, <2>1, <2>2, ArmBeside
<1>6. CASE sys' = Arm([sys EXCEPT !.tx[c] = "open"], c)
  <2> DEFINE t == [sys EXCEPT !.tx[c] = "open"]
  <2>1. t \in Sys /\ Touches(sys, t, c)
    BY <1>1 DEF Sys, Touches
  <2>2. sys' = Arm(t, c)
    BY <1>6
  <2> HIDE DEF t
  <2> QED  BY <1>1, <2>1, <2>2, ArmBeside
<1> QED
  BY <1>2, <1>3, <1>4, <1>5, <1>6 DEF PeerResets, ConnectCompletes, Drains

LEMMA EnvironmentWatch ==
    ASSUME LinkInv, WatchInv, Environment
    PROVE  WatchInv'
<1>1. IInv
  BY DEF LinkInv, FlowInv
<1>2. ~sys.panic /\ batch' = batch /\ pc' = pc /\ cur' = cur
  BY DEF Environment, ClientConnects, HealthChanges, ClientSends, UpstreamAnswers,
         RestArrives, PeerCloses, PeerResets, ConnectCompletes, Slows, Drains,
         Sends, Open, Running, control
<1>3. Beside(sys, sys')
  <2>1. CASE ClientConnects \/ HealthChanges
    <3>1. Conn # {}
      BY ReactorAssumption
    <3> QED  BY <1>1, <2>1, <3>1, ClientBeside
  <2>2. CASE \E c \in Conn : \/ ClientSends(c) \/ UpstreamAnswers(c)
                             \/ RestArrives(c) \/ PeerCloses(c) \/ PeerResets(c)
                             \/ ConnectCompletes(c) \/ Slows(c) \/ Drains(c)
    <3>1. PICK c \in Conn : \/ ClientSends(c) \/ UpstreamAnswers(c)
                            \/ RestArrives(c) \/ PeerCloses(c) \/ PeerResets(c)
                            \/ ConnectCompletes(c) \/ Slows(c) \/ Drains(c)
      BY <2>2
    <3>2. CASE ClientSends(c) \/ Slows(c)
      BY <1>1, <3>2, ClientBeside
    <3>3. CASE ~(ClientSends(c) \/ Slows(c))
      BY <1>1, <3>1, <3>3, FarBeside
    <3> QED  BY <3>2, <3>3
  <2> QED  BY <2>1, <2>2 DEF Environment
<1>4. \A x \in sys.rings : ~Leaves(x)
  BY <1>2, <1>3 DEF Leaves, Served, Beside
<1> QED  BY <1>2, <1>3, <1>4, StepWatch DEF Beside

LEMMA InitWatch == Init => WatchInv
<1> SUFFICES ASSUME Init PROVE WatchInv
  OBVIOUS
<1>1. sys.rings = {}
  BY DEF Init
<1> QED  BY <1>1 DEF WatchInv, Watched

LEMMA NextWatch ==
    LinkInv /\ Private /\ WatchInv /\ [Next]_vars /\ [~Reselects]_vars => WatchInv'
<1> SUFFICES ASSUME LinkInv, Private, WatchInv, [Next]_vars, [~Reselects]_vars
             PROVE  WatchInv'
  OBVIOUS
<1>1. CASE Run /\ ~Reselects
  BY <1>1, WaitWatch, HandleWatch, AcceptWatch, ReadWatch, ParseWatch,
     DispatchWatch, EndingWatch DEF Run, Work, Read, Parse, Ending
<1>2. CASE Environment
  BY <1>2, EnvironmentWatch
<1>3. CASE UNCHANGED vars
  BY <1>3 DEF vars, WatchInv, ReadDue, WriteDue, Due, Served
<1> QED  BY <1>1, <1>2, <1>3 DEF Next

(* Readiness is never lost to the edge-triggered poller: whenever the      *)
(* reactor is about to wait, a connection with input that nothing pauses,  *)
(* and one with stashed output and room to write it, is on the ready list  *)
(* and asks for that event, whatever order of events, short writes, closes *)
(* and reused descriptors led there; as long as no client's upstream is    *)
(* replaced, after which an interest may be registered for another         *)
(* connection's socket.                                                    *)
THEOREM EdgesAreKept == Spec /\ [][~Reselects]_vars => []NoLostEdge
<1>1. LinkInv /\ WatchInv => NoLostEdge
  <2> SUFFICES ASSUME LinkInv, WatchInv, AtRest, NEW c \in Conn, Live(sys, c)
               PROVE  /\ Reads(sys, c) /\ c \notin sys.paused => c \in sys.armed
                      /\ Writes(sys, c) => c \in sys.armed /\ "W" \in sys.want[c]
    BY DEF NoLostEdge, Reads, Writes
  <2>1. c \in sys.rings
    BY DEF LinkInv, FlowInv, IInv, Good, Sound, RingsLive
  <2>2. ReadDue = {} /\ WriteDue = {}
    BY DEF AtRest, ReadDue, WriteDue, Due, Served, Inner
  <2>3. Watched(sys, {}, {})
    BY <2>2 DEF WatchInv, AtRest, Running
  <2> QED  BY <2>1, <2>3 DEF Watched, Asks, Writes
<1> QED  BY <1>1, InitLinks, InitPrivate, InitWatch, NextLinks, NextPrivate,
            NextWatch, PTL DEF Spec

(* With one endpoint it holds of every behaviour.                          *)
THEOREM OneEndpointEdges ==
    ASSUME OneEndpoint
    PROVE  Spec => []NoLostEdge
<1>1. LinkInv /\ [Next]_vars => LinkInv' /\ [~Reselects]_vars
  BY NoneReselects, NextLinks
<1>2. Spec => [][~Reselects]_vars
  BY <1>1, InitLinks, PTL DEF Spec
<1> QED  BY <1>2, EdgesAreKept, PTL

----------------------------------------------------------------------------
(* Connects in progress: whom a handler works for, and whose request waits.*)

(* A handler for c may close c and its peer.  It frees no other, and an    *)
(* upstream connection other than c that stays open is as it was.          *)
Works(s, t, c) ==
    /\ t.rings \subseteq s.rings /\ s.rings \ {c, s.peer[c]} \subseteq t.rings
    /\ s.armed \subseteq s.rings => t.armed \subseteq t.rings
    /\ \A x \in Conn : x \in t.rings /\ x # c /\ s.role[x] # "down" =>
          /\ t.role[x] = s.role[x]
          /\ t.want[x] = s.want[x] /\ t.fd[x] = s.fd[x]
          /\ t.tx[x] = s.tx[x] /\ t.rx[x] = s.rx[x]

(* What c writes concerns its own output and interest.                     *)
Owns(s, c) == Sock(s, c) = Nil \/ (Sock(s, c) = c /\ c \in s.rings)
Puts(s, t, c) ==
    /\ Same(s, t) /\ t.rx = s.rx /\ t.armed \subseteq s.armed \cup ({c} \cap s.rings)
    /\ \A x \in Conn : x # c => /\ t.want[x] = s.want[x] /\ t.tx[x] = s.tx[x]
                                /\ t.remain[x] = s.remain[x]

(* c's socket takes more, or what does not fit is stashed already.         *)
Takes(s, c) ==
    \/ s.tx[c] \in {"open", "tight"}
    \/ s.tx[c] = "full" /\ s.remain[c] # <<>>

LEMMA OwnOwns ==
    ASSUME NEW s, NEW c \in Conn, Good(s), Own(s, c)
    PROVE  Owns(s, c)
BY DEF Own, Owns, Good, Sound, RingsLive, Live

LEMMA PutsTrans ==
    ASSUME NEW s, NEW t, NEW u, NEW c, Puts(s, t, c), Puts(t, u, c)
    PROVE  Puts(s, u, c)
BY DEF Puts, Same

LEMMA PutsSelf ==
    ASSUME NEW s, NEW c
    PROVE  Puts(s, s, c)
BY DEF Puts, Same

LEMMA PutsWorks ==
    ASSUME NEW s, NEW t, NEW c, Puts(s, t, c)
    PROVE  Works(s, t, c)
BY DEF Puts, Works, Same

LEMMA WorksTrans ==
    ASSUME NEW s \in Sys, NEW t, NEW u, NEW c \in Conn, NEW d \in Conn,
           Works(s, t, c), Works(t, u, d), Fades(s, t),
           d = c \/ s.peer[c] = d, d = c \/ s.role[d] = "down",
           t.peer[d] \in {c, s.peer[c], Nil}
    PROVE  Works(s, u, c)
<1>1. s.rings \ {c, s.peer[c]} \subseteq u.rings
  <2>1. Nil \notin s.rings
    BY ReactorAssumption DEF Sys
  <2> QED  BY <2>1 DEF Works
<1>2. ASSUME NEW x \in Conn, x \in u.rings, x # c, s.role[x] # "down"
      PROVE  x # d /\ t.role[x] # "down"
  BY <1>2 DEF Fades
<1> QED  BY <1>1, <1>2 DEF Works

LEMMA ArmPuts ==
    ASSUME NEW s \in Sys, NEW c \in s.rings
    PROVE  LET t == Arm(s, c)
           IN  /\ Puts(s, t, c) /\ t.tx = s.tx /\ t.remain = s.remain
               /\ t.want = s.want /\ t.panic = s.panic /\ t.held = s.held
BY DEF Sys, Arm, Puts, Same

LEMMA ModPuts ==
    ASSUME NEW s \in Sys, NEW c \in Conn, NEW bits \in SUBSET {"R", "W"}, Owns(s, c)
    PROVE  LET t == Mod(s, c, bits)
           IN  /\ Puts(s, t, c) /\ t.tx = s.tx /\ t.remain = s.remain
               /\ t.panic = s.panic /\ t.held = s.held
<1> DEFINE t == [s EXCEPT !.want[c] = bits]
<1>1. CASE Sock(s, c) = Nil
  BY <1>1, PutsSelf DEF Mod
<1>2. CASE Sock(s, c) # Nil
  <2>1. Mod(s, c, bits) = Arm(t, c) /\ c \in s.rings
    BY <1>2 DEF Mod, Owns
  <2>2. /\ t \in Sys /\ Puts(s, t, c) /\ t.tx = s.tx /\ t.remain = s.remain
        /\ t.panic = s.panic /\ t.held = s.held /\ t.rings = s.rings
    BY DEF Sys, Puts, Same
  <2> HIDE DEF t
  <2> QED  BY <2>1, <2>2, ArmPuts, PutsTrans
<1> QED  BY <1>1, <1>2

LEMMA OwnsRoom ==
    ASSUME NEW s \in Sys, NEW c \in Conn, Owns(s, c)
    PROVE  /\ Room(s, c) # "broken" => Sock(s, c) = c
           /\ Sock(s, c) = c => Room(s, c) = s.tx[c] /\ c \in s.rings
BY ReactorAssumption DEF Owns, Room

(* flushRemain, writev and the two of them as flush calls them.            *)
LEMMA ResendPuts ==
    ASSUME NEW s \in Sys, NEW c \in Conn, Owns(s, c)
    PROVE  LET t == Resend(s, c)
           IN  /\ Puts(s, t, c) /\ t.panic = s.panic /\ t.held = s.held
               /\ t.tx[c] \in {s.tx[c], "full"}
               /\ Sock(s, c) = c /\ Takes(s, c) => Takes(t, c)
<1> DEFINE r == s.remain[c]
<1>0. r \in Seq(Frame)
  BY DEF Sys
<1>1. CASE r = <<>> \/ Room(s, c) \notin {"open", "tight"}
  BY <1>1, PutsSelf DEF Resend
<1>2. CASE r # <<>> /\ Room(s, c) = "open"
  <2> DEFINE t == [Deliver(s, c, r) EXCEPT !.remain[c] = <<>>]
  <2>1. Sock(s, c) = c /\ s.tx[c] = "open" /\ <<>> \in Seq(Frame)
    BY <1>2, OwnsRoom, EmptySeq
  <2>2. t \in Sys
    BY <1>0, <2>1, DeliverKeeps, RemainKeeps
  <2>3. /\ Puts(s, t, c) /\ t.tx = s.tx /\ t.panic = s.panic /\ t.held = s.held
    BY <2>1 DEF Deliver, Sys, Puts, Same
  <2>4. Resend(s, c) = Mod(t, c, {"R"})
    BY <1>2 DEF Resend
  <2> HIDE DEF t
  <2>5. Owns(t, c)
    BY <2>3 DEF Owns, Sock, Puts, Same
  <2> QED  BY <2>1, <2>2, <2>3, <2>4, <2>5, ModPuts, PutsTrans DEF Takes
<1>3. CASE r # <<>> /\ Room(s, c) = "tight"
  <2> DEFINE q == SubSeq(r, 1, Len(r) - 1)
             w == <<r[Len(r)]>>
             t == [Deliver(s, c, q) EXCEPT !.remain[c] = w, !.tx[c] = "full"]
  <2>1. Sock(s, c) = c
    BY <1>3, OwnsRoom
  <2>2. Resend(s, c) = t /\ w # <<>>
    BY <1>3, <2>1 DEF Resend
  <2> HIDE DEF q, w
  <2>3. /\ Puts(s, t, c) /\ t.panic = s.panic /\ t.held = s.held
        /\ t.tx[c] = "full" /\ t.remain[c] = w
    BY <2>1 DEF Deliver, Sys, Puts, Same
  <2> QED  BY <2>2, <2>3 DEF Takes
<1> QED  BY <1>1, <1>2, <1>3

LEMMA WritevPuts ==
    ASSUME NEW s \in Sys, NEW c \in Conn, NEW f \in Frame, Owns(s, c)
    PROVE  LET t == Writev(s, c, f)
           IN  /\ Puts(s, t, c) /\ t.held = s.held
               /\ t.tx[c] \in {s.tx[c], "full"}
               /\ Sock(s, c) = c /\ Takes(s, c) /\ s.remain[c] = <<>> =>
                     Takes(t, c) /\ t.panic = s.panic
<1>1. CASE Room(s, c) = "open"
  <2> DEFINE t == Deliver(s, c, <<f>>)
  <2>1. Sock(s, c) = c /\ s.tx[c] = "open" /\ Writev(s, c, f) = t
    BY <1>1, OwnsRoom DEF Writev
  <2>2. /\ Puts(s, t, c) /\ t.held = s.held /\ t.tx = s.tx /\ t.panic = s.panic
    BY <2>1 DEF Deliver, Sys, Puts, Same
  <2> QED  BY <2>1, <2>2 DEF Takes
<1>2. CASE Room(s, c) = "tight"
  <2> DEFINE w == <<f>>
             t == [s EXCEPT !.remain[c] = w, !.tx[c] = "full"]
  <2>1. Sock(s, c) = c /\ w \in Seq(Frame) /\ w # <<>>
    BY <1>2, OwnsRoom
  <2>2. Writev(s, c, f) = Mod(t, c, WantStashed)
    BY <1>2, <2>1 DEF Writev
  <2> HIDE DEF w
  <2>3. /\ t \in Sys /\ Puts(s, t, c) /\ t.panic = s.panic /\ t.held = s.held
        /\ t.tx[c] = "full" /\ t.remain[c] = w
    BY <2>1 DEF Sys, Puts, Same
  <2> HIDE DEF t
  <2>4. Owns(t, c) /\ WantStashed \in SUBSET {"R", "W"}
    BY <2>3 DEF Owns, Sock, Puts, Same, WantStashed
  <2> QED  BY <2>1, <2>2, <2>3, <2>4, ModPuts, PutsTrans DEF Takes
<1>3. CASE Room(s, c) \notin {"open", "tight"}
  <2> DEFINE t == [s EXCEPT !.panic = TRUE]
  <2>1. Writev(s, c, f) = t
    BY <1>3 DEF Writev
  <2>2. Puts(s, t, c) /\ t.held = s.held /\ t.tx = s.tx
    BY DEF Sys, Puts, Same
  <2>3. ~(Sock(s, c) = c /\ Takes(s, c) /\ s.remain[c] = <<>>)
    BY <1>3, OwnsRoom DEF Takes
  <2> QED  BY <2>1, <2>2, <2>3
<1> QED  BY <1>1, <1>2, <1>3

LEMMA StashPuts ==
    ASSUME NEW s \in Sys, NEW c \in Conn, NEW r
    PROVE  LET t == [s EXCEPT !.remain[c] = r]
           IN  /\ Puts(s, t, c) /\ t.panic = s.panic /\ t.held = s.held
               /\ t.remain[c] = r /\ t.tx = s.tx
BY DEF Sys, Puts, Same

LEMMA WritePuts ==
    ASSUME NEW s \in Sys, NEW c \in Conn, NEW f \in Frame, Owns(s, c)
    PROVE  LET t == Write(s, c, f)
           IN  /\ Puts(s, t, c) /\ t.held = s.held
               /\ t.tx[c] \in {s.tx[c], "full"}
               /\ Sock(s, c) = c /\ Takes(s, c) => Takes(t, c) /\ t.panic = s.panic
<1> DEFINE t == Resend(s, c)
           r == Append(t.remain[c], f)
<1>1. /\ t \in Sys /\ Puts(s, t, c) /\ t.panic = s.panic /\ t.held = s.held
      /\ t.tx[c] \in {s.tx[c], "full"}
      /\ Sock(s, c) = c /\ Takes(s, c) => Takes(t, c)
  BY ResendKeeps, ResendPuts
<1>2. Write(s, c, f) = IF t.remain[c] = <<>> THEN Writev(t, c, f)
                       ELSE [t EXCEPT !.remain[c] = r]
  BY <1>1 DEF Write, Sys
<1>3. Owns(t, c) /\ Sock(t, c) = Sock(s, c)
  BY <1>1 DEF Owns, Sock, Puts, Same
<1>4. r # <<>>
  <2>1. t.remain[c] \in Seq(Frame)
    BY <1>1 DEF Sys
  <2> HIDE DEF t
  <2> QED  BY <2>1, AppendProperties
<1> HIDE DEF t, r
<1>5. CASE t.remain[c] = <<>>
  BY <1>1, <1>2, <1>3, <1>5, WritevPuts, PutsTrans
<1>6. CASE t.remain[c] # <<>>
  <2> DEFINE u == [t EXCEPT !.remain[c] = r]
  <2>1. /\ Puts(t, u, c) /\ u.panic = t.panic /\ u.held = t.held
        /\ u.remain[c] = r /\ u.tx = t.tx
    BY <1>1, StashPuts
  <2>2. Write(s, c, f) = u
    BY <1>2, <1>6
  <2> HIDE DEF u
  <2>3. Takes(t, c) => Takes(u, c)
    BY <1>4, <2>1 DEF Takes
  <2> QED  BY <1>1, <2>1, <2>2, <2>3, PutsTrans
<1> QED  BY <1>5, <1>6

LEMMA SpillPuts ==
    ASSUME NEW s \in Sys, NEW c \in Conn, NEW f \in Frame
    PROVE  LET t == Spill(s, c, f)
           IN  /\ Puts(s, t, c) /\ t.panic = s.panic /\ t.held = s.held
               /\ t.tx = s.tx
<1> DEFINE r == IF s.remain[c] = <<>> THEN s.remain[c] ELSE Append(s.remain[c], f)
<1>1. Spill(s, c, f) = [s EXCEPT !.remain[c] = r]
  BY DEF Spill, Sys
<1> HIDE DEF r
<1> QED  BY <1>1, StashPuts

----------------------------------------------------------------------------
(* What the goroutine can write to.                                        *)

(* An open connection takes what is written to it; one that connects has   *)
(* been written nothing yet, and is broken only if it was refused.         *)
Idle(s, c) ==
    /\ s.remain[c] = <<>> /\ s.tx[c] # "full"
    /\ s.tx[c] = "broken" => s.rx[c] = "err"
Fit(s) ==
    \A c \in s.rings : IF s.role[c] = "connecting" THEN Idle(s, c) ELSE Takes(s, c)

(* No write panics, and none closes the connection it fails on.            *)
Mends(s, t)  == Fit(s) => Fit(t) /\ t.panic = s.panic
Steady(s, t) == Fit(s) => Fit(t) /\ t.panic = s.panic /\ t.rings = s.rings

LEMMA SteadyTrans ==
    ASSUME NEW s, NEW t, NEW u, Mends(s, t), Mends(t, u)
    PROVE  Mends(s, u) /\ (Steady(s, t) /\ Steady(t, u) => Steady(s, u))
BY DEF Mends, Steady

LEMMA SteadyMends ==
    ASSUME NEW s, NEW t, Steady(s, t)
    PROVE  Mends(s, t)
BY DEF Mends, Steady

LEMMA PutsSteady ==
    ASSUME NEW s, NEW t, NEW c \in Conn, s.rings \subseteq Conn, Puts(s, t, c),
           c \in s.rings => s.role[c] # "connecting" /\ (Takes(s, c) => Takes(t, c)),
           Fit(s) => t.panic = s.panic
    PROVE  Steady(s, t)
BY DEF Steady, Fit, Idle, Takes, Puts, Same

LEMMA DropServes ==
    ASSUME NEW s \in Sys, NEW c \in Conn
    PROVE  LET t == Drop(s, c)
           IN  Works(s, t, c) /\ Mends(s, t) /\ t.held = s.held
<1> DEFINE t == Drop(s, c)
<1>1. /\ t.role = s.role /\ t.remain = s.remain /\ t.tx = s.tx /\ t.rx = s.rx
      /\ t.rings = s.rings \ {c} /\ t.armed = s.armed \ {c}
      /\ t.fd = s.fd /\ t.held = s.held /\ t.panic = s.panic
      /\ \A x \in Conn : x # c => t.want[x] = s.want[x]
  BY DEF Drop, Sys
<1> HIDE DEF t
<1>2. Works(s, t, c)
  BY <1>1 DEF Works
<1>3. Mends(s, t)
  BY <1>1 DEF Mends, Fit, Idle, Takes
<1> QED  BY <1>1, <1>2, <1>3 DEF t

LEMMA WorksSelf ==
    ASSUME NEW s, NEW c
    PROVE  Works(s, s, c) /\ Steady(s, s)
BY DEF Works, Steady

LEMMA DropLiveServes ==
    ASSUME NEW s, NEW c \in Conn, Good(s), s.peer[c] = Nil
    PROVE  LET t == DropLive(s, c)
           IN  Works(s, t, c) /\ Mends(s, t) /\ t.rings = s.rings \ {c}
<1> DEFINE t == Drop(s, c)
<1>0. s \in Sys
  BY GoodSys
<1>1. Works(s, t, c) /\ Mends(s, t) /\ t.rings = s.rings \ {c}
  BY <1>0, DropServes, DropParts
<1>2. ~Live(s, c) => c \notin s.rings
  BY DEF Good, Sound, RingsLive
<1> HIDE DEF t
<1> QED  BY <1>1, <1>2, WorksSelf, SteadyMends DEF DropLive, t

(* Written to an open connection that is not connecting.                   *)
LEMMA WriteServes ==
    ASSUME NEW s, NEW c \in Conn, NEW f \in Frame, Good(s), Own(s, c)
    PROVE  LET t == Write(s, c, f)
           IN  /\ Works(s, t, c)
               /\ c \in s.rings /\ s.role[c] # "connecting" => Steady(s, t)
<1> DEFINE t == Write(s, c, f)
<1>1. s \in Sys /\ s.rings \subseteq Conn
  BY GoodSys DEF Sys
<1>2. /\ Puts(s, t, c)
      /\ Sock(s, c) = c /\ Takes(s, c) => Takes(t, c) /\ t.panic = s.panic
  BY <1>1, OwnOwns, WritePuts
<1>3. c \in s.rings => Sock(s, c) = c
  BY DEF Good, Sound, RingsLive, Live
<1> HIDE DEF t
<1>4. Fit(s) /\ c \in s.rings /\ s.role[c] # "connecting" => Takes(s, c)
  BY DEF Fit
<1>5. c \in s.rings /\ s.role[c] # "connecting" => Steady(s, t)
  BY <1>1, <1>2, <1>3, <1>4, PutsSteady
<1> QED  BY <1>2, <1>5, PutsWorks DEF t

(* An open connection that is not connecting is not broken.                *)
LEMMA FitRoom ==
    ASSUME NEW s, NEW c \in Conn, Good(s), Fit(s), c \in s.rings,
           s.role[c] # "connecting"
    PROVE  Room(s, c) # "broken"
<1>1. s \in Sys /\ Owns(s, c) /\ Sock(s, c) = c
  BY GoodSys DEF Good, Sound, RingsLive, Live, Owns
<1> QED  BY <1>1, OwnsRoom DEF Fit, Takes

LEMMA ReplyAloneServes ==
    ASSUME NEW s, NEW c \in Conn, NEW f \in Frame, Good(s), s.peer[c] = Nil,
           c \in s.rings, s.role[c] # "connecting"
    PROVE  Works(s, ReplyAlone(s, c, f), c) /\ Steady(s, ReplyAlone(s, c, f))
<1>1. CASE Room(s, c) = "broken"
  <2> DEFINE t == DropLive(s, c)
             u == Spill(t, c, f)
  <2>1. Works(s, t, c) /\ Closes(s, t) /\ Moves(s, t, Anything)
    BY DropLiveServes, DropLiveCloses, DropLiveMoves
  <2>2. ReplyAlone(s, c, f) = u
    BY <1>1 DEF ReplyAlone
  <2> HIDE DEF t
  <2>3. t \in Sys /\ s \in Sys
    BY <2>1, GoodSys DEF Closes
  <2>4. Works(t, u, c)
    BY <2>3, SpillPuts, PutsWorks
  <2> HIDE DEF u
  <2>5. Works(s, u, c)
    BY <2>1, <2>3, <2>4, WorksTrans DEF Closes, Moves
  <2>6. ~Fit(s)
    BY <1>1, FitRoom
  <2> QED  BY <2>2, <2>5, <2>6 DEF Steady
<1>2. CASE Room(s, c) # "broken"
  <2>1. Own(s, c)
    BY RingOwn
  <2> QED  BY <1>2, <2>1, WriteServes DEF ReplyAlone
<1> QED  BY <1>1, <1>2

LEMMA CloseConnServes ==
    ASSUME NEW s, NEW c \in Conn, Good(s), Wired(s)
    PROVE  LET t == CloseConn(s, c)
           IN  /\ Works(s, t, c) /\ Mends(s, t) /\ c \notin t.rings
               /\ Fit(s) /\ s.peer[c] # Nil /\ s.role[s.peer[c]] = "down"
                     => s.peer[c] \in t.rings
<1>0. s \in Sys /\ Sound(s)
  BY GoodSys DEF Good
<1>1. CASE ~Live(s, c)
  <2>1. CloseConn(s, c) = s /\ c \notin s.rings
    BY <1>0, <1>1 DEF CloseConn, Sound, RingsLive
  <2>2. s.peer[c] = Nil
    BY <2>1 DEF Wired
  <2> QED  BY <2>1, <2>2, WorksSelf, SteadyMends
<1>2. CASE Live(s, c) /\ s.peer[c] = Nil
  <2>1. CloseConn(s, c) = DropLive(s, c)
    BY <1>2 DEF CloseConn, DropLive
  <2> QED  BY <1>2, <2>1, DropLiveServes
<1>3. CASE Live(s, c) /\ s.peer[c] # Nil
  <2> DEFINE p == s.peer[c]
             t == Drop(s, c)
             u == Unlink(t, p)
             f == ErrorOf(u.pend[p].id)
             r == CloseConn(s, c)
  <2>1. /\ t \in Sys /\ t.peer[p] = c /\ p \in Conn /\ Good(u)
        /\ u.peer[p] = Nil /\ f \in Frame
    BY <1>3, UnlinkCloses DEF Closes
  <2>2. r = IF u.role[p] = "down" THEN ReplyAlone(u, p, f) ELSE DropLive(u, p)
    BY <1>3, <2>1 DEF CloseConn
  <2>3. /\ t.rings = s.rings \ {c} /\ t.role = s.role
        /\ Works(s, t, c) /\ Mends(s, t)
    BY <1>0, DropServes, DropParts
  <2> HIDE DEF t
  <2>4. /\ u.role = t.role /\ u.want = t.want /\ u.remain = t.remain /\ u.tx = t.tx
        /\ u.rx = t.rx /\ u.armed = t.armed /\ u.rings = t.rings /\ u.fd = t.fd
        /\ u.panic = t.panic
    BY <2>1 DEF Unlink, Sys
  <2> HIDE DEF u, f, r
  <2>5. p # c /\ s.peer[p] = c /\ c # Nil /\ p # Nil
    BY <1>3, PeerApart, ReactorAssumption DEF Good, Paired
  <2>6. p \in u.rings
    BY <2>1, <2>3, <2>4, <2>5 DEF Wired
  <2>7. Works(s, u, c) /\ Mends(s, u)
    BY <2>3, <2>4 DEF Works, Mends, Fit, Idle, Takes
  <2>8. /\ Works(u, r, p) /\ Mends(u, r)
        /\ u.role[p] = "down" => Steady(u, r)
    BY <2>1, <2>2, <2>6, ReplyAloneServes, DropLiveServes, SteadyMends
  <2>9. u.role[p] # "down" => p \notin r.rings
    BY <2>1, <2>2, DropLiveServes
  <2>10. s.rings \ {c, p} \subseteq r.rings /\ c \notin r.rings
    <3>1. u.rings \ {p} \subseteq r.rings
      <4>1. Nil \notin u.rings
        BY <2>1, GoodSys, ReactorAssumption DEF Sys
      <4> QED  BY <2>1, <2>8, <4>1 DEF Works
    <3>2. r.rings \subseteq u.rings
      <4>1. u \in Sys /\ Sound(u)
        BY <2>1, GoodSys DEF Good
      <4>2. Own(u, p)
        BY <2>1, <2>6, RingOwn
      <4> QED  BY <2>1, <2>2, <4>1, <4>2, ReplyAloneTrims, DropLiveTrims DEF Trims
    <3> QED  BY <2>3, <2>4, <3>1, <3>2
  <2>11. Works(s, r, c)
    BY <2>3, <2>4, <2>7, <2>8, <2>9, <2>10 DEF Works
  <2>12. Mends(s, r)
    BY <2>7, <2>8 DEF Mends
  <2>13. Fit(s) /\ s.role[p] = "down" => p \in r.rings
    BY <2>3, <2>4, <2>6, <2>7, <2>8 DEF Steady, Mends
  <2> QED  BY <2>10, <2>11, <2>12, <2>13 DEF r
<1> QED  BY <1>1, <1>2, <1>3

LEMMA CloseConnFades ==
    ASSUME NEW s, NEW c \in Conn, Good(s), Wired(s)
    PROVE  LET t == CloseConn(s, c)
           IN  /\ Fades(s, t) /\ Good(t) /\ Wired(t) /\ t.held = s.held /\ t.role = s.role
               /\ \A x \in Conn : t.peer[x] \in {s.peer[x], Nil}
<1>1. Moves(s, CloseConn(s, c), Anything)
  BY AnythingGoes, CloseConnMoves
<1> QED  BY <1>1, MovesWired DEF Moves, Closes

LEMMA FlushServes ==
    ASSUME NEW s, NEW c \in Conn, NEW f \in Frame, Good(s), Wired(s), Own(s, c)
    PROVE  LET t == Flush(s, c, f)
           IN  /\ Works(s, t, c) /\ Fades(s, t) /\ Good(t) /\ Wired(t) /\ t.held = s.held
               /\ c \in s.rings /\ s.role[c] # "connecting" => Steady(s, t)
<1> DEFINE v == Flush(s, c, f)
<1>0. Moves(s, v, Anything)
  BY AnythingGoes, FlushMoves
<1>1. Fades(s, v) /\ Good(v) /\ Wired(v) /\ v.held = s.held
  BY <1>0, MovesWired DEF Moves, Closes
<1>2. CASE Room(s, c) = "broken"
  <2> DEFINE t == CloseConn(s, c)
             u == Spill(t, c, f)
  <2>1. Works(s, t, c)
    BY CloseConnServes
  <2>2. v = u
    BY <1>2 DEF Flush
  <2>3. Fades(s, t) /\ Good(t) /\ t.peer[c] \in {s.peer[c], Nil}
    BY CloseConnFades
  <2> HIDE DEF t
  <2>4. t \in Sys /\ s \in Sys
    BY <2>3, GoodSys
  <2>5. Works(t, u, c)
    BY <2>4, SpillPuts, PutsWorks
  <2> HIDE DEF u, v
  <2>6. Works(s, u, c)
    BY <2>1, <2>3, <2>4, <2>5, WorksTrans
  <2>7. c \in s.rings /\ s.role[c] # "connecting" => ~Fit(s)
    BY <1>2, FitRoom
  <2> QED  BY <1>1, <2>2, <2>6, <2>7 DEF Steady, v
<1>3. CASE Room(s, c) # "broken"
  BY <1>1, <1>3, WriteServes DEF Flush
<1> QED  BY <1>2, <1>3

LEMMA ReplyServes ==
    ASSUME NEW s, NEW c \in Conn, NEW i \in 0 .. MaxReq, Good(s), Wired(s), Own(s, c)
    PROVE  LET t == Reply(s, c, i)
           IN  /\ Works(s, t, c) /\ Fades(s, t) /\ Good(t) /\ Wired(t) /\ t.held = s.held
               /\ c \in s.rings /\ s.role[c] # "connecting" => Steady(s, t)
BY MadeFrames, FlushServes DEF Reply

LEMMA FlushRemainServes ==
    ASSUME NEW s, NEW c \in Conn, Good(s), Wired(s), c \in s.rings
    PROVE  LET t == FlushRemain(s, c)
           IN  /\ Works(s, t, c) /\ Fades(s, t) /\ Good(t) /\ Wired(t) /\ t.held = s.held
               /\ Same(s, t) \/ c \notin t.rings
               /\ s.role[c] # "connecting" => Steady(s, t)
<1>1. CASE s.remain[c] # <<>> /\ Room(s, c) = "broken"
  <2>1. s.role[c] # "connecting" => ~Fit(s)
    BY <1>1, FitRoom
  <2> QED  BY <1>1, <2>1, CloseConnServes, CloseConnFades DEF FlushRemain, Steady
<1>2. CASE ~(s.remain[c] # <<>> /\ Room(s, c) = "broken")
  <2> DEFINE t == Resend(s, c)
  <2>1. s \in Sys /\ s.rings \subseteq Conn /\ Own(s, c) /\ Sock(s, c) = c
    BY GoodSys, RingOwn DEF Sys, Good, Sound, RingsLive, Live
  <2>2. /\ Puts(s, t, c) /\ t.panic = s.panic /\ t.held = s.held
        /\ Takes(s, c) => Takes(t, c)
    BY <2>1, OwnOwns, ResendPuts
  <2>3. Moves(s, t, Anything)
    BY <2>1, ResendMoves
  <2>4. FlushRemain(s, c) = t
    BY <1>2 DEF FlushRemain
  <2> HIDE DEF t
  <2>5. Fades(s, t) /\ Good(t) /\ Wired(t) /\ Same(s, t)
    BY <2>2, <2>3, MovesWired DEF Moves, Closes, Puts
  <2>6. s.role[c] # "connecting" => Steady(s, t)
    BY <2>1, <2>2, PutsSteady
  <2> QED  BY <2>2, <2>4, <2>5, <2>6, PutsWorks
<1> QED  BY <1>1, <1>2

(* A handler that works for c and ends with the links in order.            *)
Serves(s, t, c) == Works(s, t, c) /\ Fades(s, t) /\ Good(t) /\ Wired(t)

LEMMA ServesSelf ==
    ASSUME NEW s, NEW c, Good(s), Wired(s)
    PROVE  Serves(s, s, c)
BY WorksSelf, SameFades DEF Serves, Same

(* What has no part in the output leaves who is connecting alone.          *)
LEMMA ApartServes ==
    ASSUME NEW s, NEW t, Apart(s, t), t.fd = s.fd
    PROVE  /\ \A c : Works(s, t, c)
           /\ Fit(s) => Fit(t)
           /\ t.panic = s.panic => Steady(s, t)
BY DEF Apart, Works, Steady, Fit, Idle, Takes

LEMMA ConsumeServes ==
    ASSUME NEW s, NEW c \in Conn, Good(s), Wired(s)
    PROVE  LET t == Consume(s, c)
           IN  /\ \A x : Serves(s, t, x)
               /\ t.held = s.held /\ t.rings = s.rings
               /\ c \in s.rings => Steady(s, t)
<1> DEFINE t == Consume(s, c)
<1>0. s \in Sys
  BY GoodSys
<1>1. Apart(s, t) /\ Same(s, t) /\ t.held = s.held
  BY <1>0, ConsumeApart, ConsumeParts
<1>2. Moves(s, t, Anything)
  BY ConsumeMoves
<1>3. c \in s.rings => t.panic = s.panic
  BY <1>0 DEF Consume, Sys
<1> HIDE DEF t
<1>4. Good(t) /\ Wired(t) /\ Fades(s, t)
  BY <1>2, MovesWired DEF Moves, Closes
<1>5. \A x : Works(s, t, x)
  BY <1>1, ApartServes DEF Same
<1>6. c \in s.rings => Steady(s, t)
  BY <1>1, <1>3, ApartServes DEF Same
<1> QED  BY <1>1, <1>4, <1>5, <1>6 DEF Serves, Same, t

LEMMA ReleaseParts ==
    ASSUME NEW s, NEW c \in Conn, Good(s)
    PROVE  LET t == Release(s, c)
           IN  /\ Apart(s, t) /\ Same(s, t) /\ t.held = s.held \ {c} /\ t \in Sys
               /\ c \in s.rings => t.panic = s.panic
<1> DEFINE t == Consume(s, c)
           u == [t EXCEPT !.held = t.held \ {c}]
<1>0. s \in Sys /\ t \in Sys
  BY GoodSys, ConsumeCloses DEF Closes
<1>1. Apart(s, t) /\ Same(s, t) /\ t.held = s.held
  BY <1>0, ConsumeApart, ConsumeParts
<1>2. c \in s.rings => t.panic = s.panic
  BY <1>0 DEF Consume, Sys
<1>3. Release(s, c) = u
  BY <1>0 DEF Release
<1> HIDE DEF t
<1>4. Apart(t, u) /\ Same(t, u) /\ u.held = t.held \ {c} /\ u.panic = t.panic /\ u \in Sys
  BY <1>0 DEF Sys, Apart, Same
<1> HIDE DEF u
<1> QED  BY <1>1, <1>2, <1>3, <1>4 DEF Apart, Same

LEMMA SendPendingServes ==
    ASSUME NEW s, NEW down \in Conn, NEW up \in Conn, Good(s), Wired(s), Own(s, up),
           s.peer[down] # Nil => s.role[s.peer[down]] # "connecting"
    PROVE  LET t == SendPending(s, down, up)
           IN  /\ Serves(s, t, up) /\ t.held = s.held \ {down}
               /\ up \in s.rings /\ s.role[up] # "connecting" /\ down \in s.rings
                     => Steady(s, t)
<1> DEFINE r == Flush(s, up, s.pend[down])
           t == Release(r, down)
           x == [t EXCEPT !.panic = TRUE]
           y == [t EXCEPT !.paused = t.paused \ {down}]
           v == SendPending(s, down, up)
<1>0. s.pend[down] \in Frame /\ s \in Sys
  BY HdrType, GoodSys
<1>1. Settles(s, v, Anything)
  <2>1. Allowed(s, Anything) /\ s.pend[down] \in Anything[up]
    BY <1>0, AnythingGoes
  <2> QED  BY <2>1, SendPendingSettles
<1>2. /\ Works(s, r, up) /\ Fades(s, r) /\ Good(r) /\ r.held = s.held
      /\ up \in s.rings /\ s.role[up] # "connecting" => Steady(s, r)
  BY <1>0, FlushServes
<1>3. /\ v \in {t, x, y}
      /\ down \in t.rings => v \in {t, y}
  BY DEF SendPending
<1> HIDE DEF r, v
<1>4. /\ Apart(r, t) /\ Same(r, t) /\ t.held = r.held \ {down} /\ t \in Sys
      /\ down \in r.rings => t.panic = r.panic
  BY <1>2, ReleaseParts
<1> HIDE DEF t
<1>5. /\ Apart(t, v) /\ v.fd = t.fd /\ v.rings = t.rings /\ v.held = t.held
      /\ down \in t.rings => v.panic = t.panic
  BY <1>3, <1>4 DEF Sys, Apart
<1> HIDE DEF x, y
<1>6. Apart(r, v) /\ v.fd = r.fd /\ v.held = s.held \ {down}
      /\ (down \in r.rings => v.panic = r.panic)
  BY <1>2, <1>4, <1>5 DEF Apart, Same
<1>7. Works(r, v, up) /\ (down \in r.rings => Steady(r, v))
  BY <1>6, ApartServes
<1>8. r.peer[up] \in {s.peer[up], Nil}
  BY <1>2 DEF Fades
<1>9. Works(s, v, up)
  BY <1>0, <1>2, <1>7, <1>8, WorksTrans
<1>10. up \in s.rings /\ s.role[up] # "connecting" /\ down \in s.rings => Steady(s, v)
  BY <1>2, <1>7 DEF Steady
<1> QED  BY <1>1, <1>6, <1>9, <1>10 DEF Serves, Settles, v

LEMMA ConnectFailedServes ==
    ASSUME NEW s, NEW c \in Conn, Good(s), Wired(s),
           c \in s.rings, s.role[c] = "connecting"
    PROVE  LET w == ConnectFailed(s, c)
           IN  /\ Serves(s, w, c) /\ c \notin w.rings /\ Mends(s, w)
               /\ w.held = s.held \ {s.peer[c]}
<1> DEFINE d == s.peer[c]
           t == CloseConn(s, c)
           u == Reply(t, d, t.pend[d].id)
           v == IF d \in u.held THEN Release(u, d) ELSE u
           w == ConnectFailed(s, c)
<1>1. d # Nil /\ d \in Conn /\ s.peer[d] = c /\ s.role[d] = "down"
  <2>1. s.peer[c] # Nil
    BY DEF Wired, IsUp
  <2>2. d \in Conn /\ s.peer[d] = c /\ c # Nil
    BY <2>1, PeerApart, ReactorAssumption DEF Good, Paired
  <2> QED  BY <2>1, <2>2 DEF Good, Paired, IsUp
<1>2. Own(s, d) /\ s \in Sys
  BY <1>1, ReactorAssumption, RingOwn, GoodSys DEF Wired
<1>3. /\ Works(s, t, c) /\ Mends(s, t) /\ (Fit(s) => d \in t.rings)
      /\ Fades(s, t) /\ Good(t) /\ Wired(t) /\ t.held = s.held /\ t.role = s.role
      /\ t.peer[d] \in {c, Nil} /\ c \notin t.rings
  BY <1>1, CloseConnServes, CloseConnFades
<1>4. w = [v EXCEPT !.peer[d] = Nil]
  BY <1>1 DEF ConnectFailed
<1>a. Settles(s, w, Anything) /\ c \notin w.rings
  BY AnythingGoes, ConnectFailedSettles, ConnectFailedWatches
<1> HIDE DEF t, d, w
<1>5. Own(t, d) /\ t.pend[d].id \in 0 .. MaxReq /\ t \in Sys
  BY <1>1, <1>2, <1>3, FadesOwn, HdrType, GoodSys
<1>6. /\ Works(t, u, d) /\ Fades(t, u) /\ Good(u) /\ u.held = t.held
      /\ d \in t.rings => Steady(t, u)
  BY <1>1, <1>3, <1>5, ReplyServes
<1> HIDE DEF u
<1>7. /\ Apart(u, v) /\ Same(u, v) /\ v.held = u.held \ {d} /\ v \in Sys
      /\ d \in u.rings => v.panic = u.panic
  <2>1. CASE d \in u.held
    BY <1>1, <1>6, <2>1, ReleaseParts
  <2>2. CASE d \notin u.held
    BY <1>6, <2>2, GoodSys DEF Apart, Same
  <2> QED  BY <2>1, <2>2
<1> HIDE DEF v
<1>8. Apart(v, w) /\ w.fd = v.fd /\ w.held = v.held /\ w.panic = v.panic
  BY <1>4, <1>7 DEF Sys, Apart
<1>9. Apart(u, w) /\ w.fd = u.fd /\ w.held = s.held \ {d}
      /\ (d \in u.rings => w.panic = u.panic)
  BY <1>3, <1>6, <1>7, <1>8 DEF Apart, Same
<1>10. Works(u, w, c) /\ (d \in u.rings => Steady(u, w))
  BY <1>9, ApartServes
<1>11. Works(s, u, c) /\ Fades(s, u)
  BY <1>1, <1>2, <1>3, <1>6, WorksTrans, FadesTrans DEF d
<1>12. Works(s, w, c)
  <2>1. u.peer[c] \in {c, s.peer[c], Nil}
    BY <1>11 DEF Fades
  <2> QED  BY <1>2, <1>10, <1>11, <2>1, WorksTrans
<1>13. Mends(s, w)
  BY <1>3, <1>6, <1>10 DEF Mends, Steady
<1> QED  BY <1>9, <1>a, <1>12, <1>13 DEF Serves, Settles, w, d

LEMMA ConnectOnlyServes ==
    ASSUME NEW s, NEW c \in Conn, Good(s), Wired(s), c \in s.rings,
           s.role[c] = "connecting"
    PROVE  LET v == ConnectOnly(s, c)
           IN  /\ Serves(s, v, c) /\ v.role[c] = "up" /\ v.peer = s.peer
               /\ v.rings = s.rings /\ v.held = s.held
               /\ v.tab = s.tab /\ v.fd = s.fd
               /\ s.tx[c] # "syn" /\ s.rx[c] # "err" => Steady(s, v)
<1> DEFINE a == [s.active EXCEPT ![s.ep[c]] = @ + 1]
           q == [s EXCEPT !.role[c] = "up"]
           t == [q EXCEPT !.active = a]
           v == ConnectOnly(s, c)
<1>1. s \in Sys /\ a \in [EP -> Int]
  <2>1. s.active \in [EP -> Int]
    BY DEF Good, Sound, Sys
  <2> QED  BY <2>1, GoodSys, CountType
<1>2. v = Mod(t, c, {"R", "W"})
  <2>1. t = [s EXCEPT !.role[c] = "up", !.active = a]
    BY <1>1 DEF Sys
  <2> QED  BY <2>1 DEF ConnectOnly
<1>3. Settles(s, v, Anything) /\ v.role[c] = "up" /\ v.peer = s.peer
      /\ v.tab = s.tab /\ v.fd = s.fd
  BY ConnectOnlySettles
<1> HIDE DEF a, v
<1>4. q \in Sys /\ q.role[c] = "up" /\ q.rings = s.rings
      /\ q.want = s.want /\ q.fd = s.fd /\ q.tx = s.tx /\ q.rx = s.rx
      /\ q.tab = s.tab /\ q.remain = s.remain /\ q.armed = s.armed
      /\ q.held = s.held /\ q.panic = s.panic
      /\ (\A x \in Conn : x # c => q.role[x] = s.role[x])
  BY <1>1 DEF Sys, Roles
<1> HIDE DEF q
<1>5. t \in Sys /\ t.role = q.role /\ t.rings = q.rings
      /\ t.want = q.want /\ t.fd = q.fd /\ t.tx = q.tx /\ t.rx = q.rx
      /\ t.tab = q.tab /\ t.remain = q.remain /\ t.armed = q.armed
      /\ t.held = q.held /\ t.panic = q.panic
  BY <1>1, <1>4 DEF Sys
<1> HIDE DEF t
<1>6. Owns(t, c)
  BY <1>4, <1>5 DEF Owns, Sock, Good, Sound, RingsLive, Live
<1>7. /\ Puts(t, v, c) /\ v.tx = t.tx /\ v.remain = t.remain
      /\ v.panic = t.panic /\ v.held = t.held
  BY <1>2, <1>5, <1>6, ModPuts
<1>8. Works(s, v, c)
  BY <1>4, <1>5, <1>7 DEF Works, Puts, Same
<1>9. ASSUME s.tx[c] # "syn", s.rx[c] # "err" PROVE Steady(s, v)
  <2>1. s.tx[c] \in {"open", "tight", "full", "syn", "broken"} /\ s.rings \subseteq Conn
    BY <1>1 DEF Sys
  <2>2. Fit(s) => Takes(v, c)
    BY <1>4, <1>5, <1>7, <1>9, <2>1 DEF Fit, Idle, Takes
  <2>3. ASSUME NEW x \in s.rings, x # c
        PROVE  v.role[x] = s.role[x] /\ v.tx[x] = s.tx[x] /\ v.rx[x] = s.rx[x]
               /\ v.remain[x] = s.remain[x]
    BY <1>4, <1>5, <1>7, <2>1, <2>3 DEF Puts, Same
  <2>4. v.rings = s.rings /\ v.panic = s.panic
    BY <1>4, <1>5, <1>7 DEF Puts, Same
  <2>5. ASSUME Fit(s) PROVE Fit(v)
    <3> SUFFICES ASSUME NEW x \in s.rings
                 PROVE  IF v.role[x] = "connecting" THEN Idle(v, x) ELSE Takes(v, x)
      BY <2>4 DEF Fit
    <3>1. CASE x = c
      BY <1>3, <2>2, <2>5, <3>1
    <3>2. CASE x # c
      BY <2>3, <2>5, <3>2 DEF Fit, Idle, Takes
    <3> QED  BY <3>1, <3>2
  <2> QED  BY <2>4, <2>5 DEF Steady
<1> QED  BY <1>3, <1>4, <1>5, <1>7, <1>8, <1>9 DEF Serves, Settles, Puts, Same, v

LEMMA FinishConnectServes ==
    ASSUME NEW s, NEW c \in Conn, Good(s), Wired(s),
           c \in s.rings, s.role[c] = "connecting"
    PROVE  LET w == FinishConnect(s, c)
           IN  /\ Serves(s, w, c) /\ w.held = s.held \ {s.peer[c]}
               /\ c \in w.rings => w.role[c] # "connecting"
               /\ s.tx[c] # "syn" \/ s.rx[c] = "err" => Mends(s, w)
<1> DEFINE d == s.peer[c]
           t == ConnectOnly(s, c)
           v == SendPending(t, d, c)
<1>1. LET w == ConnectFailed(s, c)
      IN  /\ Serves(s, w, c) /\ c \notin w.rings /\ Mends(s, w)
          /\ w.held = s.held \ {s.peer[c]}
  BY ConnectFailedServes
<1>2. /\ Serves(s, t, c) /\ t.role[c] = "up" /\ t.peer = s.peer
      /\ t.rings = s.rings /\ t.held = s.held
      /\ t.tab = s.tab /\ t.fd = s.fd
      /\ s.tx[c] # "syn" /\ s.rx[c] # "err" => Steady(s, t)
  BY ConnectOnlyServes
<1>3. ConnectMade(s, c) = IF d # Nil /\ d \in t.held THEN v ELSE t
  BY DEF ConnectMade
<1>4. d # Nil /\ d \in Conn /\ s.peer[d] = c /\ d \in s.held /\ d \in s.rings /\ s \in Sys
  <2>1. s.peer[c] # Nil /\ s.peer[c] \in s.held
    BY DEF Wired, IsUp
  <2>2. s.peer[c] \in Conn /\ s.peer[s.peer[c]] = c /\ c # Nil
    BY <2>1, PeerApart, ReactorAssumption DEF Good, Paired
  <2> QED  BY <2>1, <2>2, GoodSys DEF Wired
<1> HIDE DEF t
<1>5. Own(t, c) /\ Good(t) /\ Wired(t) /\ t.role[t.peer[d]] # "connecting"
  BY <1>2, <1>4, RingOwn DEF Serves
<1>6. /\ Serves(t, v, c) /\ v.held = t.held \ {d}
      /\ Steady(t, v)
  BY <1>2, <1>4, <1>5, SendPendingServes
<1>7. ConnectMade(s, c) = v
  BY <1>2, <1>3, <1>4
<1> HIDE DEF v, d
<1>8. Works(s, v, c) /\ Fades(s, v)
  <2>1. t.peer[c] \in {c, s.peer[c], Nil}
    BY <1>2
  <2> QED  BY <1>2, <1>4, <1>6, <2>1, WorksTrans, FadesTrans DEF Serves
<1>9. v.role[c] = "up"
  BY <1>2, <1>6 DEF Serves, Fades
<1>10. s.tx[c] # "syn" /\ s.rx[c] # "err" => Mends(s, v)
  BY <1>2, <1>6 DEF Mends, Steady
<1>11. Serves(s, v, c) /\ v.held = s.held \ {s.peer[c]}
  BY <1>2, <1>6, <1>8 DEF Serves, d
<1> QED  BY <1>1, <1>7, <1>9, <1>10, <1>11 DEF FinishConnect

LEMMA RingsOld ==
    ASSUME NEW s, Good(s)
    PROVE  s.rings \subseteq Conn /\ \A x \in s.rings : s.role[x] # "new"
<1>1. s \in Sys
  BY GoodSys
<1>2. s.rings \subseteq Conn
  BY <1>1 DEF Sys
<1> QED  BY <1>2 DEF Good, Sound, Blank

LEMMA HoldServes ==
    ASSUME NEW s, NEW c \in Conn, NEW h \in Frame, Good(s), Wired(s),
           s.role[c] = "down"
    PROVE  LET u == Hold(s, c, h)
           IN  /\ \A x : Serves(s, u, x)
               /\ Same(s, u) /\ Steady(s, u) /\ u.held = s.held \cup {c}
<1> DEFINE u == Hold(s, c, h)
<1>1. s \in Sys /\ Good(u) /\ Apart(s, u)
  BY GoodSys, HoldCloses, HoldApart DEF Closes
<1>2. Same(s, u) /\ u.held = s.held \cup {c} /\ u.panic = s.panic
  BY <1>1 DEF Hold, Sys, Same
<1> HIDE DEF u
<1>3. Wired(u) /\ Fades(s, u)
  BY <1>2, SameFades DEF Wired, Same, IsUp
<1>4. Steady(s, u) /\ \A x : Works(s, u, x)
  BY <1>1, <1>2, ApartServes DEF Same
<1> QED  BY <1>1, <1>2, <1>3, <1>4 DEF Serves, u

LEMMA OnPooledServes ==
    ASSUME NEW s, NEW c \in Conn, NEW h \in Frame, Good(s), Wired(s), c \in s.rings,
           s.role[c] = "down", s.peer[c] # Nil, s.role[s.peer[c]] = "up"
    PROVE  LET t == OnPooled(s, c, h)
           IN  Serves(s, t, s.peer[c]) /\ t.held = s.held \ {c} /\ Steady(s, t)
<1> DEFINE p == s.peer[c]
           u == Hold(s, c, h)
           t == OnPooled(s, c, h)
<1>1. p \in Conn /\ s.peer[p] = c /\ s \in Sys /\ c # Nil
  BY PeerApart, GoodSys, ReactorAssumption DEF Good, Paired
<1>2. t = SendPending(u, c, p)
  BY DEF OnPooled, Upstream
<1>3. Serves(s, u, p) /\ Same(s, u) /\ Steady(s, u) /\ u.held = s.held \cup {c}
  BY HoldServes
<1> HIDE DEF u, t
<1>4. /\ Good(u) /\ Wired(u) /\ Own(u, p) /\ p \in u.rings /\ c \in u.rings
      /\ u.peer[c] = p /\ u.role[p] = "up"
  <2>1. p \in s.rings
    BY <1>1 DEF Wired
  <2> QED  BY <1>1, <1>3, <2>1, RingOwn DEF Serves, Same
<1>5. Serves(u, t, p) /\ t.held = u.held \ {c} /\ Steady(u, t)
  BY <1>1, <1>2, <1>4, SendPendingServes
<1>6. Works(s, t, p) /\ Fades(s, t)
  <2>1. u.peer[p] \in {p, s.peer[p], Nil}
    BY <1>3 DEF Same
  <2> HIDE DEF p
  <2> QED  BY <1>1, <1>3, <1>5, <2>1, WorksTrans, FadesTrans DEF Serves
<1>7. Steady(s, t)
  BY <1>3, <1>5 DEF Steady
<1> QED  BY <1>3, <1>5, <1>6, <1>7 DEF Serves, t

(* A frame is written to p, and its payload taken off the ring of c.       *)
LEMMA RelayServes ==
    ASSUME NEW s, NEW c \in Conn, NEW p \in Conn, NEW f \in Frame, Good(s), Wired(s),
           p \in s.rings, s.role[p] # "connecting", c \in s.rings
    PROVE  LET t == Consume(Flush(s, p, f), c)
           IN  Serves(s, t, p) /\ t.held = s.held /\ Steady(s, t)
<1> DEFINE r == Flush(s, p, f)
           t == Consume(r, c)
<1>1. /\ Works(s, r, p) /\ Fades(s, r) /\ Good(r) /\ Wired(r) /\ r.held = s.held
      /\ Steady(s, r) /\ s \in Sys
  BY RingOwn, FlushServes, GoodSys
<1> HIDE DEF r
<1>2. Serves(r, t, p) /\ t.held = r.held /\ (c \in r.rings => Steady(r, t))
  BY <1>1, ConsumeServes
<1> HIDE DEF t
<1>3. Works(s, t, p) /\ Fades(s, t)
  <2>1. r.peer[p] \in {p, s.peer[p], Nil}
    BY <1>1 DEF Fades
  <2> QED  BY <1>1, <1>2, <2>1, WorksTrans, FadesTrans DEF Serves
<1>4. Steady(s, t)
  BY <1>1, <1>2 DEF Steady
<1> QED  BY <1>1, <1>2, <1>3, <1>4 DEF Serves, t, r

LEMMA OnNoDialServes ==
    ASSUME NEW s, NEW c \in Conn, NEW h \in Frame, Good(s), Wired(s), c \in s.rings,
           s.role[c] = "down"
    PROVE  LET t == OnNoDial(s, c, h)
           IN  Serves(s, t, c) /\ t.held = s.held /\ Steady(s, t)
<1>1. ErrorOf(h.id) \in Frame
  <2>1. h.id \in 0 .. MaxReq
    BY DEF Frame
  <2> QED  BY <2>1, MadeFrames
<1>2. OnNoDial(s, c, h) = Consume(Flush(s, c, ErrorOf(h.id)), c)
  BY DEF OnNoDial, Reply
<1> QED  BY <1>1, <1>2, RelayServes

LEMMA OnUpServes ==
    ASSUME NEW s, NEW c \in Conn, NEW h \in Frame, Good(s), Wired(s), c \in s.rings,
           s.role[c] = "up"
    PROVE  LET t == OnUp(s, c, h)
           IN  Serves(s, t, s.peer[c]) /\ t.held = s.held /\ Steady(s, t)
<1>1. s.peer[c] # Nil /\ s.peer[c] \in Conn /\ s.peer[s.peer[c]] = c /\ c # Nil
  BY PeerApart, ReactorAssumption DEF Good, Paired, Wired, IsUp
<1>2. s.peer[c] \in s.rings /\ s.role[s.peer[c]] = "down"
  BY <1>1 DEF Good, Paired, Wired, IsUp
<1> QED  BY <1>1, <1>2, RelayServes DEF OnUp

(* n is opened for c.  No one else's connect changes, and c's request      *)
(* waits for n if n connects.                                              *)
Opens(s, t, c, n) ==
    /\ s.rings \ {c} \subseteq t.rings /\ t.rings \subseteq s.rings \cup {n}
    /\ s.armed \subseteq s.rings => t.armed \subseteq t.rings
    /\ \A x \in Conn : x \in t.rings /\ x # n /\ s.role[x] # "down" =>
          /\ x \in s.rings /\ t.role[x] = s.role[x]
          /\ t.want[x] = s.want[x] /\ t.fd[x] = s.fd[x]
          /\ t.tx[x] = s.tx[x] /\ t.rx[x] = s.rx[x]
    /\ \A x \in t.rings : IsUp(s, x) => t.peer[x] = s.peer[x]
    /\ \A x \in Conn : s.role[x] = "down" => t.role[x] = "down"
    /\ t.held \subseteq s.held \cup {c}
    /\ IF t.role[n] = "connecting" THEN t.want[n] = {"W"} /\ t.peer[c] = n
       ELSE c \notin t.held
    /\ Fit(s) => Fit(t) /\ t.panic = s.panic /\ c \in t.rings

LEMMA AdoptServes ==
    ASSUME NEW s \in Sys, NEW n \in Conn, NEW f \in FD, NEW e \in EP \cup {Nil},
           NEW role \in {"down", "up", "connecting"}, NEW tx \in {"open", "syn"},
           s.remain[n] = <<>>, tx = "syn" => role = "connecting"
    PROVE  LET t == Adopt(s, n, f, role, e, tx)
           IN  /\ s.armed \subseteq s.rings => t.armed \subseteq t.rings
               /\ t.rings = s.rings \cup {n} /\ t.held = s.held /\ t.panic = s.panic
               /\ t.role[n] = role /\ (role = "connecting" => t.want[n] = {"W"})
               /\ \A x \in Conn : x # n =>
                     /\ t.role[x] = s.role[x] /\ t.want[x] = s.want[x]
                     /\ t.fd[x] = s.fd[x] /\ t.tx[x] = s.tx[x] /\ t.rx[x] = s.rx[x]
               /\ Fit(s) => Fit(t)
<1>a. PICK y \in Sys : /\ Adopt(s, n, f, role, e, tx) = Arm(y, n)
                       /\ Makes(s, y, n, f, e, role, tx)
  BY AdoptMakes
<1> DEFINE t == Arm(y, n)
<1>1. /\ y.rings = s.rings \cup {n} /\ y.remain = s.remain /\ y.held = s.held
      /\ y.rx = s.rx /\ y.armed = s.armed /\ y.panic = s.panic
      /\ y.role = [s.role EXCEPT ![n] = role] /\ y.tx = [s.tx EXCEPT ![n] = tx]
      /\ y.fd = [s.fd EXCEPT ![n] = f]
      /\ y.want = [s.want EXCEPT ![n] = IF role = "connecting" THEN {"W"} ELSE {"R"}]
  BY <1>a DEF Makes
<1>2. DOMAIN s.role = Conn /\ DOMAIN s.tx = Conn /\ DOMAIN s.want = Conn
      /\ DOMAIN s.fd = Conn /\ s.rings \subseteq Conn
  BY DEF Sys
<1>3. /\ y.role[n] = role /\ y.tx[n] = tx /\ (role = "connecting" => y.want[n] = {"W"})
      /\ \A x \in Conn : x # n =>
            /\ y.role[x] = s.role[x] /\ y.want[x] = s.want[x]
            /\ y.fd[x] = s.fd[x] /\ y.tx[x] = s.tx[x] /\ y.rx[x] = s.rx[x]
  BY <1>1, <1>2
<1>4. /\ Puts(y, t, n) /\ t.tx = y.tx /\ t.remain = y.remain
      /\ t.want = y.want /\ t.panic = y.panic /\ t.held = y.held
  <2>1. n \in y.rings
    BY <1>1
  <2> QED  BY <2>1, ArmPuts
<1> HIDE DEF t
<1>5. t.role = y.role /\ t.fd = y.fd /\ t.rx = y.rx /\ t.rings = y.rings
      /\ t.armed \subseteq y.armed \cup {n}
  BY <1>4 DEF Puts, Same
<1>6. ASSUME Fit(s) PROVE Fit(t)
  <2> SUFFICES ASSUME NEW x \in t.rings
               PROVE  IF t.role[x] = "connecting" THEN Idle(t, x) ELSE Takes(t, x)
    BY DEF Fit
  <2>1. CASE x = n
    <3>1. t.role[x] = role /\ t.tx[x] = tx /\ t.remain[x] = <<>>
      BY <1>1, <1>3, <1>4, <1>5, <2>1
    <3> QED  BY <3>1 DEF Idle, Takes
  <2>2. CASE x # n
    <3>1. x \in s.rings /\ x \in Conn
      BY <1>1, <1>2, <1>5, <2>2
    <3>2. /\ t.role[x] = s.role[x] /\ t.tx[x] = s.tx[x] /\ t.rx[x] = s.rx[x]
          /\ t.remain[x] = s.remain[x]
      BY <1>1, <1>3, <1>4, <1>5, <2>2, <3>1
    <3> QED  BY <1>6, <3>1, <3>2 DEF Fit, Idle, Takes
  <2> QED  BY <2>1, <2>2
<1> QED  BY <1>a, <1>1, <1>3, <1>4, <1>5, <1>6 DEF t

LEMMA OnDialledOpens ==
    ASSUME NEW s, NEW c \in Conn, NEW h \in Frame, NEW e \in EP,
           NEW n \in Conn, NEW f \in FD, NEW how,
           Good(s), Wired(s), c \in s.rings, s.role[c] = "down", s.peer[c] = Nil,
           s.role[n] = "new", s.tab[f] = Nil, s.remain[n] = <<>>
    PROVE  Opens(s, OnDialled(s, c, h, e, n, f, how), c, n)
<1> DEFINE sock == IF how = "instant" THEN "open" ELSE "syn"
           kind == DialRole(how)
           t == Adopt(s, n, f, kind, e, sock)
           l == [t EXCEPT !.peer[n] = c, !.peer[c] = n]
           u == Hold(l, c, h)
           v == SendPending(u, c, n)
<1>1. /\ sock \in {"open", "syn"} /\ kind \in {"up", "connecting"} /\ s \in Sys
      /\ kind \in {"down", "up", "connecting"} /\ e \in EP \cup {Nil}
      /\ sock = "syn" => kind = "connecting"
  BY GoodSys DEF DialRole
<1>2. OnDialled(s, c, h, e, n, f, how) = IF kind = "up" THEN v ELSE u
  BY DEF OnDialled
<1> HIDE DEF sock, kind
<1>3. /\ t \in Sys /\ t.rings = s.rings \cup {n} /\ t.peer = s.peer /\ t.held = s.held
      /\ Adopted(s, t, n, kind)
  BY <1>1, AdoptParts, AdoptGood
<1>4. /\ s.armed \subseteq s.rings => t.armed \subseteq t.rings
      /\ t.panic = s.panic
      /\ t.role[n] = kind /\ (kind = "connecting" => t.want[n] = {"W"})
      /\ \A x \in Conn : x # n =>
            /\ t.role[x] = s.role[x] /\ t.want[x] = s.want[x]
            /\ t.fd[x] = s.fd[x] /\ t.tx[x] = s.tx[x] /\ t.rx[x] = s.rx[x]
      /\ Fit(s) => Fit(t)
  BY <1>1, AdoptServes
<1> HIDE DEF t
<1>5. n # c /\ s.peer[n] = Nil /\ IsUp(t, n) /\ t.role[c] = "down" /\ n \notin s.rings
  <2>1. s.peer[n] = Nil /\ n \notin s.rings
    BY DEF Good, Sound, Blank
  <2> QED  BY <1>1, <1>4, <2>1 DEF IsUp
<1>6. Good(l)
  BY <1>3, <1>5, LinkGood DEF Adopted
<1>7. /\ Apart(t, l) /\ l.fd = t.fd /\ l.panic = t.panic /\ l.held = t.held
      /\ l.peer[n] = c /\ l.peer[c] = n
      /\ \A x \in Conn : x \notin {c, n} => l.peer[x] = t.peer[x]
  BY <1>3, <1>5 DEF Sys, Apart
<1> HIDE DEF l
<1>8. /\ Apart(l, u) /\ Same(l, u) /\ Good(u) /\ u.held = l.held \cup {c}
      /\ u.panic = l.panic
  <2>1. l \in Sys /\ Apart(l, u) /\ Good(u)
    BY <1>6, GoodSys, HoldApart, HoldCloses DEF Closes
  <2>2. Same(l, u) /\ u.held = l.held \cup {c} /\ u.panic = l.panic
    BY <2>1 DEF Hold, Sys, Same
  <2> QED  BY <2>1, <2>2
<1> HIDE DEF u, v
<1>9. Apart(t, u) /\ u.fd = t.fd /\ u.panic = s.panic /\ u.held = s.held \cup {c}
      /\ u.peer[c] = n /\ u.peer[n] = c /\ u.rings = s.rings \cup {n}
      /\ \A x \in Conn : x \notin {c, n} => u.peer[x] = s.peer[x]
  BY <1>3, <1>4, <1>7, <1>8 DEF Apart, Same
<1>10. Fit(s) => Fit(u)
  BY <1>4, <1>9, ApartServes
<1>11. /\ s.armed \subseteq s.rings => u.armed \subseteq u.rings
       /\ u.role[n] = kind /\ u.role[c] = "down"
       /\ kind = "connecting" => u.want[n] = {"W"}
       /\ \A x \in Conn : x # n =>
             /\ u.role[x] = s.role[x] /\ u.want[x] = s.want[x]
             /\ u.fd[x] = s.fd[x] /\ u.tx[x] = s.tx[x] /\ u.rx[x] = s.rx[x]
  BY <1>4, <1>5, <1>9 DEF Apart
<1>12. CASE kind = "connecting"
  <2>1. \A x \in u.rings : IsUp(s, x) => u.peer[x] = s.peer[x]
    BY <1>8, <1>9, RingsOld DEF IsUp
  <2>2. \A x \in Conn : s.role[x] = "down" => u.role[x] = "down"
    BY <1>11
  <2> QED  BY <1>2, <1>9, <1>10, <1>11, <1>12, <2>1, <2>2 DEF Opens
<1>13. CASE kind = "up"
  <2>1. Wired(u)
    <3> SUFFICES ASSUME NEW x \in Conn
                 PROVE  /\ u.peer[x] # Nil => x \in u.rings
                        /\ x \in u.rings /\ IsUp(u, x) => u.peer[x] # Nil
                        /\ x \in u.rings /\ u.role[x] = "connecting"
                              => u.peer[x] \in u.held
      BY DEF Wired
    <3>1. CASE x = n
      BY <1>9, <1>11, <1>13, <3>1, ReactorAssumption
    <3>2. CASE x = c
      BY <1>9, <1>11, <3>2 DEF IsUp
    <3>3. CASE x \notin {c, n}
      BY <1>9, <1>11, <3>3 DEF Wired, IsUp
    <3> QED  BY <3>1, <3>2, <3>3
  <2>2. Own(u, n)
    BY <1>8, <1>9, RingOwn
  <2>3. /\ Serves(u, v, n) /\ v.held = u.held \ {c} /\ Steady(u, v)
    BY <1>8, <1>9, <1>11, <1>13, <2>1, <2>2, SendPendingServes DEF v
  <2>4. v.role[n] # "connecting"
    BY <1>11, <1>13, <2>3 DEF Serves, Fades
  <2>5. s.rings \ {c} \subseteq v.rings /\ v.rings \subseteq s.rings \cup {n}
    BY <1>5, <1>9, <2>3 DEF Serves, Works
  <2>6. Fit(s) => Fit(v) /\ v.panic = s.panic /\ c \in v.rings
    BY <1>9, <1>10, <2>3 DEF Steady
  <2>7. s.armed \subseteq s.rings => v.armed \subseteq v.rings
    BY <1>11, <2>3 DEF Serves, Works
  <2>8. ASSUME NEW x \in Conn, x \in v.rings, x # n, s.role[x] # "down"
        PROVE  /\ x \in s.rings /\ v.role[x] = s.role[x]
               /\ v.want[x] = s.want[x] /\ v.fd[x] = s.fd[x]
               /\ v.tx[x] = s.tx[x] /\ v.rx[x] = s.rx[x]
    <3>1. u.role[x] # "down" /\ x \in u.rings
      BY <1>11, <2>3, <2>8 DEF Serves, Works
    <3> QED  BY <1>9, <1>11, <2>3, <2>8, <3>1 DEF Serves, Works
  <2>9. v.held \subseteq s.held \cup {c} /\ c \notin v.held
    BY <1>9, <2>3
  <2>10. ASSUME NEW x \in v.rings, IsUp(s, x) PROVE v.peer[x] = s.peer[x]
    <3>1. x \in Conn
      BY <2>3, <2>10, RingsOld DEF Serves
    <3>2. x \notin {c, n} /\ IsUp(u, x)
      BY <1>11, <2>10, <3>1 DEF IsUp
    <3>3. u.peer[x] = s.peer[x] /\ v.peer[x] = u.peer[x]
      BY <1>9, <2>3, <2>10, <3>1, <3>2 DEF Serves, Fades
    <3> QED  BY <3>3
  <2>11. \A x \in Conn : s.role[x] = "down" => v.role[x] = "down"
    BY <1>11, <2>3 DEF Serves, Fades
  <2> QED
    BY <1>2, <1>13, <2>4, <2>5, <2>6, <2>7, <2>8, <2>9, <2>10, <2>11 DEF Opens
<1> QED  BY <1>1, <1>12, <1>13

(* A request kept for later waits for a connect in progress.               *)
Held(s) ==
    \A x \in s.held \cap s.rings : s.peer[x] # Nil /\ s.role[s.peer[x]] = "connecting"

(* Whoever connects in t connected in s, or is new.                        *)
Minds(s, t) ==
    /\ s.armed \subseteq s.rings => t.armed \subseteq t.rings
    /\ \A x \in t.rings : t.role[x] = "connecting" =>
          \/ /\ x \in s.rings /\ t.role[x] = s.role[x]
             /\ t.want[x] = s.want[x] /\ t.fd[x] = s.fd[x]
             /\ t.tx[x] = s.tx[x] /\ t.rx[x] = s.rx[x]
          \/ s.role[x] = "new" /\ t.want[x] \subseteq {"W"}

(* Nothing of it changes.                                                  *)
Bides(s, t) ==
    /\ t.rings = s.rings /\ t.role = s.role /\ t.want = s.want /\ t.fd = s.fd
    /\ t.tx = s.tx /\ t.rx = s.rx /\ t.remain = s.remain
    /\ t.peer = s.peer /\ t.held = s.held /\ t.armed \subseteq s.armed

LEMMA BidesMinds ==
    ASSUME NEW s, NEW t, Bides(s, t)
    PROVE  /\ Minds(s, t) /\ (Held(s) => Held(t)) /\ (Fit(s) => Fit(t))
           /\ t.panic = s.panic => Steady(s, t)
BY DEF Bides, Minds, Held, Fit, Idle, Takes, Steady

LEMMA ServesMinds ==
    ASSUME NEW s, NEW t, NEW c, Serves(s, t, c),
           c \in t.rings => t.role[c] # "connecting"
    PROVE  Minds(s, t)
<1> SUFFICES ASSUME NEW x \in t.rings, t.role[x] = "connecting"
             PROVE  /\ x \in s.rings /\ t.role[x] = s.role[x]
                    /\ t.want[x] = s.want[x] /\ t.fd[x] = s.fd[x]
                    /\ t.tx[x] = s.tx[x] /\ t.rx[x] = s.rx[x]
  BY DEF Minds, Serves, Works
<1>1. x \in Conn /\ x # c
  BY RingsOld DEF Serves
<1>2. s.role[x] = "connecting"
  BY <1>1 DEF Serves, Fades
<1> QED  BY <1>1, <1>2 DEF Serves, Works

LEMMA ServesHeld ==
    ASSUME NEW s, NEW t, NEW c \in Conn, Good(s), Wired(s), Held(s), Serves(s, t, c),
           t.held \subseteq s.held,
           c \notin t.held \/ c \notin t.rings,
           s.peer[c] \in t.held \cap t.rings => s.role[c] # "connecting"
    PROVE  Held(t)
<1> SUFFICES ASSUME NEW x \in t.held \cap t.rings
             PROVE  t.peer[x] # Nil /\ t.role[t.peer[x]] = "connecting"
  BY DEF Held
<1> DEFINE p == s.peer[x]
<1>1. x \in Conn /\ x \in s.held /\ x \in s.rings /\ x # Nil /\ c # Nil
  <2>1. x \in s.rings
    BY DEF Serves, Works
  <2> QED  BY <2>1, RingsOld, ReactorAssumption
<1>2. p # Nil /\ s.role[p] = "connecting"
  BY <1>1 DEF Held
<1>3. p \in Conn /\ s.peer[p] = x
  BY <1>1, <1>2, PeerApart DEF Good, Paired
<1> HIDE DEF p
<1>4. p \in s.rings
  BY <1>1, <1>3 DEF Wired
<1>5. p # c
  BY <1>2, <1>3
<1>6. p # s.peer[c]
  <2>1. s.peer[c] # Nil => s.peer[s.peer[c]] = c
    BY DEF Good, Paired
  <2> QED  BY <1>2, <1>3, <2>1
<1>7. p \in t.rings /\ t.role[p] = "connecting"
  BY <1>2, <1>3, <1>4, <1>5, <1>6 DEF Serves, Works
<1>8. t.peer[p] = x
  BY <1>2, <1>3, <1>7 DEF Serves, Fades, IsUp
<1>9. t.peer[x] = p
  BY <1>1, <1>3, <1>8 DEF Serves, Good, Paired
<1> QED  BY <1>2, <1>7, <1>9

LEMMA OpensMinds ==
    ASSUME NEW s, NEW t, NEW c \in Conn, NEW n \in Conn, Good(s), Good(t),
           Opens(s, t, c, n), s.role[n] = "new"
    PROVE  Minds(s, t)
<1> SUFFICES ASSUME NEW x \in t.rings, t.role[x] = "connecting"
             PROVE  \/ /\ x \in s.rings /\ t.role[x] = s.role[x]
                       /\ t.want[x] = s.want[x] /\ t.fd[x] = s.fd[x]
                       /\ t.tx[x] = s.tx[x] /\ t.rx[x] = s.rx[x]
                    \/ s.role[x] = "new" /\ t.want[x] \subseteq {"W"}
  BY DEF Minds, Opens
<1>1. CASE x = n
  BY <1>1 DEF Opens
<1>2. CASE x # n /\ s.role[x] # "down"
  BY <1>2, RingsOld DEF Opens
<1>3. s.role[x] # "down"
  BY RingsOld DEF Opens
<1> QED  BY <1>1, <1>2, <1>3

LEMMA OpensHeld ==
    ASSUME NEW s, NEW t, NEW c \in Conn, NEW n \in Conn, Good(s), Good(t), Wired(s),
           Held(s), Opens(s, t, c, n), s.role[c] = "down", s.role[n] = "new",
           n \notin s.held
    PROVE  Held(t)
<1> SUFFICES ASSUME NEW x \in t.held \cap t.rings
             PROVE  t.peer[x] # Nil /\ t.role[t.peer[x]] = "connecting"
  BY DEF Held
<1>1. CASE x = c
  BY <1>1, ReactorAssumption DEF Opens
<1>2. CASE x # c
  <2> DEFINE p == s.peer[x]
  <2>1. x \in s.held /\ x # n /\ x \in s.rings /\ x \in Conn /\ x # Nil
    <3>1. x \in s.held /\ x # n
      BY <1>2 DEF Opens
    <3>2. x \in s.rings
      BY <3>1 DEF Opens
    <3> QED  BY <3>1, <3>2, RingsOld, ReactorAssumption
  <2>2. p # Nil /\ s.role[p] = "connecting"
    BY <2>1 DEF Held
  <2>3. p \in Conn /\ s.peer[p] = x
    BY <2>1, <2>2, PeerApart DEF Good, Paired
  <2> HIDE DEF p
  <2>4. p \in s.rings /\ p # c /\ p # n
    BY <2>1, <2>2, <2>3 DEF Wired
  <2>5. p \in t.rings /\ t.role[p] = "connecting" /\ t.peer[p] = x
    BY <2>2, <2>3, <2>4 DEF Opens, IsUp
  <2>6. t.peer[x] = p
    BY <2>1, <2>3, <2>5 DEF Good, Paired
  <2> QED  BY <2>2, <2>5, <2>6
<1> QED  BY <1>1, <1>2

----------------------------------------------------------------------------
(* The steps of the goroutine.                                             *)

(* x waits for its connect: nothing but the end of it is reported, and the *)
(* reactor reads it not.                                                   *)
Awaits(x) ==
    /\ sys.want[x] \subseteq {"W"}
    /\ \A i \in DOMAIN batch : batch[i][1] = sys.fd[x] =>
          /\ "R" \notin batch[i][2]
          /\ "W" \in batch[i][2] => sys.tx[x] # "syn"
          /\ "E" \in batch[i][2] => sys.rx[x] = "err"
    /\ x \notin sys.paused /\ ~Served(x)
AwaitInv ==
    ~sys.panic =>
        /\ sys.armed \subseteq sys.rings
        /\ \A x \in sys.rings : sys.role[x] = "connecting" => Awaits(x)

(* A descriptor of which an event of the last Wait is still to be handled  *)
(* is opened again for another connection.                                 *)
Recycles ==
    \E f \in FD : /\ \E i \in DOMAIN batch' : batch'[i][1] = f
                  /\ sys'.tab[f] # Nil /\ sys'.tab[f] # sys.tab[f]

(* A connect that a client waits for is closed under it, by the sweep of   *)
(* idle connections or the shutdown.                                       *)
GivesUp ==
    /\ SweepIdle \/ ShutdownOne
    /\ \E c \in sys.rings : /\ sys.role[c] = "connecting" /\ c \notin sys'.rings
                            /\ sys.peer[c] \in sys'.rings

(* A client's CLOSE frame is dispatched.                                   *)
Departs == /\ Dispatch /\ sys.role[cur] = "down"
           /\ NextFrame(sys, cur).op = "CLOSE"

Lands(t) == sys' = IF t.panic THEN [sys EXCEPT !.panic = TRUE] ELSE t

LEMMA ThenLands ==
    ASSUME NEW t, NEW p, NEW c, NEW r,
           Then(t, p, c, r) \/ Goto(t, p) \/ ThenResume(t, p)
    PROVE  Lands(t)
BY DEF Then, Goto, ThenResume, Lands

LEMMA LandsOn ==
    ASSUME NEW t, sys \in Sys, Lands(t), ~sys'.panic
    PROVE  sys' = t
BY DEF Lands, Sys

(* Of the state t a step makes.                                            *)
Minding(t) ==
    /\ Lands(t) /\ Minds(sys, t)
    /\ \A x \in t.paused : x \in sys.paused \/ t.role[x] # "connecting"
    /\ pc' \in Inner /\ cur' \in t.rings => t.role[cur'] # "connecting"
Keeping(t) == Held(sys) /\ sys' = t /\ ~GivesUp => Held(t)
Sparing(t) ==
    Fit(sys) /\ (pc = "parse" => cur \in sys.rings)
        => /\ Fit(t) /\ t.panic = sys.panic
           /\ pc' = "parse" => cur' \in t.rings \/ Departs
Proceeds == \E t : Minding(t) /\ Keeping(t) /\ Sparing(t)

LEMMA NextAwait ==
    ASSUME LinkInv, AwaitInv, ~sys.panic, Good(sys'), ~sys'.panic, ~Recycles,
           NEW t, Minding(t),
           \A i \in DOMAIN batch' : \E j \in DOMAIN batch : batch'[i] = batch[j]
    PROVE  AwaitInv'
<1>1. sys \in Sys /\ Good(sys)
  BY GoodSys DEF LinkInv, FlowInv, IInv
<1>2. sys' = t /\ Good(sys')
  BY <1>1, LandsOn DEF Minding
<1>3. Minds(sys, sys')
  BY <1>2 DEF Minding
<1>4. sys.armed \subseteq sys.rings
  BY DEF AwaitInv
<1> SUFFICES ASSUME NEW x \in sys'.rings, sys'.role[x] = "connecting"
             PROVE  Awaits(x)'
  BY <1>3, <1>4 DEF AwaitInv, Minds
<1>5. x \in Conn
  BY <1>2, RingsOld
<1>6. pc' \in Inner => cur' # x
  BY <1>2 DEF Minding
<1>7. CASE /\ x \in sys.rings /\ sys'.role[x] = sys.role[x]
           /\ sys'.want[x] = sys.want[x] /\ sys'.fd[x] = sys.fd[x]
           /\ sys'.tx[x] = sys.tx[x] /\ sys'.rx[x] = sys.rx[x]
  <2>1. Awaits(x)
    BY <1>7 DEF AwaitInv
  <2>2. x \notin sys'.paused
    BY <1>2, <1>7, <2>1 DEF Minding, Awaits
  <2>3. ASSUME NEW i \in DOMAIN batch', batch'[i][1] = sys'.fd[x]
        PROVE  /\ "R" \notin batch'[i][2]
               /\ "W" \in batch'[i][2] => sys'.tx[x] # "syn"
               /\ "E" \in batch'[i][2] => sys'.rx[x] = "err"
    <3>1. PICK j \in DOMAIN batch : batch'[i] = batch[j]
      OBVIOUS
    <3> QED  BY <1>7, <2>1, <2>3, <3>1 DEF Awaits
  <2> QED  BY <1>6, <1>7, <2>1, <2>2, <2>3 DEF Awaits, Served
<1>8. CASE sys.role[x] = "new" /\ sys'.want[x] \subseteq {"W"}
  <2> DEFINE f == sys'.fd[x]
  <2>1. f \in FD /\ sys'.tab[f] = x /\ x # Nil
    <3>1. sys' \in Sys
      BY <1>2, GoodSys
    <3>2. sys'.fd[x] \in FD
      BY <1>5, <3>1 DEF Sys
    <3> QED  BY <1>2, <1>5, <3>2, ReactorAssumption DEF Good, Sound, RingsLive, Live, Sock
  <2>2. sys.tab[f] # x
    <3>1. x \notin sys.rings
      BY <1>1, <1>8, RingsOld
    <3>2. sys.tab[f] = x => sys.fd[x] = f
      BY <1>1, <2>1 DEF Good, Sound, TableOwned
    <3> QED  BY <1>1, <1>5, <3>1, <3>2 DEF Good, Sound, RingsLive, Live, Sock
  <2>3. ~ \E i \in DOMAIN batch' : batch'[i][1] = f
    BY <2>1, <2>2 DEF Recycles
  <2>4. x \notin sys'.paused
    BY <1>1, <1>2, <1>5, <1>8 DEF Minding, Good, Sound, Blank
  <2> QED  BY <1>6, <1>8, <2>3, <2>4 DEF Awaits, Served
<1> QED  BY <1>3, <1>7, <1>8 DEF Minds

LEMMA LinkParts ==
    ASSUME LinkInv
    PROVE  /\ sys \in Sys /\ Good(sys) /\ Wired(sys) /\ IInv
           /\ pc \in Inner => cur \in Conn
BY GoodSys DEF LinkInv, FlowInv, IInv, LoopsOK, Inner

LEMMA BidesProceeds ==
    ASSUME NEW t, Lands(t), Bides(sys, t), t.panic = sys.panic,
           \A x \in t.paused : x \in sys.paused \/ t.role[x] # "connecting",
           pc' \in Inner /\ cur' \in t.rings => t.role[cur'] # "connecting",
           (pc = "parse" => cur \in sys.rings) /\ pc' = "parse" => cur' \in t.rings
    PROVE  Proceeds
<1>1. /\ Minds(sys, t) /\ (Held(sys) => Held(t)) /\ Steady(sys, t)
  BY BidesMinds
<1>2. Minding(t) /\ Keeping(t) /\ Sparing(t)
  BY <1>1 DEF Minding, Keeping, Sparing, Steady
<1> QED  BY <1>2 DEF Proceeds

LEMMA ServesProceeds ==
    ASSUME LinkInv, NEW t, NEW c \in Conn, Lands(t), Serves(sys, t, c),
           c \in t.rings => t.role[c] # "connecting",
           t.held \subseteq sys.held,
           Held(sys) /\ sys' = t /\ ~GivesUp =>
              /\ c \notin t.held \/ c \notin t.rings
              /\ sys.peer[c] \in t.held \cap t.rings => sys.role[c] # "connecting",
           \A x \in t.paused : x \in sys.paused \/ t.role[x] # "connecting",
           pc' \in Inner /\ cur' \in t.rings => t.role[cur'] # "connecting",
           Sparing(t)
    PROVE  Proceeds
<1>1. Minds(sys, t)
  BY ServesMinds
<1>2. Keeping(t)
  BY LinkParts, ServesHeld DEF Keeping
<1>3. Minding(t)
  BY <1>1 DEF Minding
<1> QED  BY <1>2, <1>3 DEF Proceeds

LEMMA CloseServes ==
    ASSUME NEW s, NEW c \in Conn, Good(s), Wired(s)
    PROVE  LET t == CloseConn(s, c)
           IN  /\ Serves(s, t, c) /\ Mends(s, t) /\ c \notin t.rings
               /\ t.held = s.held /\ t.paused = s.paused
BY CloseConnServes, CloseConnFades, CloseConnCloses DEF Serves, Closes

LEMMA ReadProceeds ==
    ASSUME LinkInv, AwaitInv, Read
    PROVE  Proceeds
<1>1. /\ Good(sys) /\ sys \in Sys /\ Wired(sys) /\ cur \in Conn /\ pc = "read"
      /\ ~sys.panic /\ ret \notin Inner
  BY LinkParts DEF IInv, LoopsOK, Inner, Read, ReadGone, ReadPauses, ReadReturns,
                   ReadCloses, ReadSome, Reading, At, Running
<1>2. cur \in sys.rings => sys.role[cur] # "connecting"
  BY <1>1 DEF AwaitInv, Awaits, Served, Inner
<1>3. CASE ReadGone \/ ReadReturns
  <2>1. Lands(sys) /\ pc' = ret
    BY <1>3, ThenLands DEF ReadGone, ReadReturns, Goto, Then
  <2>2. Bides(sys, sys)
    BY DEF Bides
  <2> QED  BY <1>1, <2>1, <2>2, BidesProceeds DEF Inner
<1>4. CASE ReadPauses
  <2> DEFINE P == sys.paused \cup {cur}
             t == [sys EXCEPT !.paused = P]
  <2>1. Lands(t) /\ pc' = ret
    BY <1>4, ThenLands DEF ReadPauses, Goto, Then
  <2>2. Bides(sys, t) /\ t.panic = sys.panic /\ t.paused = P /\ t.role = sys.role
    BY <1>1 DEF Bides, Sys
  <2> HIDE DEF t
  <2>3. cur \in sys.rings
    BY <1>4 DEF ReadPauses
  <2> QED  BY <1>1, <1>2, <2>1, <2>2, <2>3, BidesProceeds DEF Inner
<1>5. CASE ReadCloses
  <2> DEFINE t == CloseConn(sys, cur)
  <2>1. Lands(t) /\ pc' = ret /\ cur \in sys.rings
    BY <1>5, ThenLands DEF ReadCloses, Goto, Then
  <2>2. /\ Serves(sys, t, cur) /\ Mends(sys, t) /\ cur \notin t.rings
        /\ t.held = sys.held /\ t.paused = sys.paused
    BY <1>1, CloseServes
  <2> HIDE DEF t
  <2>3. Sparing(t)
    BY <1>1, <2>1, <2>2 DEF Sparing, Mends, Inner
  <2> QED  BY <1>1, <1>2, <2>1, <2>2, <2>3, ServesProceeds DEF Inner
<1>6. CASE ReadSome
  <2> DEFINE in == sys.inbox[cur]
  <2>1. PICK n \in 1 .. Free(sys, cur) :
           /\ n <= Len(in)
           /\ Goto([sys EXCEPT !.ring[cur] = @ \o SubSeq(in, 1, n),
                               !.inbox[cur] = SubSeq(in, n + 1, Len(in))], "parse")
    BY <1>6 DEF ReadSome
  <2> DEFINE r == sys.ring[cur] \o SubSeq(in, 1, n)
             w == SubSeq(in, n + 1, Len(in))
             t == [sys EXCEPT !.ring[cur] = r, !.inbox[cur] = w]
  <2>2. Goto(t, "parse")
    BY <2>1
  <2> HIDE DEF r, w
  <2>3. Bides(sys, t) /\ t.panic = sys.panic /\ t.paused = sys.paused
    BY <1>1 DEF Sys, Bides
  <2> HIDE DEF t
  <2>4. Lands(t) /\ pc' = "parse" /\ cur' = cur
    BY <2>2, ThenLands DEF Goto, Then
  <2>5. cur \in sys.rings /\ t.rings = sys.rings /\ t.role = sys.role
    BY <1>6, <2>3 DEF ReadSome, Bides
  <2> QED  BY <1>2, <2>3, <2>4, <2>5, BidesProceeds
<1> QED  BY <1>3, <1>4, <1>5, <1>6 DEF Read

LEMMA EndingProceeds ==
    ASSUME LinkInv, AwaitInv, Ending
    PROVE  Proceeds
<1>1. /\ Good(sys) /\ sys \in Sys /\ Wired(sys) /\ ~sys.panic /\ pc \notin Inner
  BY LinkParts DEF Ending, SweepIdle, Stop, ShutdownOne, ShutdownEnds, At, Running, Inner
<1>2. CASE Stop \/ ShutdownEnds
  <2>1. Lands(sys) /\ pc' \notin Inner
    BY <1>2, ThenLands DEF Stop, ShutdownEnds, Goto, Then, Inner
  <2>2. Bides(sys, sys)
    BY DEF Bides
  <2> QED  BY <2>1, <2>2, BidesProceeds DEF Inner
<1>3. CASE SweepIdle \/ ShutdownOne
  <2>1. PICK c \in Conn : /\ Live(sys, c)
                          /\ \/ Goto(CloseConn(sys, c), "loop")
                             \/ Goto(CloseConn(sys, c), "shutdown")
    BY <1>3 DEF SweepIdle, ShutdownOne
  <2> DEFINE t == CloseConn(sys, c)
  <2>2. Lands(t) /\ pc' \notin Inner
    BY <2>1, ThenLands DEF Goto, Then, Inner
  <2>3. /\ Serves(sys, t, c) /\ Mends(sys, t) /\ c \notin t.rings
        /\ t.held = sys.held /\ t.paused = sys.paused
    BY <1>1, CloseServes
  <2> HIDE DEF t
  <2>4. Sparing(t)
    BY <2>2, <2>3 DEF Sparing, Mends, Inner
  <2>5. c \in sys.rings
    BY <1>1, <2>1 DEF Good, Sound, RingsLive
  <2>6. ASSUME sys' = t, ~GivesUp, sys.peer[c] \in t.rings
        PROVE  sys.role[c] # "connecting"
    BY <1>3, <2>3, <2>5, <2>6 DEF GivesUp
  <2> QED  BY <2>2, <2>3, <2>4, <2>6, ServesProceeds
<1> QED  BY <1>2, <1>3 DEF Ending

LEMMA AcceptProceeds ==
    ASSUME LinkInv, Private, AwaitInv, Accept \/ AcceptDrops \/ AcceptAgain \/ AcceptFails
    PROVE  Proceeds
<1>1. /\ Good(sys) /\ sys \in Sys /\ Wired(sys) /\ Unused(sys) /\ ~sys.panic /\ pc \notin Inner
  BY LinkParts DEF LinkInv, FlowInv, Tidy, Accept, AcceptThen, AcceptDrops, AcceptAgain,
                   AcceptFails, At, Running, Inner
<1>2. CASE AcceptDrops \/ AcceptAgain \/ AcceptFails
  <2>1. Lands(sys) /\ pc' \notin Inner
    BY <1>2, ThenLands DEF AcceptDrops, AcceptAgain, AcceptFails, Goto, Then, Inner
  <2>2. Bides(sys, sys)
    BY DEF Bides
  <2> QED  BY <2>1, <2>2, BidesProceeds DEF Inner
<1>3. CASE Accept
  <2> DEFINE n == Fresh(sys)
             f == FreeFD(sys)
             t == Adopt(sys, n, f, "down", Nil, "open")
  <2>1. n \in Conn /\ sys.role[n] = "new" /\ f \in FD /\ sys.tab[f] = Nil
    BY <1>1, <1>3, FreshType DEF Accept, AcceptThen
  <2>2. Lands(t) /\ pc' = "read" /\ cur' = n
    BY <1>3, ThenLands DEF Accept, AcceptThen, Then
  <2> HIDE DEF n, f
  <2>3. /\ sys.armed \subseteq sys.rings => t.armed \subseteq t.rings
        /\ t.rings = sys.rings \cup {n} /\ t.held = sys.held /\ t.panic = sys.panic
        /\ t.role[n] = "down"
        /\ \A x \in Conn : x # n =>
              /\ t.role[x] = sys.role[x] /\ t.want[x] = sys.want[x]
              /\ t.fd[x] = sys.fd[x] /\ t.tx[x] = sys.tx[x] /\ t.rx[x] = sys.rx[x]
        /\ Fit(sys) => Fit(t)
    BY <1>1, <2>1, BlankRemain, AdoptServes
  <2>4. Adopted(sys, t, n, "down")
    BY <1>1, <2>1, AdoptGood
  <2> HIDE DEF t
  <2>5. t.peer = sys.peer /\ t.paused = sys.paused
    BY <2>4 DEF Adopted
  <2>6. Minds(sys, t)
    BY <1>1, <2>3, RingsOld DEF Minds
  <2>7. ASSUME Held(sys) PROVE Held(t)
    <3> SUFFICES ASSUME NEW x \in t.held \cap t.rings
                 PROVE  t.peer[x] # Nil /\ t.role[t.peer[x]] = "connecting"
      BY DEF Held
    <3>1. x \in sys.held /\ x # n
      BY <1>1, <2>1, <2>3 DEF Unused
    <3>2. x \in Conn /\ x \in sys.rings /\ sys.peer[x] # Nil
          /\ sys.role[sys.peer[x]] = "connecting"
      BY <1>1, <2>3, <2>7, <3>1, RingsOld DEF Held
    <3>3. sys.peer[x] # n /\ sys.peer[x] \in Conn
      BY <1>1, <2>1, <3>2, PeerApart
    <3> QED  BY <2>3, <2>5, <3>2, <3>3
  <2>8. Minding(t) /\ Keeping(t) /\ Sparing(t)
    BY <2>2, <2>3, <2>5, <2>6, <2>7 DEF Minding, Keeping, Sparing, Inner
  <2> QED  BY <2>8 DEF Proceeds
<1> QED  BY <1>2, <1>3

LEMMA ParseProceeds ==
    ASSUME LinkInv, AwaitInv, Parse
    PROVE  Proceeds
<1>1. /\ Good(sys) /\ sys \in Sys /\ Wired(sys) /\ cur \in Conn /\ pc = "parse"
      /\ ~sys.panic /\ ret \notin Inner
  BY LinkParts DEF IInv, LoopsOK, Inner, Parse, ParseEnds, ParsePanics,
                   ParseRejects, ParseWaits, CanParse, Parsing, At, Running
<1>2. cur \in sys.rings => sys.role[cur] # "connecting"
  BY <1>1 DEF AwaitInv, Awaits, Served, Inner
<1>3. CASE ParseEnds
  <2>1. Lands(sys) /\ pc' = "read" /\ cur' = cur
    BY <1>3, ThenLands DEF ParseEnds, Goto, Then
  <2>2. Bides(sys, sys)
    BY DEF Bides
  <2> QED  BY <1>2, <2>1, <2>2, BidesProceeds
<1>4. CASE ParsePanics
  <2> DEFINE t == [sys EXCEPT !.panic = TRUE]
  <2>1. Lands(t) /\ pc' = "parse" /\ cur' = cur /\ cur \notin sys.rings
    BY <1>1, <1>4, ThenLands DEF ParsePanics, Goto, Then
  <2>2. Bides(sys, t) /\ t.paused = sys.paused /\ t.rings = sys.rings
    BY <1>1 DEF Bides, Sys
  <2> HIDE DEF t
  <2>3. Minds(sys, t) /\ (Held(sys) => Held(t))
    BY <2>2, BidesMinds
  <2>4. Minding(t) /\ Keeping(t) /\ Sparing(t)
    BY <1>1, <2>1, <2>2, <2>3 DEF Minding, Keeping, Sparing
  <2> QED  BY <2>4 DEF Proceeds
<1>5. CASE ParseRejects
  <2> DEFINE t == IF sys.role[cur] = "down" THEN Reply(sys, cur, 0) ELSE sys
             u == CloseConn(t, cur)
  <2>1. Lands(u) /\ pc' = ret /\ cur \in sys.rings /\ cur \notin sys.held
    BY <1>5, ThenLands DEF ParseRejects, CanParse, Goto, Then
  <2>2. 0 \in 0 .. MaxReq
    BY ReactorAssumption
  <2>3. Own(sys, cur)
    BY <1>1, <2>1, RingOwn
  <2>4. Serves(sys, t, cur) /\ Mends(sys, t) /\ t.held = sys.held /\ t.paused = sys.paused
    <3>1. CASE sys.role[cur] = "down"
      <4>1. t = Reply(sys, cur, 0)
        BY <3>1
      <4> HIDE DEF t
      <4>2. t.paused = sys.paused
        BY <1>1, <2>2, <4>1, ReplyCloses DEF Closes
      <4> QED
        BY <1>1, <1>2, <2>1, <2>2, <2>3, <4>1, <4>2, ReplyServes, SteadyMends DEF Serves
    <3>2. CASE sys.role[cur] # "down"
      BY <1>1, <3>2, ServesSelf, WorksSelf, SteadyMends
    <3> QED  BY <3>1, <3>2
  <2> HIDE DEF t
  <2>5. /\ Serves(t, u, cur) /\ Mends(t, u) /\ cur \notin u.rings
        /\ u.held = t.held /\ u.paused = t.paused
    BY <1>1, <2>4, CloseServes DEF Serves
  <2> HIDE DEF u
  <2>6. Serves(sys, u, cur)
    <3>1. t.peer[cur] \in {cur, sys.peer[cur], Nil}
      BY <1>1, <2>4 DEF Serves, Fades
    <3>2. Works(sys, u, cur) /\ Fades(sys, u)
      BY <1>1, <2>4, <2>5, <3>1, WorksTrans, FadesTrans DEF Serves
    <3> QED  BY <2>5, <3>2 DEF Serves
  <2>7. Sparing(u)
    BY <1>1, <2>1, <2>4, <2>5 DEF Sparing, Mends, Inner
  <2> QED  BY <1>1, <1>2, <2>1, <2>4, <2>5, <2>6, <2>7, ServesProceeds
<1>6. CASE ParseWaits
  <2> DEFINE t == TakeHdr(sys, cur)
  <2>1. Lands(t) /\ pc' = "read" /\ cur' = cur
    BY <1>6, ThenLands DEF ParseWaits, Goto, Then
  <2>2. Bides(sys, t) /\ t.panic = sys.panic /\ t.paused = sys.paused
    BY <1>1 DEF TakeHdr, Sys, Bides
  <2> HIDE DEF t
  <2> QED  BY <1>2, <2>1, <2>2, BidesProceeds DEF Bides
<1> QED  BY <1>3, <1>4, <1>5, <1>6 DEF Parse

(* Who was paused does not connect.                                        *)
LEMMA PausedMinds ==
    ASSUME LinkInv, AwaitInv, ~sys.panic, NEW t, Minds(sys, t),
           NEW x \in t.rings, x \in sys.paused
    PROVE  t.role[x] # "connecting"
<1>1. x \in Conn /\ sys.role[x] # "new"
  <2>1. sys.paused \subseteq Conn
    BY LinkParts DEF Sys
  <2> QED  BY <2>1, LinkParts DEF Good, Sound, Blank
<1> QED  BY <1>1 DEF Minds, AwaitInv, Awaits

LEMMA HandleProceeds ==
    ASSUME LinkInv, AwaitInv, Handle
    PROVE  Proceeds
<1> DEFINE f    == Head(batch)[1]
           bits == HandledFor
           c    == Handled
<1>1. /\ Good(sys) /\ sys \in Sys /\ IInv /\ Wired(sys) /\ pc \notin Inner
      /\ ~sys.panic /\ batch # <<>> /\ batch \in Seq(Events)
  BY LinkParts DEF IInv, Handle, At, Running, Inner
<1>2. c # Nil => c \in Conn /\ Live(sys, c) /\ c \in sys.rings /\ sys.fd[c] = f
  <2>1. c # Nil => c \in Conn /\ Live(sys, c) /\ f # Nil /\ sys.tab[f] = c
    BY <1>1, HandledLive DEF Handle, Handled
  <2>2. 1 \in DOMAIN batch /\ batch[1] = Head(batch) /\ batch[1] \in Events
    BY <1>1, HeadTailProperties, LenProperties, EmptySeq
  <2>3. f \in FD \cup {Nil}
    BY <2>2 DEF Events
  <2>4. c # Nil => sys.fd[c] = f
    BY <1>1, <2>1, <2>3 DEF Good, Sound, TableOwned
  <2> QED  BY <1>1, <2>1, <2>4 DEF Good, Sound, RingsLive
<1>3. \/ HandleStale(f) \/ HandleListen(f)
      \/ HandleConnect(c, bits) \/ HandleIO(c, bits)
  BY DEF Handle, Handled, HandledFor
<1>4. c # Nil /\ sys.role[c] = "connecting" =>
        /\ "R" \notin bits
        /\ "W" \in bits => sys.tx[c] # "syn"
        /\ "E" \in bits => sys.rx[c] = "err"
  <2>1. 1 \in DOMAIN batch /\ batch[1] = Head(batch)
    BY <1>1, HeadTailProperties, LenProperties, EmptySeq
  <2> QED  BY <1>1, <1>2, <2>1 DEF AwaitInv, Awaits, HandledFor
<1> HIDE DEF f, bits, c
<1>5. CASE HandleStale(f) \/ HandleListen(f)
  <2>1. Lands(sys) /\ pc' \notin Inner
    BY <1>5, ThenLands DEF HandleStale, HandleListen, Goto, Then, Inner
  <2>2. Bides(sys, sys)
    BY DEF Bides
  <2> QED  BY <2>1, <2>2, BidesProceeds DEF Inner
<1>6. CASE HandleConnect(c, bits)
  <2> DEFINE w == FinishConnect(sys, c)
             R == sys.paused \ w.paused
  <2>1. /\ c \in Conn /\ Live(sys, c) /\ c \in sys.rings
        /\ sys.role[c] = "connecting" /\ ThenResume(w, "loop")
        /\ sys.tx[c] # "syn" \/ sys.rx[c] = "err"
    BY <1>2, <1>4, <1>6 DEF HandleConnect, Connects
  <2>2. /\ Serves(sys, w, c) /\ w.held = sys.held \ {sys.peer[c]}
        /\ c \in w.rings => w.role[c] # "connecting"
        /\ Mends(sys, w)
    BY <1>1, <2>1, FinishConnectServes
  <2>3. w.paused \subseteq sys.paused
    BY <1>1, <2>1, FinishConnectResumes
  <2>4. Lands(w) /\ pc' \in {"loop", "read"} /\ (pc' = "read" => cur' \in R)
    <3>1. R # {} => (CHOOSE x \in R : TRUE) \in R
      OBVIOUS
    <3>2. /\ R = {} => pc' = "loop"
          /\ R # {} => pc' = "read" /\ cur' = CHOOSE x \in R : TRUE
      BY <2>1 DEF ThenResume, Goto, Then
    <3> QED  BY <2>1, <3>1, <3>2, ThenLands
  <2> HIDE DEF w
  <2>5. Minds(sys, w)
    BY <2>2, ServesMinds
  <2>6. pc' \in Inner /\ cur' \in w.rings => w.role[cur'] # "connecting"
    BY <1>1, <2>4, <2>5, PausedMinds DEF Inner
  <2>7. Sparing(w)
    BY <1>1, <2>2, <2>4 DEF Sparing, Mends, Inner
  <2>8. ASSUME Held(sys) PROVE c \notin w.held
    <3>1. sys.peer[c] # Nil
      BY <1>1, <2>1 DEF Wired, IsUp
    <3>2. sys.role[sys.peer[c]] = "down"
      BY <1>1, <2>1, <3>1, PeerApart, ReactorAssumption DEF Good, Paired, IsUp
    <3> QED  BY <2>1, <2>2, <2>8, <3>2 DEF Held
  <2> QED  BY <2>1, <2>2, <2>3, <2>4, <2>6, <2>7, <2>8, ServesProceeds
<1>7. CASE HandleIO(c, bits)
  <2> DEFINE t == IF "W" \in bits THEN FlushRemain(sys, c) ELSE sys
             u == CloseConn(sys, c)
  <2>1. c \in Conn /\ c \in sys.rings /\ ~Connects(c, bits) /\ c # Nil
    BY <1>2, <1>7 DEF HandleIO
  <2>2. IF bits = {"E"} THEN Goto(u, "loop")
        ELSE IF "R" \in bits /\ c \notin sys.paused
             THEN Then(t, "read", c, "loop") ELSE Goto(t, "loop")
    BY <1>7 DEF HandleIO
  <2>3. CASE sys.role[c] = "connecting"
    <3>1. bits # {"E"} /\ "W" \notin bits /\ "R" \notin bits
      BY <1>4, <2>1, <2>3 DEF Connects
    <3>2. Goto(sys, "loop")
      BY <2>2, <3>1
    <3>3. Lands(sys) /\ pc' = "loop" /\ Bides(sys, sys)
      BY <3>2, ThenLands DEF Goto, Then, Bides
    <3> QED  BY <3>3, BidesProceeds DEF Inner
  <2>4. CASE sys.role[c] # "connecting" /\ bits = {"E"}
    <3>1. Lands(u) /\ pc' = "loop"
      BY <2>2, <2>4, ThenLands DEF Goto, Then
    <3>2. /\ Serves(sys, u, c) /\ Mends(sys, u) /\ c \notin u.rings
          /\ u.held = sys.held /\ u.paused = sys.paused
      BY <1>1, <2>1, CloseServes
    <3> HIDE DEF u
    <3>3. Sparing(u)
      BY <1>1, <3>1, <3>2 DEF Sparing, Mends, Inner
    <3> QED  BY <2>1, <2>4, <3>1, <3>2, <3>3, ServesProceeds DEF Inner
  <2>5. CASE sys.role[c] # "connecting" /\ bits # {"E"}
    <3>1. /\ Serves(sys, t, c) /\ t.held = sys.held /\ t.paused = sys.paused
          /\ Same(sys, t) \/ c \notin t.rings
          /\ Steady(sys, t)
      <4>1. CASE "W" \in bits
        BY <1>1, <2>1, <2>5, <4>1, FlushRemainServes, FlushRemainCloses DEF Serves, Closes
      <4>2. CASE "W" \notin bits
        BY <1>1, <4>2, ServesSelf, WorksSelf DEF Same
      <4> QED  BY <4>1, <4>2
    <3>2. Lands(t) /\ (pc' = "loop" \/ (pc' = "read" /\ cur' = c))
      BY <2>2, <2>5, ThenLands DEF Goto, Then
    <3> HIDE DEF t
    <3>3. t.role[c] # "connecting"
      BY <2>1, <2>5, <3>1 DEF Serves, Fades
    <3>4. Held(sys) => Held(t)
      <4>1. CASE Same(sys, t)
        BY <3>1, <4>1 DEF Same, Held
      <4>2. CASE c \notin t.rings
        BY <1>1, <2>1, <2>5, <3>1, <4>2, ServesHeld
      <4> QED  BY <3>1, <4>1, <4>2
    <3>5. Minds(sys, t)
      BY <3>1, <3>3, ServesMinds
    <3>6. Minding(t) /\ Keeping(t) /\ Sparing(t)
      BY <1>1, <3>1, <3>2, <3>3, <3>4, <3>5 DEF Minding, Keeping, Sparing, Steady, Inner
    <3> QED  BY <3>6 DEF Proceeds
  <2> QED  BY <2>3, <2>4, <2>5
<1> QED  BY <1>3, <1>5, <1>6, <1>7

(* t is the state with the header of the next frame taken off the ring.    *)
Parsed(t) ==
    /\ LinkInv /\ ~sys.panic /\ pc = "parse"
    /\ cur \in Conn /\ cur \in sys.rings /\ cur \notin sys.held
    /\ cur \notin sys.paused /\ sys.role[cur] # "connecting"
    /\ Good(t) /\ Wired(t) /\ Same(sys, t) /\ Bides(sys, t) /\ t.panic = sys.panic

(* The handler of a frame works for the connection it came from or for the *)
(* peer, and the loop goes on.                                             *)
LEMMA GoesOn ==
    ASSUME NEW t, NEW u, NEW p \in Conn, Parsed(t), Goto(u, "parse"), Serves(t, u, p),
           p = cur \/ p = t.peer[cur], t.role[p] # "connecting",
           u.held \subseteq t.held, u.paused = sys.paused, Mends(t, u),
           Steady(t, u) \/ Departs
    PROVE  Proceeds
<1>1. /\ LinkInv /\ cur \in Conn /\ cur \in sys.rings /\ cur \notin sys.held
      /\ pc = "parse" /\ sys.role[cur] # "connecting"
      /\ Same(sys, t) /\ Bides(sys, t) /\ t.panic = sys.panic
  BY DEF Parsed
<1>2. Lands(u) /\ pc' = "parse" /\ cur' = cur
  BY ThenLands DEF Goto, Then
<1>3. Serves(sys, u, p)
  <2>1. Fades(sys, u)
    BY <1>1, SameFades, FadesTrans DEF Serves
  <2>2. Works(sys, u, p)
    BY <1>1 DEF Serves, Works, Bides
  <2> QED  BY <2>1, <2>2 DEF Serves
<1>4. sys.role[p] # "connecting" /\ u.held \subseteq sys.held
  BY <1>1 DEF Bides
<1>5. u.role[p] # "connecting" /\ u.role[cur] # "connecting"
  BY <1>1, <1>3, <1>4 DEF Serves, Fades
<1>6. ASSUME Held(sys) PROVE p \notin u.held \/ p \notin u.rings
  <2>1. CASE p = cur
    BY <1>1, <1>4, <2>1
  <2>2. CASE p # cur
    <3>1. p = sys.peer[cur] /\ p # Nil
      BY <1>1, <2>2, ReactorAssumption DEF Bides
    <3>2. sys.peer[p] = cur
      BY <1>1, <3>1, LinkParts DEF Good, Paired
    <3>3. p \in u.rings => p \in sys.rings
      BY <1>3 DEF Serves, Works
    <3> QED  BY <1>1, <1>4, <1>6, <3>2, <3>3 DEF Held
  <2> QED  BY <2>1, <2>2
<1>7. Sparing(u)
  <2>1. Fit(sys) => Fit(t)
    BY <1>1, BidesMinds
  <2>2. t.rings = sys.rings
    BY <1>1 DEF Bides
  <2> QED  BY <1>1, <1>2, <2>1, <2>2 DEF Sparing, Mends, Steady
<1> QED  BY <1>1, <1>2, <1>3, <1>4, <1>5, <1>6, <1>7, ServesProceeds

(* A frame for which an upstream connection is opened.                     *)
LEMMA DialGoesOn ==
    ASSUME NEW t, NEW u, NEW n \in Conn, Parsed(t), Goto(u, "parse"), Good(u),
           Opens(t, u, cur, n), t.role[n] = "new", t.role[cur] = "down",
           u.paused = sys.paused
    PROVE  Proceeds
<1>1. /\ LinkInv /\ cur \in Conn /\ pc = "parse" /\ Good(t) /\ Wired(t)
      /\ Same(sys, t) /\ Bides(sys, t) /\ t.panic = sys.panic
  BY DEF Parsed
<1>2. Lands(u) /\ pc' = "parse" /\ cur' = cur
  BY ThenLands DEF Goto, Then
<1>3. n \notin t.held
  <2>1. Unused(sys) /\ sys.role[n] = "new" /\ t.held = sys.held
    BY <1>1 DEF LinkInv, FlowInv, Tidy, Bides
  <2> QED  BY <2>1 DEF Unused
<1>4. Minds(t, u) /\ (Held(t) => Held(u))
  BY <1>1, <1>3, OpensMinds, OpensHeld
<1>5. (Held(sys) => Held(t)) /\ (Fit(sys) => Fit(t))
  BY <1>1, BidesMinds
<1>6. Minds(sys, u)
  BY <1>1, <1>4 DEF Minds, Bides
<1>7. u.role[cur] = "down" /\ (Fit(t) => Fit(u) /\ u.panic = t.panic /\ cur \in u.rings)
  BY <1>1 DEF Opens
<1>8. Minding(u) /\ Keeping(u) /\ Sparing(u)
  BY <1>1, <1>2, <1>4, <1>5, <1>6, <1>7 DEF Minding, Keeping, Sparing
<1> QED  BY <1>8 DEF Proceeds

LEMMA DownProceeds ==
    ASSUME Private, NEW t, NEW h \in Frame, Parsed(t), sys.role[cur] = "down",
           h.op = "CLOSE" => Departs,
           DownUndialled(t, h) \/ DownDialled(t, h) => t.peer[cur] = Nil,
           \/ DownPing(t, h) \/ DownClose(t, h) \/ DownError(t, h)
           \/ DownRefused(t, h) \/ DownPooled(t, h)
           \/ DownUndialled(t, h) \/ DownDialled(t, h)
    PROVE  Proceeds
<1>1. /\ LinkInv /\ cur \in Conn /\ cur \in sys.rings /\ cur \notin sys.paused
      /\ Good(t) /\ Wired(t) /\ cur \in t.rings /\ t.role[cur] = "down"
      /\ t.paused = sys.paused /\ t.role = sys.role /\ t.remain = sys.remain
      /\ t.role[cur] # "connecting"
  BY DEF Parsed, Same, Bides
<1>2. CASE DownPing(t, h)
  <2> DEFINE u == Consume(Flush(t, cur, Pong(h)), cur)
  <2>1. Pong(h) \in Frame
    BY MadeFrames
  <2>2. Serves(t, u, cur) /\ u.held = t.held /\ Steady(t, u)
    BY <1>1, <2>1, RelayServes
  <2>3. u.paused = t.paused
    <3> DEFINE r == Flush(t, cur, Pong(h))
    <3>1. Closes(t, r)
      BY <1>1, <2>1, FlushCloses
    <3>2. u = Consume(r, cur)
      OBVIOUS
    <3> HIDE DEF r, u
    <3>3. Closes(r, Consume(r, cur))
      BY <1>1, <3>1, ConsumeCloses DEF Closes
    <3> QED  BY <3>1, <3>2, <3>3 DEF Closes
  <2>4. Goto(u, "parse")
    BY <1>2 DEF DownPing
  <2> HIDE DEF u
  <2> QED  BY <1>1, <2>2, <2>3, <2>4, SteadyMends, GoesOn
<1>3. CASE DownClose(t, h)
  <2> DEFINE r == Consume(t, cur)
             u == CloseConn(r, cur)
  <2>1. Goto(u, "parse") /\ Departs
    BY <1>3 DEF DownClose
  <2>2. Serves(t, r, cur) /\ r.held = t.held /\ Steady(t, r) /\ r.paused = t.paused
    BY <1>1, ConsumeServes, ConsumeCloses DEF Closes
  <2> HIDE DEF r
  <2>3. /\ Serves(r, u, cur) /\ Mends(r, u) /\ u.held = r.held /\ u.paused = r.paused
    BY <1>1, <2>2, CloseServes DEF Serves
  <2> HIDE DEF u
  <2>4. Works(t, u, cur) /\ Fades(t, u)
    <3>1. r.peer[cur] \in {cur, t.peer[cur], Nil} /\ t \in Sys
      BY <1>1, <2>2, GoodSys DEF Serves, Fades
    <3> QED  BY <1>1, <2>2, <2>3, <3>1, WorksTrans, FadesTrans DEF Serves
  <2>5. Serves(t, u, cur) /\ Mends(t, u)
    BY <2>2, <2>3, <2>4, SteadyMends, SteadyTrans DEF Serves
  <2> QED  BY <1>1, <2>1, <2>2, <2>3, <2>5, GoesOn
<1>4. CASE DownError(t, h)
  <2> DEFINE u == Consume(t, cur)
  <2>1. Goto(u, "parse")
    BY <1>4 DEF DownError
  <2>2. Serves(t, u, cur) /\ u.held = t.held /\ Steady(t, u) /\ u.paused = t.paused
    BY <1>1, ConsumeServes, ConsumeCloses DEF Closes
  <2> HIDE DEF u
  <2> QED  BY <1>1, <2>1, <2>2, SteadyMends, GoesOn
<1>5. Goto(OnNoDial(t, cur, h), "parse") => Proceeds
  <2> DEFINE u == OnNoDial(t, cur, h)
  <2>1. Serves(t, u, cur) /\ u.held = t.held /\ Steady(t, u)
    BY <1>1, OnNoDialServes
  <2>2. u.paused = t.paused
    BY <1>1, OnNoDialCloses DEF Closes
  <2> HIDE DEF u
  <2>3. Goto(u, "parse") => Proceeds
    BY <1>1, <2>1, <2>2, SteadyMends, GoesOn
  <2> QED  BY <2>3 DEF u
<1>6. CASE DownRefused(t, h)
  BY <1>5, <1>6 DEF DownRefused
<1>7. CASE DownPooled(t, h)
  <2> DEFINE p == t.peer[cur]
             u == OnPooled(t, cur, h)
  <2>1. p # Nil /\ t.role[p] = "up" /\ p \in Conn
    <3>1. p # Nil /\ t.role[p] = "up"
      BY <1>7 DEF DownPooled, Reuses, Upstream
    <3> QED  BY <1>1, <3>1, PeerApart
  <2>2. Serves(t, u, p) /\ u.held = t.held \ {cur} /\ Steady(t, u)
    BY <1>1, <2>1, OnPooledServes
  <2>3. Resumes(t, u, cur)
    BY <1>1, <2>1, OnPooledResumes
  <2>4. ThenResume(u, "parse")
    BY <1>7 DEF DownPooled
  <2> HIDE DEF u
  <2>5. Goto(u, "parse") /\ u.paused = sys.paused
    BY <1>1, <2>3, <2>4, BackToParse
  <2>6. u.held \subseteq t.held /\ t.role[p] # "connecting"
    BY <2>1, <2>2
  <2> QED  BY <2>1, <2>2, <2>5, <2>6, SteadyMends, GoesOn
<1>8. DownUndialled(t, h) \/ DownDialled(t, h) =>
          t.peer[cur] = Nil /\ Reselect(t, cur) = t
  BY DEF Reselect
<1>9. CASE DownUndialled(t, h)
  BY <1>5, <1>8, <1>9 DEF DownUndialled
<1>10. CASE DownDialled(t, h)
  <2> DEFINE n == Fresh(t)
             f == FreeFD(t)
  <2>1. PICK e \in EP, how \in {"progress"} \cup ({"instant"} \cap Faults) :
           /\ t.peer[cur] = Nil /\ FreeFDs(t) # {}
           /\ ThenResume(OnDialled(t, cur, h, e, n, f, how), "parse")
    <3>1. eligible \subseteq EP
      BY <1>1 DEF LinkInv, FlowInv, IInv, EnvOK
    <3> QED  BY <1>8, <1>10, <3>1 DEF DownDialled
  <2>2. n \in Conn /\ t.role[n] = "new" /\ f \in FD /\ t.tab[f] = Nil
    BY <1>1, <1>10, <2>1, FreshType DEF DownDialled
  <2>3. t.remain[n] = <<>>
    BY <1>1, <2>2, LinkParts, BlankRemain
  <2> DEFINE v == OnDialled(t, cur, h, e, n, f, how)
  <2> HIDE DEF n, f
  <2>4. Opens(t, v, cur, n) /\ Resumes(t, v, cur)
    BY <1>1, <2>1, <2>2, <2>3, OnDialledOpens, OnDialledResumes
  <2>5. ThenResume(v, "parse")
    BY <2>1
  <2> HIDE DEF v
  <2>6. Goto(v, "parse") /\ v.paused = sys.paused
    BY <1>1, <2>4, <2>5, BackToParse
  <2> QED  BY <1>1, <2>2, <2>4, <2>6, DialGoesOn DEF Resumes
<1> QED  BY <1>2, <1>3, <1>4, <1>6, <1>7, <1>9, <1>10

LEMMA DispatchProceeds ==
    ASSUME LinkInv, Private, AwaitInv, Dispatch, ~Reselects
    PROVE  Proceeds
<1> DEFINE t == TakeHdr(sys, cur)
           h == NextFrame(sys, cur)
<1>1. /\ Good(sys) /\ sys \in Sys /\ Wired(sys) /\ cur \in Conn /\ AtHeader
      /\ cur \notin sys.paused /\ cur \notin sys.held /\ ~sys.panic
  BY LinkParts DEF IInv, Dispatch, CanParse, Parsing, At, Running, LoopsOK, AtHeader
<1>2. sys.role[cur] # "connecting" /\ sys.role[cur] # "new" /\ sys.role[cur] \in Roles
  BY <1>1, RingsOld DEF AwaitInv, Awaits, Served, Inner, AtHeader, Sys
<1>3. h \in Frame
  BY <1>1, NextFrameType DEF AtHeader
<1>4. Still(sys, t) /\ t.hdr[cur] = h /\ t.ep = sys.ep
  BY <1>1, TakeHdrStill
<1>5. Good(t) /\ Same(sys, t) /\ Bides(sys, t) /\ t.panic = sys.panic
  <2>1. Good(t)
    BY <1>1, TakeHdrCloses DEF AtHeader, Closes
  <2>2. Same(sys, t) /\ Bides(sys, t) /\ t.panic = sys.panic
    BY <1>1 DEF TakeHdr, Sys, Bides, Same
  <2> QED  BY <2>1, <2>2
<1>6. /\ sys.role[cur] = "down" =>
            \/ DownPing(t, h) \/ DownClose(t, h) \/ DownError(t, h)
            \/ DownRefused(t, h) \/ DownPooled(t, h)
            \/ DownUndialled(t, h) \/ DownDialled(t, h)
      /\ sys.role[cur] = "up" => Goto(OnUp(t, cur, h), "parse")
  BY <1>4 DEF Dispatch
<1>7. sys.role[cur] = "down" /\ (DownUndialled(t, h) \/ DownDialled(t, h)) =>
          sys.peer[cur] = Nil
  BY <1>4 DEF Reselects
<1>8. h.op = "CLOSE" /\ sys.role[cur] = "down" => Departs
  BY DEF Departs
<1> HIDE DEF t, h
<1>9. /\ Wired(t) /\ t.role = sys.role /\ t.peer = sys.peer
  <2>1. /\ t.role = sys.role /\ t.peer = sys.peer /\ t.rings = sys.rings
        /\ t.held = sys.held /\ t.ep = sys.ep
    BY <1>4 DEF Still
  <2>2. Wired(t)
    BY <1>1, <2>1 DEF Wired, IsUp
  <2> QED  BY <2>1, <2>2
<1>10. Parsed(t)
  BY <1>1, <1>2, <1>5, <1>9 DEF Parsed, AtHeader
<1>11. CASE sys.role[cur] = "down"
  BY <1>3, <1>6, <1>7, <1>8, <1>9, <1>10, <1>11, DownProceeds
<1>12. CASE sys.role[cur] = "up"
  <2> DEFINE p == t.peer[cur]
             u == OnUp(t, cur, h)
  <2>1. cur \in t.rings /\ t.role[cur] = "up"
    BY <1>1, <1>5, <1>12 DEF Same, AtHeader
  <2>2. p # Nil /\ p \in Conn /\ t.role[p] # "connecting"
    <3>1. p # Nil
      BY <1>1, <1>9, <2>1 DEF Wired, IsUp
    <3> QED  BY <1>1, <1>5, <2>1, <3>1, PeerApart, ReactorAssumption DEF Good, Paired, IsUp
  <2>3. Serves(t, u, p) /\ u.held = t.held /\ Steady(t, u)
    BY <1>1, <1>3, <1>5, <1>9, <2>1, OnUpServes
  <2>4. u.paused = sys.paused
    BY <1>1, <1>3, <1>5, OnUpCloses DEF Closes, Same
  <2>5. Goto(u, "parse")
    BY <1>6, <1>12
  <2> HIDE DEF u, p
  <2> QED  BY <1>10, <2>2, <2>3, <2>4, <2>5, SteadyMends, GoesOn DEF p
<1> QED  BY <1>2, <1>11, <1>12 DEF Roles

(* Wait reports of a connection in progress that its connect ended.        *)
LEMMA WaitAwaits ==
    ASSUME LinkInv, AwaitInv, Wait
    PROVE  AwaitInv'
<1>1. Good(sys) /\ sys \in Sys /\ ~sys.panic /\ pc = "loop" /\ pc' = pc
  BY LinkParts DEF Wait, At, Running
<1>2. /\ sys'.rings = sys.rings /\ sys'.role = sys.role /\ sys'.want = sys.want
      /\ sys'.tx = sys.tx /\ sys'.rx = sys.rx /\ sys'.paused = sys.paused
      /\ sys'.fd = sys.fd /\ sys'.armed = {}
  BY <1>1 DEF Wait, Sys
<1> SUFFICES ASSUME NEW x \in sys.rings, sys.role[x] = "connecting"
             PROVE  Awaits(x)'
  BY <1>2 DEF AwaitInv
<1>3. Awaits(x) /\ sys.armed \subseteq sys.rings
  BY <1>1 DEF AwaitInv
<1>4. x \in Conn /\ Live(sys, x) /\ sys.fd[x] \in FD
  <2>1. x \in Conn
    BY <1>1, RingsOld
  <2> QED  BY <1>1, <2>1 DEF Sys, Good, Sound, RingsLive
<1>5. ASSUME NEW i \in DOMAIN batch', batch'[i][1] = sys.fd[x]
      PROVE  batch'[i][2] = Bits(sys, x)
  <2>1. batch'[i] \in ReadyEvents
    BY DEF Wait
  <2>2. batch'[i] # <<Nil, {"R"}>>
    BY <1>4, <1>5, ReactorAssumption
  <2>3. PICK c \in sys.armed : batch'[i] = <<sys.fd[c], Bits(sys, c)>>
    BY <2>1, <2>2 DEF ReadyEvents
  <2>4. c \in Conn /\ Live(sys, c)
    <3>1. c \in Conn
      BY <1>1, <1>3, RingsOld
    <3> QED  BY <1>1, <1>3, <3>1 DEF Good, Sound, RingsLive
  <2>5. c = x
    BY <1>4, <1>5, <2>3, <2>4 DEF Live, Sock
  <2> QED  BY <2>3, <2>5
<1>6. /\ "R" \notin Bits(sys, x)
      /\ "W" \in Bits(sys, x) => sys.tx[x] # "syn"
      /\ "E" \in Bits(sys, x) => sys.rx[x] = "err"
  BY <1>3 DEF Awaits, Bits, Writable
<1> QED  BY <1>1, <1>2, <1>3, <1>5, <1>6 DEF Awaits, Served, Inner

----------------------------------------------------------------------------
(* The kernel and the far ends.                                            *)

(* Bytes, an end or a reset for c: an attempt to connect may end by it,    *)
(* and does not begin again.                                               *)
Stirs(s, t, c) ==
    /\ Outside(s, t) /\ t.want = s.want /\ t.paused = s.paused /\ t.panic = s.panic
    /\ t.armed \subseteq s.armed \cup ({c} \cap s.rings)
    /\ \A x \in Conn :
          /\ t.tx[x] = "syn" => s.tx[x] = "syn"
          /\ s.rx[x] = "err" => t.rx[x] = "err"
          /\ x # c => t.tx[x] = s.tx[x] /\ t.rx[x] = s.rx[x]
Eases(s, t, c) ==
    Fit(s) /\ c \in s.rings =>
        IF s.role[c] = "connecting" THEN Idle(t, c) ELSE Takes(t, c)

LEMMA SelfStirs ==
    ASSUME NEW s, NEW c \in Conn
    PROVE  Stirs(s, s, c) /\ Eases(s, s, c)
BY DEF Stirs, Eases, Outside, Fit

LEMMA ArmStirs ==
    ASSUME NEW s \in Sys, NEW t \in Sys, NEW c \in s.rings, Stirs(s, t, c), Eases(s, t, c)
    PROVE  Stirs(s, Arm(t, c), c) /\ Eases(s, Arm(t, c), c)
<1> DEFINE u == Arm(t, c)
<1>1. c \in t.rings
  BY DEF Stirs, Outside
<1>2. /\ Puts(t, u, c) /\ u.tx = t.tx /\ u.remain = t.remain
      /\ u.want = t.want /\ u.panic = t.panic /\ u.held = t.held
  BY <1>1, ArmPuts
<1>3. Outside(s, u)
  <2>1. c \in Conn
    BY DEF Sys
  <2> QED  BY <2>1, ArmOutside DEF Stirs
<1> HIDE DEF u
<1>4. Stirs(s, u, c)
  BY <1>1, <1>2, <1>3 DEF Stirs, Puts, Same
<1>5. Eases(s, u, c)
  BY <1>2 DEF Eases, Idle, Takes, Puts
<1> QED  BY <1>4, <1>5 DEF u

LEMMA ArriveStirs ==
    ASSUME NEW s \in Sys, NEW c \in s.rings, NEW f, NEW k
    PROVE  /\ Stirs(s, Arrive(s, c, f, k), c)
           /\ Arrive(s, c, f, k).tx = s.tx /\ Arrive(s, c, f, k).rx = s.rx
           /\ DOMAIN Arrive(s, c, f, k) = DOMAIN s
BY DEF Stirs, Outside, Arrive, Arm, Sys

LEMMA ClientStirs ==
    ASSUME LinkInv, NEW c \in Conn,
           \/ ClientConnects \/ HealthChanges \/ ClientSends(c) \/ UpstreamAnswers(c)
    PROVE  Stirs(sys, sys', c) /\ Eases(sys, sys', c)
<1>1. sys \in Sys /\ Good(sys)
  BY LinkParts
<1>2. CASE ClientConnects \/ HealthChanges
  BY <1>2, SelfStirs DEF ClientConnects, HealthChanges
<1>3. CASE ClientSends(c) \/ UpstreamAnswers(c)
  <2>1. c \in sys.rings
    BY <1>1, <1>3 DEF ClientSends, UpstreamAnswers, Sends, Open, Good, Sound, RingsLive
  <2>2. \E f, k : \/ sys' = Arrive(sys, c, f, k)
                  \/ sys' = [Arrive(sys, c, f, k) EXCEPT !.got[c] = Tail(@)]
    BY <1>3 DEF ClientSends, UpstreamAnswers
  <2>3. PICK f, k : \/ sys' = Arrive(sys, c, f, k)
                    \/ sys' = [Arrive(sys, c, f, k) EXCEPT !.got[c] = Tail(@)]
    BY <2>2
  <2> DEFINE t == Arrive(sys, c, f, k)
  <2>4. Stirs(sys, t, c) /\ t.tx = sys.tx /\ t.rx = sys.rx
    BY <1>1, <2>1, ArriveStirs
  <2>5. /\ sys'.tab = t.tab /\ sys'.fd = t.fd /\ sys'.rings = t.rings
        /\ sys'.peer = t.peer /\ sys'.role = t.role /\ sys'.held = t.held
        /\ sys'.pend = t.pend /\ sys'.remain = t.remain /\ sys'.want = t.want
        /\ sys'.paused = t.paused /\ sys'.panic = t.panic /\ sys'.armed = t.armed
        /\ sys'.tx = t.tx /\ sys'.rx = t.rx
    BY <1>1, <2>3 DEF Arrive, Arm, Sys
  <2> HIDE DEF t
  <2> QED  BY <2>4, <2>5 DEF Stirs, Eases, Outside, Fit, Idle, Takes
<1> QED  BY <1>2, <1>3

LEMMA SocketStirs ==
    ASSUME LinkInv, NEW c \in Conn,
           \/ RestArrives(c) \/ PeerCloses(c) \/ PeerResets(c) \/ ConnectCompletes(c)
           \/ Slows(c) \/ Drains(c)
    PROVE  /\ Stirs(sys, sys', c)
           /\ "full" \notin Faults /\ "reset" \notin Faults => Eases(sys, sys', c)
<1>1. sys \in Sys /\ Good(sys) /\ c \in sys.rings
  BY LinkParts DEF RestArrives, PeerCloses, PeerResets, ConnectCompletes, Slows,
                   Drains, Open, Good, Sound, RingsLive
<1>2. CASE RestArrives(c)
  <2> DEFINE in == sys.inbox[c] \o sys.wire[c]
             t == [sys EXCEPT !.inbox[c] = in, !.wire[c] = <<>>]
  <2>1. sys.inbox[c] \in Seq(Cell) /\ sys.wire[c] \in Seq(Cell) /\ <<>> \in Seq(Cell)
    BY <1>1, EmptySeq DEF Sys
  <2>2. in \in Seq(Cell)
    BY <2>1, ConcatProperties
  <2>3. sys' = Arm(t, c)
    BY <1>2 DEF RestArrives
  <2> HIDE DEF in
  <2>4. t \in Sys /\ Stirs(sys, t, c) /\ Eases(sys, t, c)
    BY <1>1, <2>1, <2>2 DEF Sys, Stirs, Eases, Outside, Fit, Idle, Takes
  <2> HIDE DEF t
  <2> QED  BY <1>1, <2>3, <2>4, ArmStirs
<1>3. CASE PeerCloses(c)
  <2> DEFINE t == [sys EXCEPT !.rx[c] = "eof", !.wire[c] = <<>>]
  <2>1. sys' = Arm(t, c) /\ sys.rx[c] = "open" /\ <<>> \in Seq(Cell)
    BY <1>3, EmptySeq DEF PeerCloses
  <2>2. t \in Sys /\ Stirs(sys, t, c) /\ Eases(sys, t, c)
    BY <1>1, <2>1 DEF Sys, Stirs, Eases, Outside, Fit, Idle, Takes
  <2> HIDE DEF t
  <2> QED  BY <1>1, <2>1, <2>2, ArmStirs
<1> DEFINE r == [sys EXCEPT !.rx[c] = "err", !.tx[c] = "broken",
                            !.inbox[c] = <<>>, !.wire[c] = <<>>]
<1>4. /\ Reset(sys, c) = Arm(r, c) /\ r \in Sys /\ Stirs(sys, r, c)
      /\ sys.tx[c] = "syn" => Eases(sys, r, c)
  <2>1. <<>> \in Seq(Cell)
    BY EmptySeq
  <2>2. Reset(sys, c) = Arm(r, c)
    BY DEF Reset
  <2>3. r \in Sys /\ Stirs(sys, r, c)
    BY <1>1, <2>1 DEF Sys, Stirs, Outside
  <2>4. r.tx[c] = "broken" /\ r.rx[c] = "err" /\ r.remain = sys.remain
    BY <1>1 DEF Sys
  <2>5. sys.tx[c] = "syn" => Eases(sys, r, c)
    BY <2>4 DEF Eases, Fit, Idle, Takes
  <2> QED  BY <2>2, <2>3, <2>5
<1> DEFINE o == [sys EXCEPT !.tx[c] = "open"]
<1>5. o \in Sys /\ Stirs(sys, o, c) /\ Eases(sys, o, c)
  <2>1. o \in Sys /\ Stirs(sys, o, c) /\ o.tx[c] = "open" /\ o.remain = sys.remain
    BY <1>1 DEF Sys, Stirs, Outside
  <2> QED  BY <2>1 DEF Eases, Fit, Idle, Takes
<1> HIDE DEF r, o
<1>6. CASE PeerResets(c)
  <2>1. sys' = Arm(r, c) /\ "reset" \in Faults
    BY <1>4, <1>6 DEF PeerResets
  <2>2. Stirs(sys, sys', c)
    <3>1. /\ Puts(r, sys', c) /\ sys'.tx = r.tx /\ sys'.remain = r.remain
          /\ sys'.want = r.want /\ sys'.panic = r.panic
      <4>1. c \in r.rings
        BY <1>1, <1>4 DEF Stirs, Outside
      <4> QED  BY <1>4, <2>1, <4>1, ArmPuts
    <3>2. Outside(sys, sys')
      BY <1>1, <1>4, <2>1, ArmOutside DEF Stirs
    <3> QED  BY <1>4, <3>1, <3>2 DEF Stirs, Puts, Same, Outside
  <2> QED  BY <2>1, <2>2
<1>7. CASE ConnectCompletes(c)
  <2>1. sys.tx[c] = "syn" /\ (sys' = Arm(r, c) \/ sys' = Arm(o, c))
    BY <1>4, <1>7 DEF ConnectCompletes, o
  <2> QED  BY <1>1, <1>4, <1>5, <2>1, ArmStirs
<1>8. CASE Drains(c)
  <2>1. sys' = Arm(o, c)
    BY <1>8 DEF Drains, o
  <2> QED  BY <1>1, <1>5, <2>1, ArmStirs
<1>9. CASE Slows(c)
  <2>1. PICK w \in {"tight"} \cup ({"full"} \cap Faults) : sys' = [sys EXCEPT !.tx[c] = w]
    BY <1>9 DEF Slows
  <2>2. w \in {"tight", "full"} /\ ("full" \notin Faults => w = "tight")
    OBVIOUS
  <2>3. Stirs(sys, sys', c) /\ sys'.tx[c] = w /\ sys'.remain = sys.remain
    BY <1>1, <2>1, <2>2 DEF Sys, Stirs, Outside
  <2> QED  BY <2>2, <2>3 DEF Eases, Fit, Idle, Takes
<1> QED  BY <1>2, <1>3, <1>6, <1>7, <1>8, <1>9

LEMMA EnvironmentStirs ==
    ASSUME LinkInv, Environment
    PROVE  \E c \in Conn :
              /\ Stirs(sys, sys', c)
              /\ "full" \notin Faults /\ "reset" \notin Faults => Eases(sys, sys', c)
<1>1. CASE ClientConnects \/ HealthChanges
  <2>1. PICK c \in Conn : TRUE
    BY ReactorAssumption
  <2> QED  BY <1>1, ClientStirs
<1>2. CASE \E c \in Conn : \/ ClientSends(c) \/ UpstreamAnswers(c)
                           \/ RestArrives(c) \/ PeerCloses(c) \/ PeerResets(c)
                           \/ ConnectCompletes(c) \/ Slows(c) \/ Drains(c)
  <2>1. PICK c \in Conn : \/ ClientSends(c) \/ UpstreamAnswers(c)
                          \/ RestArrives(c) \/ PeerCloses(c) \/ PeerResets(c)
                          \/ ConnectCompletes(c) \/ Slows(c) \/ Drains(c)
    BY <1>2
  <2>2. CASE ClientSends(c) \/ UpstreamAnswers(c)
    BY <2>2, ClientStirs
  <2>3. CASE ~(ClientSends(c) \/ UpstreamAnswers(c))
    BY <2>1, <2>3, SocketStirs
  <2> QED  BY <2>2, <2>3
<1> QED  BY <1>1, <1>2 DEF Environment

LEMMA EnvironmentAwaits ==
    ASSUME LinkInv, AwaitInv, Environment
    PROVE  /\ AwaitInv' /\ (Held(sys) => Held(sys')) /\ sys'.panic = sys.panic
           /\ pc' = pc /\ cur' = cur /\ sys'.rings = sys.rings
           /\ "full" \notin Faults /\ "reset" \notin Faults /\ Fit(sys) => Fit(sys')
<1>1. ~sys.panic /\ batch' = batch /\ pc' = pc /\ cur' = cur
  BY DEF Environment, ClientConnects, HealthChanges, ClientSends, UpstreamAnswers,
         RestArrives, PeerCloses, PeerResets, ConnectCompletes, Slows, Drains,
         Sends, Open, Running, control
<1>2. PICK c \in Conn :
         /\ Stirs(sys, sys', c)
         /\ "full" \notin Faults /\ "reset" \notin Faults => Eases(sys, sys', c)
  BY EnvironmentStirs
<1>3. sys.rings \subseteq Conn
  BY LinkParts, RingsOld
<1>4. Held(sys) => Held(sys')
  BY <1>2 DEF Stirs, Outside, Held
<1>5. AwaitInv'
  <2>1. sys'.armed \subseteq sys'.rings
    BY <1>1, <1>2 DEF AwaitInv, Stirs, Outside
  <2>2. ASSUME NEW x \in sys.rings, sys.role[x] = "connecting"
        PROVE  Awaits(x)'
    <3>1. Awaits(x) /\ x \in Conn
      BY <1>1, <1>3, <2>2 DEF AwaitInv
    <3>2. /\ sys'.want = sys.want /\ sys'.fd = sys.fd /\ sys'.paused = sys.paused
          /\ sys'.tx[x] = "syn" => sys.tx[x] = "syn"
          /\ sys.rx[x] = "err" => sys'.rx[x] = "err"
      BY <1>2, <3>1 DEF Stirs, Outside
    <3> QED  BY <1>1, <3>1, <3>2 DEF Awaits, Served
  <2> QED  BY <1>2, <2>1, <2>2 DEF AwaitInv, Stirs, Outside
<1>6. ASSUME "full" \notin Faults, "reset" \notin Faults, Fit(sys)
      PROVE  Fit(sys')
  <2> SUFFICES ASSUME NEW x \in sys.rings
               PROVE  IF sys.role[x] = "connecting" THEN Idle(sys', x) ELSE Takes(sys', x)
    BY <1>2 DEF Fit, Stirs, Outside
  <2>1. CASE x = c
    BY <1>2, <1>6, <2>1 DEF Eases
  <2>2. CASE x # c
    <3>1. /\ sys'.tx[x] = sys.tx[x] /\ sys'.rx[x] = sys.rx[x]
          /\ sys'.remain = sys.remain
      BY <1>2, <1>3, <2>2 DEF Stirs, Outside
    <3> QED  BY <1>6, <3>1 DEF Fit, Idle, Takes
  <2> QED  BY <2>1, <2>2
<1> QED  BY <1>1, <1>2, <1>4, <1>5, <1>6 DEF Stirs, Outside

----------------------------------------------------------------------------
(* The invariants.                                                         *)

LEMMA RunProceeds ==
    ASSUME LinkInv, Private, AwaitInv, Run, ~Wait, ~Reselects
    PROVE  Proceeds /\ ~sys.panic
<1>1. Proceeds
  BY HandleProceeds, AcceptProceeds, ReadProceeds, ParseProceeds,
     DispatchProceeds, EndingProceeds DEF Run, Work, Read, Parse, Ending
<1>2. ~sys.panic
  BY DEF Run, Work, Handle, Accept, AcceptThen, AcceptDrops, AcceptAgain, AcceptFails,
         ReadGone, ReadPauses, ReadReturns, ReadCloses, ReadSome, Reading,
         ParseEnds, ParsePanics, ParseRejects, ParseWaits, CanParse, Parsing,
         Dispatch, SweepIdle, Stop, ShutdownOne, ShutdownEnds, At, Running
<1> QED  BY <1>1, <1>2

LEMMA RunBatch ==
    ASSUME LinkInv, Run, ~Wait, NEW i \in DOMAIN batch'
    PROVE  \E j \in DOMAIN batch : batch'[i] = batch[j]
<1>1. batch \in Seq(Events)
  BY DEF LinkInv, FlowInv, IInv
<1>2. CASE Handle
  <2>1. batch # <<>> /\ batch' = Tail(batch)
    BY <1>2 DEF Handle
  <2>2. /\ Len(batch) \in Nat /\ Tail(batch) \in Seq(Events)
        /\ Len(Tail(batch)) = Len(batch) - 1
        /\ \A j \in 1 .. Len(Tail(batch)) : Tail(batch)[j] = batch[j + 1]
    BY <1>1, <2>1, HeadTailProperties, LenProperties
  <2>3. i \in 1 .. Len(Tail(batch))
    BY <2>1, <2>2, LenProperties
  <2>4. i + 1 \in 1 .. Len(batch) /\ batch'[i] = batch[i + 1]
    BY <2>1, <2>2, <2>3
  <2> QED  BY <1>1, <2>4, LenProperties
<1>3. CASE ~Handle
  <2>1. batch' = batch
    BY <1>3 DEF Run, Work, Accept, AcceptThen, AcceptDrops, AcceptAgain, AcceptFails,
         ReadGone, ReadPauses, ReadReturns, ReadCloses, ReadSome, Reading,
         ParseEnds, ParsePanics, ParseRejects, ParseWaits, CanParse, Parsing,
         Dispatch, SweepIdle, Stop, ShutdownOne, ShutdownEnds
  <2> QED  BY <2>1
<1> QED  BY <1>2, <1>3

LEMMA InitAwaits == Init => AwaitInv /\ Held(sys)
<1> SUFFICES ASSUME Init PROVE AwaitInv /\ Held(sys)
  OBVIOUS
<1>1. sys.rings = {} /\ sys.armed = {}
  BY DEF Init
<1> QED  BY <1>1 DEF AwaitInv, Held

LEMMA WaitHolds ==
    ASSUME LinkInv, Wait
    PROVE  /\ Held(sys) => Held(sys')
           /\ Fit(sys) => Fit(sys')
           /\ sys'.panic = sys.panic /\ pc' = "loop"
BY LinkParts DEF Wait, At, Sys, Held, Fit, Idle, Takes

LEMMA NextAwaits ==
    LinkInv /\ LinkInv' /\ Private /\ AwaitInv
        /\ [Next]_vars /\ [~Reselects]_vars /\ [~Recycles]_vars => AwaitInv'
<1> SUFFICES ASSUME LinkInv, LinkInv', Private, AwaitInv,
                    [Next]_vars, [~Reselects]_vars, [~Recycles]_vars
             PROVE  AwaitInv'
  OBVIOUS
<1>1. CASE UNCHANGED vars
  BY <1>1 DEF vars, AwaitInv, Awaits, Served
<1>2. CASE Wait
  BY <1>2, WaitAwaits
<1>3. CASE Environment
  BY <1>3, EnvironmentAwaits
<1>4. CASE Run /\ ~Wait /\ ~(UNCHANGED vars)
  <2>1. ~sys.panic /\ Proceeds /\ ~Recycles
    BY <1>4, RunProceeds
  <2>2. PICK t : Minding(t)
    BY <2>1 DEF Proceeds
  <2>3. Good(sys')
    BY DEF LinkInv, FlowInv, IInv
  <2>4. \A i \in DOMAIN batch' : \E j \in DOMAIN batch : batch'[i] = batch[j]
    BY <1>4, RunBatch
  <2>5. CASE ~sys'.panic
    BY <2>1, <2>2, <2>3, <2>4, <2>5, NextAwait
  <2> QED  BY <2>5 DEF AwaitInv
<1> QED  BY <1>1, <1>2, <1>3, <1>4 DEF Next

LEMMA NextHeld ==
    LinkInv /\ Private /\ AwaitInv /\ Held(sys)
        /\ [Next]_vars /\ [~Reselects]_vars /\ [~GivesUp]_vars => Held(sys)'
<1> SUFFICES ASSUME LinkInv, Private, AwaitInv, Held(sys),
                    [Next]_vars, [~Reselects]_vars, [~GivesUp]_vars
             PROVE  Held(sys')
  OBVIOUS
<1>1. CASE UNCHANGED vars
  BY <1>1 DEF vars
<1>2. CASE Wait
  BY <1>2, WaitHolds
<1>3. CASE Environment
  BY <1>3, EnvironmentAwaits
<1>4. CASE Run /\ ~Wait /\ ~(UNCHANGED vars)
  <2>1. Proceeds /\ ~GivesUp
    BY <1>4, RunProceeds
  <2>2. PICK t : Minding(t) /\ Keeping(t)
    BY <2>1 DEF Proceeds
  <2>3. CASE sys' = t
    BY <2>1, <2>2, <2>3 DEF Keeping
  <2>4. CASE sys' = [sys EXCEPT !.panic = TRUE]
    BY <2>4, LinkParts DEF Held, Sys
  <2> QED  BY <2>2, <2>3, <2>4 DEF Minding, Lands
<1> QED  BY <1>1, <1>2, <1>3, <1>4 DEF Next

(* All that is open takes what is written to it, nothing has panicked, and *)
(* the parser has a ring to read.                                          *)
Calm == Fit(sys) /\ ~sys.panic /\ (pc = "parse" => cur \in sys.rings)

LEMMA InitCalm == Init => Calm
<1> SUFFICES ASSUME Init PROVE Calm
  OBVIOUS
<1>1. sys.rings = {} /\ ~sys.panic /\ pc = "loop"
  BY DEF Init
<1> QED  BY <1>1 DEF Calm, Fit

LEMMA NextCalm ==
    ASSUME "full" \notin Faults, "reset" \notin Faults
    PROVE  LinkInv /\ Private /\ AwaitInv /\ Calm
              /\ [Next]_vars /\ [~Reselects]_vars /\ [~Departs]_vars => Calm'
<1> SUFFICES ASSUME LinkInv, Private, AwaitInv, Calm,
                    [Next]_vars, [~Reselects]_vars, [~Departs]_vars
             PROVE  Calm'
  OBVIOUS
<1>1. CASE UNCHANGED vars
  BY <1>1 DEF vars, Calm
<1>2. CASE Wait
  BY <1>2, WaitHolds DEF Calm
<1>3. CASE Environment
  BY <1>3, EnvironmentAwaits DEF Calm
<1>4. CASE Run /\ ~Wait /\ ~(UNCHANGED vars)
  <2>1. Proceeds /\ ~Departs
    BY <1>4, RunProceeds
  <2>2. PICK t : Minding(t) /\ Sparing(t)
    BY <2>1 DEF Proceeds
  <2>3. Fit(t) /\ ~t.panic /\ (pc' = "parse" => cur' \in t.rings)
    BY <2>1, <2>2 DEF Sparing, Calm
  <2>4. sys' = t
    BY <2>2, <2>3 DEF Minding, Lands
  <2> QED  BY <2>3, <2>4 DEF Calm
<1> QED  BY <1>1, <1>2, <1>3, <1>4 DEF Next

(* A request kept for later always waits for a connect in progress, of the *)
(* connection its client is linked to, whatever closes, fails or finishes  *)
(* in whatever order; as long as no client's upstream is replaced, no      *)
(* event of the last Wait is left for a descriptor that is opened again,   *)
(* and neither the sweep nor the shutdown closes a connect under a client. *)
THEOREM HeldRequestsWait ==
    Spec /\ [][~Reselects]_vars /\ [][~Recycles]_vars /\ [][~GivesUp]_vars
        => []HeldIsConnecting
<1>1. LinkInv /\ Held(sys) => HeldIsConnecting
  <2> SUFFICES ASSUME LinkInv, Held(sys), NEW c \in sys.held, Live(sys, c)
               PROVE  sys.peer[c] # Nil /\ sys.role[sys.peer[c]] = "connecting"
    BY DEF HeldIsConnecting
  <2>1. c \in Conn /\ c \in sys.rings
    <3>1. c \in Conn
      BY LinkParts DEF Sys
    <3> QED  BY <3>1, LinkParts DEF Good, Sound, RingsLive
  <2> QED  BY <2>1 DEF Held
<1> QED  BY <1>1, InitLinks, InitPrivate, InitAwaits, NextLinks, NextPrivate,
            NextAwaits, NextHeld, PTL DEF Spec

(* No write is refused and no ring of a closed connection is parsed, so    *)
(* the goroutine does not panic, while send buffers always have room for   *)
(* part of a frame, no peer resets and no client sends CLOSE; as long as   *)
(* no client's upstream is replaced and no event of the last Wait is left  *)
(* for a descriptor that is opened again.                                  *)
THEOREM OrderlyPeersNoPanic ==
    ASSUME "full" \notin Faults, "reset" \notin Faults
    PROVE  Spec /\ [][~Reselects]_vars /\ [][~Recycles]_vars /\ [][~Departs]_vars
              => []NoPanic
<1>1. Calm => NoPanic
  BY DEF Calm, NoPanic
<1>2. LinkInv /\ Private /\ AwaitInv /\ Calm
         /\ [Next]_vars /\ [~Reselects]_vars /\ [~Departs]_vars => Calm'
  BY NextCalm
<1> QED  BY <1>1, <1>2, InitLinks, InitPrivate, InitAwaits, InitCalm, NextLinks,
            NextPrivate, NextAwaits, PTL DEF Spec

----------------------------------------------------------------------------
(* Answers: a request is in one place at a time.                           *)

(* What c was sent and will be, and what is left of its input.             *)
Sent(s, c)  == IF c \in s.rings THEN OutOf(s, c) ELSE s.got[c]
Input(s, c) == IF c \in s.rings THEN StreamOf(s, c) ELSE <<>>

(* The places of requests: the k-th frame of an output, and the k-th cell  *)
(* of an input, if a frame begins there.                                   *)
Ids   == 1 .. MaxReq
Pos   == Nat \ {0}
Lanes == Conn \X {"in", "out"}
Marked(s, l, k, i) ==
    IF l[2] = "out"
    THEN k \in 1 .. Len(Sent(s, l[1])) /\ Sent(s, l[1])[k].id = i
    ELSE /\ k \in 1 .. Len(Input(s, l[1]))
         /\ Input(s, l[1])[k][2] = 0 /\ Input(s, l[1])[k][1].id = i

Unseen(s, i) == \A l \in Lanes : \A k \in Pos : ~Marked(s, l, k, i)
Lone(s, i) ==
    \A l, m \in Lanes : \A j, k \in Pos :
        Marked(s, l, j, i) /\ Marked(s, m, k, i) => l = m /\ j = k

(* No request is in more places in t than in s.                            *)
Few(s, t) ==
    \A i \in Ids : (Lone(s, i) => Lone(t, i)) /\ (Unseen(s, i) => Unseen(t, i))

(* How a handler moves requests: some places are lost; one frame is added  *)
(* at the end of b; some cells are taken off the front of c's input; and   *)
(* both, with the frame that is added the one that is taken.               *)
Fewer(s, t) ==
    \A l \in Lanes : \A k \in Pos : \A i \in Ids : Marked(t, l, k, i) => Marked(s, l, k, i)
Tells(s, t, b, j) ==
    \E e \in Pos : \A l \in Lanes : \A k \in Pos : \A i \in Ids :
        Marked(t, l, k, i) => Marked(s, l, k, i) \/ (l = b /\ k = e /\ i = j)
Passes(s, t, a, b, j) ==
    \E m, e \in Pos : \A l \in Lanes : \A k \in Pos : \A i \in Ids :
        Marked(t, l, k, i) =>
            IF l = a THEN Marked(s, l, k + m, i)
            ELSE Marked(s, l, k, i) \/ (l = b /\ k = e /\ i = j)
Eats(s, t, c) == Passes(s, t, <<c, "in">>, <<c, "out">>, 0)

LEMMA FewTrans ==
    ASSUME NEW s, NEW t, NEW u, Few(s, t), Few(t, u)
    PROVE  Few(s, u)
BY DEF Few

LEMMA FewerTrans ==
    ASSUME NEW s, NEW t, NEW u, Fewer(s, t), Fewer(t, u)
    PROVE  Fewer(s, u)
BY DEF Fewer

LEMMA FewerFew ==
    ASSUME NEW s, NEW t, Fewer(s, t)
    PROVE  Few(s, t)
<1> SUFFICES ASSUME NEW i \in Ids
             PROVE  /\ Lone(s, i) => Lone(t, i)
                    /\ Unseen(s, i) => Unseen(t, i)
  BY DEF Few
<1>1. \A l \in Lanes : \A k \in Pos : Marked(t, l, k, i) => Marked(s, l, k, i)
  BY DEF Fewer
<1>2. Unseen(s, i) => Unseen(t, i)
  BY <1>1 DEF Unseen
<1>3. Lone(s, i) => Lone(t, i)
  BY <1>1 DEF Lone
<1> QED  BY <1>2, <1>3

LEMMA FewerTells ==
    ASSUME NEW s, NEW t, NEW b, NEW j, Fewer(s, t)
    PROVE  Tells(s, t, b, j)
<1>1. 1 \in Pos
  BY DEF Pos
<1> QED  BY <1>1 DEF Fewer, Tells

LEMMA TellsFewer ==
    ASSUME NEW s, NEW t, NEW u, NEW b, NEW j, Tells(s, t, b, j), Fewer(t, u)
    PROVE  Tells(s, u, b, j)
BY DEF Fewer, Tells

(* A request that is passed on leaves where it was.                        *)
LEMMA PassFew ==
    ASSUME NEW s, NEW t, NEW a \in Lanes, NEW b \in Lanes, NEW j,
           Passes(s, t, a, b, j), a # b, j = 0 \/ Marked(s, a, 1, j)
    PROVE  Few(s, t)
<1> PICK m \in Pos, e \in Pos :
       \A l \in Lanes : \A k \in Pos : \A i \in Ids :
           Marked(t, l, k, i) =>
               IF l = a THEN Marked(s, l, k + m, i)
               ELSE Marked(s, l, k, i) \/ (l = b /\ k = e /\ i = j)
  BY DEF Passes
<1> SUFFICES ASSUME NEW i \in Ids
             PROVE  /\ Lone(s, i) => Lone(t, i)
                    /\ Unseen(s, i) => Unseen(t, i)
  BY DEF Few
<1>1. i # 0 /\ 1 \in Pos
  BY ReactorAssumption DEF Ids, Pos
<1>2. \A k \in Pos : k + m \in Pos /\ k + m # 1
  BY DEF Pos
<1>3. ASSUME NEW l \in Lanes, NEW k \in Pos, Marked(t, l, k, i)
      PROVE  \/ l = a /\ Marked(s, a, k + m, i)
             \/ l # a /\ Marked(s, l, k, i)
             \/ l = b /\ k = e /\ Marked(s, a, 1, i)
  BY <1>1, <1>3
<1>4. Unseen(s, i) => Unseen(t, i)
  BY <1>1, <1>2, <1>3 DEF Unseen
<1>5. ASSUME Lone(s, i), NEW l \in Lanes, NEW n \in Lanes, NEW k \in Pos, NEW h \in Pos,
             Marked(t, l, k, i), Marked(t, n, h, i)
      PROVE  l = n /\ k = h
  <2>0. \A p, q \in Lanes : \A x, y \in Pos :
           Marked(s, p, x, i) /\ Marked(s, q, y, i) => p = q /\ x = y
    BY <1>5 DEF Lone
  <2>1. CASE l = a /\ Marked(s, a, k + m, i)
    <3>1. n = a /\ Marked(s, a, h + m, i)
      BY <1>1, <1>2, <1>3, <1>5, <2>0, <2>1
    <3>2. k + m = h + m
      BY <1>2, <2>0, <2>1, <3>1
    <3> QED  BY <2>1, <3>1, <3>2 DEF Pos
  <2>2. CASE l # a /\ Marked(s, l, k, i)
    <3>1. n # a /\ Marked(s, n, h, i)
      BY <1>1, <1>2, <1>3, <1>5, <2>0, <2>2
    <3> QED  BY <2>0, <2>2, <3>1
  <2>3. CASE l = b /\ k = e /\ Marked(s, a, 1, i)
    <3>1. n = b /\ h = e
      BY <1>1, <1>2, <1>3, <1>5, <2>0, <2>3
    <3> QED  BY <2>3, <3>1
  <2> QED  BY <1>3, <1>5, <2>1, <2>2, <2>3
<1>6. Lone(s, i) => Lone(t, i)
  BY <1>5 DEF Lone
<1> QED  BY <1>4, <1>6

LEMMA LaneIn ==
    ASSUME NEW c \in Conn
    PROVE  <<c, "in">> \in Lanes /\ <<c, "out">> \in Lanes
BY DEF Lanes

LEMMA EatsFew ==
    ASSUME NEW s, NEW t, NEW c \in Conn, Eats(s, t, c)
    PROVE  Few(s, t)
BY LaneIn, PassFew DEF Eats

LEMMA TellsNone ==
    ASSUME NEW s, NEW t, NEW b, Tells(s, t, b, 0)
    PROVE  Fewer(s, t)
BY ReactorAssumption DEF Tells, Fewer, Ids

(* A frame made of the first of a, which is then taken off a.              *)
LEMMA TellsPasses ==
    ASSUME NEW s, NEW t, NEW u, NEW a \in Lanes, NEW b \in Lanes, NEW d, NEW j,
           a # b, Tells(s, t, b, j), Passes(t, u, a, d, 0),
           j = 0 \/ Marked(s, a, 1, j)
    PROVE  Few(s, u)
<1>1. PICK e \in Pos :
         \A l \in Lanes : \A k \in Pos : \A i \in Ids :
             Marked(t, l, k, i) => Marked(s, l, k, i) \/ (l = b /\ k = e /\ i = j)
  BY DEF Tells
<1>2. PICK m \in Pos : \A l \in Lanes : \A k \in Pos : \A i \in Ids :
         Marked(u, l, k, i) =>
             IF l = a THEN Marked(t, l, k + m, i) ELSE Marked(t, l, k, i)
  BY ReactorAssumption DEF Passes, Ids
<1>3. \A k \in Pos : k + m \in Pos
  BY DEF Pos
<1>4. ASSUME NEW l \in Lanes, NEW k \in Pos, NEW i \in Ids, Marked(u, l, k, i)
      PROVE  IF l = a THEN Marked(s, l, k + m, i)
             ELSE Marked(s, l, k, i) \/ (l = b /\ k = e /\ i = j)
  <2>1. CASE l = a
    <3>1. Marked(t, l, k + m, i) /\ k + m \in Pos
      BY <1>2, <1>3, <1>4, <2>1
    <3> QED  BY <1>1, <2>1, <3>1
  <2>2. CASE l # a
    BY <1>1, <1>2, <1>4, <2>2
  <2> QED  BY <2>1, <2>2
<1>5. Passes(s, u, a, b, j)
  BY <1>4 DEF Passes
<1> QED  BY <1>5, PassFew

(* An answer to the frame that c's parser stands at, which is then eaten.  *)
LEMMA TellsEats ==
    ASSUME NEW s, NEW t, NEW u, NEW c \in Conn, NEW d \in Conn, NEW j,
           Tells(s, t, <<d, "out">>, j), Eats(t, u, c),
           j = 0 \/ Marked(s, <<c, "in">>, 1, j)
    PROVE  Few(s, u)
<1>1. <<c, "in">> # <<d, "out">>
  OBVIOUS
<1> QED  BY <1>1, LaneIn, TellsPasses DEF Eats

(* Connections may close; the others have the input and output they had.   *)
Kept(s, t) ==
    /\ t.rings \subseteq s.rings
    /\ \A x \in Conn :
          IF x \in t.rings
          THEN OutOf(t, x) = OutOf(s, x) /\ StreamOf(t, x) = StreamOf(s, x)
          ELSE t.got[x] = s.got[x]

LEMMA KeptFewer ==
    ASSUME NEW s \in Sys, NEW t, Kept(s, t)
    PROVE  Fewer(s, t)
<1> SUFFICES ASSUME NEW l \in Lanes, NEW k \in Pos, NEW i \in Ids, Marked(t, l, k, i)
             PROVE  Marked(s, l, k, i)
  BY DEF Fewer
<1> DEFINE x == l[1]
<1>1. x \in Conn
  BY DEF Lanes
<1>2. CASE x \in t.rings
  BY <1>1, <1>2 DEF Kept, Marked, Sent, Input
<1>3. CASE x \notin t.rings
  <2>1. l[2] = "out" /\ k \in 1 .. Len(s.got[x]) /\ s.got[x][k].id = i
    <3>1. Input(t, x) = <<>> /\ Sent(t, x) = s.got[x]
      BY <1>1, <1>3 DEF Kept, Sent, Input
    <3>2. ~(k \in 1 .. Len(<<>>))
      BY DEF Pos
    <3> QED  BY <3>1, <3>2 DEF Marked
  <2>2. s.got[x] \in Seq(Frame) /\ s.remain[x] \in Seq(Frame)
    BY <1>1, OutType
  <2>3. k \in 1 .. Len(OutOf(s, x)) /\ OutOf(s, x)[k] = s.got[x][k]
    BY <2>1, <2>2, FirstOfConcat DEF OutOf
  <2> QED  BY <2>1, <2>3 DEF Marked, Sent
<1> QED  BY <1>2, <1>3

LEMMA TrimsStreams ==
    ASSUME NEW s, NEW t, Trims(s, t), NEW x \in Conn, x \in t.rings
    PROVE  StreamOf(t, x) = StreamOf(s, x) /\ HeadOf(t, x) = HeadOf(s, x)
BY DEF Trims, StreamOf, HeadOf

LEMMA MuteFewer ==
    ASSUME NEW s \in Sys, NEW t, Trims(s, t), Mute(s, t)
    PROVE  Fewer(s, t)
<1>1. Kept(s, t)
  BY TrimsStreams DEF Kept, Mute, OutOf, Trims
<1> QED  BY <1>1, KeptFewer

LEMMA OneMoreTells ==
    ASSUME NEW s \in Sys, NEW t, NEW c \in Conn, NEW f \in Frame,
           OneMore(s, t, c, f), Quiet(s, t), c \in s.rings
    PROVE  Tells(s, t, <<c, "out">>, f.id)
<1> DEFINE b == <<c, "out">>
           p == OutOf(s, c)
           e == Len(p) + 1
<1>1. p \in Seq(Frame) /\ Len(p) \in Nat /\ e \in Pos
  BY OutType DEF Pos
<1>2. OutOf(t, c) = p \/ OutOf(t, c) = Append(p, f)
  BY DEF OneMore
<1>3. /\ Len(Append(p, f)) = e /\ Append(p, f)[e] = f
      /\ \A k \in 1 .. Len(p) : Append(p, f)[k] = p[k]
  BY <1>1, AppendProperties
<1>4. ASSUME NEW x \in Conn PROVE Input(t, x) = Input(s, x)
  BY QuietTrims, TrimsStreams DEF Quiet, Input
<1>5. ASSUME NEW x \in Conn, x # c PROVE Sent(t, x) = Sent(s, x)
  BY <1>5 DEF Quiet, Sent, OneMore, OnlyTo, OutOf
<1>6. Sent(s, c) = p /\ Sent(t, c) = OutOf(t, c)
  BY DEF Quiet, Sent
<1> HIDE DEF p, e
<1>7. ASSUME NEW l \in Lanes, NEW k \in Pos, NEW i \in Ids, Marked(t, l, k, i)
      PROVE  Marked(s, l, k, i) \/ (l = b /\ k = e /\ i = f.id)
  <2>1. l[1] \in Conn
    BY DEF Lanes
  <2>2. CASE l # b
    <3>1. l[2] # "out" \/ l[1] # c
      BY <2>2 DEF Lanes
    <3> QED  BY <1>4, <1>5, <1>7, <2>1, <3>1 DEF Marked
  <2>3. CASE l = b
    <3>1. k \in 1 .. Len(OutOf(t, c)) /\ OutOf(t, c)[k].id = i
      BY <1>6, <1>7, <2>3 DEF Marked
    <3>2. k \in 1 .. Len(p) /\ p[k].id = i => Marked(s, l, k, i)
      BY <1>6, <2>3 DEF Marked
    <3>3. CASE OutOf(t, c) = p
      BY <3>1, <3>2, <3>3
    <3>4. CASE OutOf(t, c) = Append(p, f)
      <4>1. k \in 1 .. e
        BY <1>3, <3>1, <3>4
      <4>2. CASE k = e
        BY <1>3, <2>3, <3>1, <3>4, <4>2
      <4>3. CASE k # e
        <5>1. k \in 1 .. Len(p)
          BY <1>1, <4>1, <4>3 DEF e
        <5> QED  BY <1>3, <3>1, <3>2, <3>4, <5>1
      <4> QED  BY <4>2, <4>3
    <3> QED  BY <1>2, <3>3, <3>4
  <2> QED  BY <2>2, <2>3
<1>8. e \in Pos
  BY <1>1
<1> QED  BY <1>7, <1>8 DEF Tells, b

(* A client outlives an upstream connection of its own that closes: what   *)
(* closeConn then owes it may answer a request that was answered before.   *)
Deserted(s, t) ==
    \E u \in s.rings : IsUp(s, u) /\ u \notin t.rings /\ s.peer[u] \in t.rings

Turns(s, t) == Few(s, t) \/ Deserted(s, t)

LEMMA FewerTurns ==
    ASSUME NEW s, NEW t, Fewer(s, t)
    PROVE  Turns(s, t)
BY FewerFew DEF Turns

LEMMA WriteTells ==
    ASSUME NEW s, NEW c \in Conn, NEW f \in Frame, Good(s), c \in s.rings
    PROVE  LET t == Write(s, c, f)
           IN  Tells(s, t, <<c, "out">>, f.id) /\ t.rings = s.rings
<1> DEFINE t == Write(s, c, f)
<1>1. OneMore(s, t, c, f) /\ Quiet(s, t) /\ s \in Sys
  BY GoodSys, RingOwn, WriteOut, WriteQuiet
<1> HIDE DEF t
<1>2. Tells(s, t, <<c, "out">>, f.id)
  BY <1>1, OneMoreTells
<1> QED  BY <1>1, <1>2 DEF Quiet, t

LEMMA WriteRoom ==
    ASSUME NEW s, NEW c \in Conn, NEW f \in Frame, Good(s), c \in s.rings,
           Room(s, c) # "broken"
    PROVE  Room(Write(s, c, f), c) # "broken"
<1> DEFINE t == Write(s, c, f)
<1>1. s \in Sys /\ Owns(s, c)
  BY GoodSys, RingOwn, OwnOwns
<1>2. Puts(s, t, c) /\ t.tx[c] \in {s.tx[c], "full"} /\ Sock(s, c) = c
  BY <1>1, WritePuts, OwnsRoom
<1> HIDE DEF t
<1>3. Sock(t, c) = c
  BY <1>2 DEF Sock, Puts, Same
<1> QED  BY <1>2, <1>3 DEF Room, t

(* Nothing stashed for a closed connection is ever sent.                   *)
LEMMA SpillFewer ==
    ASSUME NEW s \in Sys, NEW c \in Conn, NEW f, c \notin s.rings
    PROVE  Fewer(s, Spill(s, c, f)) /\ Spill(s, c, f).rings = s.rings
<1> DEFINE r == IF s.remain[c] = <<>> THEN s.remain[c] ELSE Append(s.remain[c], f)
           t == [s EXCEPT !.remain[c] = r]
<1>1. Spill(s, c, f) = t
  BY DEF Spill, Sys
<1> HIDE DEF r
<1>2. Quiet(s, t) /\ t.got = s.got /\ \A x \in Conn : x # c => t.remain[x] = s.remain[x]
  BY OutQuiet DEF Sys
<1> HIDE DEF t
<1>3. Trims(s, t) /\ t.rings = s.rings
  BY <1>2, QuietTrims DEF Quiet
<1>4. Kept(s, t)
  BY <1>2, <1>3, TrimsStreams DEF Kept, OutOf
<1> QED  BY <1>1, <1>3, <1>4, KeptFewer

LEMMA DropLiveFewer ==
    ASSUME NEW s, NEW c \in Conn, Good(s), s.peer[c] = Nil
    PROVE  LET t == DropLive(s, c)
           IN  Fewer(s, t) /\ c \notin t.rings /\ t \in Sys
<1> DEFINE t == DropLive(s, c)
<1>1. s \in Sys /\ Sound(s)
  BY GoodSys DEF Good
<1>2. Trims(s, t) /\ t.rings = s.rings \ {c} /\ t \in Sys
  BY <1>1, DropLiveTrims, DropLiveServes, DropLiveCloses, GoodSys DEF Closes
<1>3. Mute(s, t)
  BY <1>1, DropParts DEF DropLive, Mute
<1> HIDE DEF t
<1> QED  BY <1>1, <1>2, <1>3, MuteFewer DEF t

(* closeConn of one side of a pair: the client is told, or gone too.       *)
LEMMA CloseConnTurns ==
    ASSUME NEW s, NEW c \in Conn, Good(s), Wired(s)
    PROVE  LET t == CloseConn(s, c)
           IN  /\ c \notin t.rings
               /\ \/ Fewer(s, t) /\ s.peer[c] \notin t.rings
                  \/ /\ Deserted(s, t) /\ IsUp(s, c) /\ s.peer[c] \in t.rings
                     /\ Room(t, s.peer[c]) # "broken"
<1> DEFINE p == s.peer[c]
           q == Drop(s, c)
           u == Unlink(q, p)
           f == ErrorOf(u.pend[p].id)
           r == CloseConn(s, c)
<1>0. s \in Sys /\ Nil \notin r.rings /\ c \notin r.rings
  <2>1. r \in Sys /\ c \notin r.rings
    BY CloseConnServes, CloseConnFades, GoodSys
  <2> HIDE DEF r
  <2> QED  BY <2>1, GoodSys, ReactorAssumption DEF Sys
<1>s. Fewer(s, s)
  BY DEF Fewer
<1>1. CASE ~Live(s, c)
  <2>1. r = s /\ c \notin s.rings
    BY <1>1 DEF CloseConn, Good, Sound, RingsLive
  <2>2. p = Nil
    BY <2>1 DEF Wired
  <2> HIDE DEF r
  <2> QED  BY <1>0, <1>s, <2>1, <2>2 DEF r
<1>2. CASE Live(s, c) /\ p = Nil
  <2>1. r = DropLive(s, c)
    BY <1>2 DEF CloseConn, DropLive
  <2> HIDE DEF r
  <2> QED  BY <1>0, <1>2, <2>1, DropLiveFewer DEF r
<1>3. CASE Live(s, c) /\ p # Nil
  <2>1. /\ q \in Sys /\ q.peer[p] = c /\ p \in Conn /\ Good(u) /\ Closes(s, u)
        /\ u.peer[p] = Nil /\ f \in Frame
    BY <1>3, UnlinkCloses DEF Closes
  <2>2. r = IF u.role[p] = "down" THEN ReplyAlone(u, p, f) ELSE DropLive(u, p)
    BY <1>3, <2>1 DEF CloseConn
  <2>3. /\ Trims(s, q) /\ q.rings = s.rings \ {c} /\ q.role = s.role /\ Mute(s, q)
    BY <1>0, <1>3, DropTrims, DropParts DEF Mute, Good
  <2> HIDE DEF q
  <2>4. Quiet(q, u) /\ Mute(q, u)
    BY <2>1, PeerQuiet DEF Unlink, Mute, Sys
  <2> HIDE DEF u, f, r
  <2>5. p # c /\ s.peer[p] = c /\ c # Nil
    BY <1>3, PeerApart, ReactorAssumption DEF Good, Paired
  <2>6. p \in s.rings /\ p \in u.rings /\ c \notin u.rings /\ u.role = s.role
    BY <2>1, <2>3, <2>4, <2>5 DEF Wired, Quiet
  <2>7. Fewer(s, u)
    <3>1. Trims(s, u) /\ Mute(s, u)
      BY <2>3, <2>4, QuietTrims, TrimsTrans DEF Mute
    <3> QED  BY <1>0, <3>1, MuteFewer
  <2>8. CASE u.role[p] # "down"
    <3>1. r = DropLive(u, p)
      BY <2>2, <2>8
    <3>2. Fewer(u, r) /\ p \notin r.rings
      BY <2>1, <3>1, DropLiveFewer
    <3> QED  BY <1>0, <2>7, <3>2, FewerTrans DEF r
  <2>9. CASE u.role[p] = "down" /\ Room(u, p) = "broken"
    <3> DEFINE v == DropLive(u, p)
    <3>1. r = Spill(v, p, f)
      BY <2>2, <2>9 DEF ReplyAlone
    <3>2. Fewer(u, v) /\ p \notin v.rings /\ v \in Sys
      BY <2>1, DropLiveFewer
    <3> HIDE DEF v
    <3>3. Fewer(v, r) /\ r.rings = v.rings
      BY <2>1, <3>1, <3>2, SpillFewer
    <3> QED  BY <1>0, <2>7, <3>2, <3>3, FewerTrans DEF r
  <2>10. CASE u.role[p] = "down" /\ Room(u, p) # "broken"
    <3>1. r = Write(u, p, f)
      BY <2>2, <2>10 DEF ReplyAlone
    <3>2. r.rings = u.rings /\ Room(r, p) # "broken"
      BY <2>1, <2>6, <2>10, <3>1, WriteTells, WriteRoom
    <3>3. IsUp(s, c) /\ c \in s.rings
      <4>1. s.role[p] = "down"
        BY <2>6, <2>10
      <4>2. s.peer[p] # Nil
        BY <2>5
      <4> QED  BY <1>3, <2>1, <2>5, <4>1, <4>2 DEF Good, Paired, Sound, RingsLive
    <3>4. Deserted(s, r)
      BY <2>6, <3>2, <3>3 DEF Deserted
    <3> QED  BY <1>0, <2>6, <3>2, <3>3, <3>4 DEF r
  <2> QED  BY <2>8, <2>9, <2>10
<1> QED  BY <1>1, <1>2, <1>3

LEMMA CloseTurns ==
    ASSUME NEW s, NEW c \in Conn, Good(s), Wired(s)
    PROVE  /\ Turns(s, CloseConn(s, c))
           /\ ~IsUp(s, c) => Fewer(s, CloseConn(s, c))
BY CloseConnTurns, FewerTurns DEF Turns

(* flush: one more frame, or the connection it failed on closes.           *)
LEMMA FlushTells ==
    ASSUME NEW s, NEW c \in Conn, NEW f \in Frame, Good(s), Wired(s), c \in s.rings
    PROVE  LET t == Flush(s, c, f)
           IN  \/ Tells(s, t, <<c, "out">>, f.id)
               \/ Deserted(s, t) /\ IsUp(s, c) /\ Room(s, c) = "broken"
<1> DEFINE v == Flush(s, c, f)
<1>1. CASE Room(s, c) = "broken"
  <2> DEFINE t == CloseConn(s, c)
  <2>1. /\ c \notin t.rings /\ t \in Sys
        /\ Fewer(s, t) \/ (Deserted(s, t) /\ IsUp(s, c))
    BY CloseConnTurns, CloseConnFades, GoodSys
  <2>2. v = Spill(t, c, f)
    BY <1>1 DEF Flush
  <2> HIDE DEF t, v
  <2>3. Fewer(t, v) /\ v.rings = t.rings
    BY <2>1, <2>2, SpillFewer
  <2>4. Deserted(s, t) => Deserted(s, v)
    BY <2>3 DEF Deserted
  <2>5. CASE Fewer(s, t)
    <3>1. Tells(s, v, <<c, "out">>, f.id)
      BY <2>3, <2>5, FewerTrans, FewerTells
    <3> QED  BY <3>1 DEF v
  <2> QED  BY <1>1, <2>1, <2>4, <2>5 DEF v
<1>2. CASE Room(s, c) # "broken"
  <2>1. v = Write(s, c, f)
    BY <1>2 DEF Flush
  <2> QED  BY <2>1, WriteTells
<1> QED  BY <1>1, <1>2

LEMMA FlushRemainTurns ==
    ASSUME NEW s, NEW c \in Conn, Good(s), Wired(s), c \in s.rings
    PROVE  Turns(s, FlushRemain(s, c))
<1>1. CASE s.remain[c] # <<>> /\ Room(s, c) = "broken"
  BY <1>1, CloseTurns DEF FlushRemain
<1>2. CASE ~(s.remain[c] # <<>> /\ Room(s, c) = "broken")
  <2> DEFINE t == Resend(s, c)
  <2>1. s \in Sys /\ Own(s, c)
    BY GoodSys, RingOwn
  <2>2. Quiet(s, t) /\ OnlyTo(s, t, c) /\ OutOf(t, c) = OutOf(s, c)
    BY <2>1, ResendQuiet, ResendOut
  <2>3. FlushRemain(s, c) = t
    BY <1>2 DEF FlushRemain
  <2> HIDE DEF t
  <2>4. Trims(s, t) /\ t.rings = s.rings
    BY <2>2, QuietTrims DEF Quiet
  <2>5. Kept(s, t)
    <3> SUFFICES ASSUME NEW x \in Conn
                 PROVE  IF x \in t.rings
                        THEN OutOf(t, x) = OutOf(s, x) /\ StreamOf(t, x) = StreamOf(s, x)
                        ELSE t.got[x] = s.got[x]
      BY <2>4 DEF Kept
    <3>1. x # c => t.got[x] = s.got[x] /\ t.remain[x] = s.remain[x]
      BY <2>2 DEF OnlyTo
    <3>2. x \in t.rings => StreamOf(t, x) = StreamOf(s, x)
      BY <2>4, TrimsStreams
    <3> QED  BY <2>2, <2>4, <3>1, <3>2 DEF OutOf
  <2> QED  BY <2>1, <2>3, <2>5, KeptFewer, FewerTurns
<1> QED  BY <1>1, <1>2

(* The frame that c's parser stands at leaves its input.                   *)
LEMMA ConsumeEats ==
    ASSUME NEW s, NEW c \in Conn, Good(s), c \in s.rings => Fed(s, c),
           AtFrame(s, c), NEW t, t = Consume(s, c) \/ t = Release(s, c)
    PROVE  Eats(s, t, c) /\ t.rings = s.rings /\ Mute(s, t)
<1> DEFINE n == s.hdr[c].len
           m == n + 1
           a == <<c, "in">>
<1>1. s \in Sys /\ n \in Nat /\ m \in Pos /\ t \in Sys
  <2>1. s \in Sys /\ n \in Nat
    BY GoodSys, HdrType
  <2>2. t \in Sys
    BY ConsumeCloses, ReleaseCloses, GoodSys DEF Closes
  <2> QED  BY <2>1, <2>2 DEF Pos
<1>2. /\ t.rings = s.rings /\ Mute(s, t)
      /\ t.inbox = s.inbox /\ t.wire = s.wire /\ t.rx = s.rx /\ t.hdr = s.hdr
      /\ t.have = s.have \ {c} \/ (c \notin s.rings /\ t.have = s.have)
      /\ t.have \ {c} = s.have \ {c}
      /\ \A x \in Conn : x # c => t.ring[x] = s.ring[x]
      /\ c \in s.rings => t.ring[c] = SubSeq(s.ring[c], n + 1, Len(s.ring[c]))
  <2> DEFINE u == Consume(s, c)
             v == [u EXCEPT !.held = @ \ {c}]
  <2>1. /\ u.rings = s.rings /\ Mute(s, u)
        /\ u.inbox = s.inbox /\ u.wire = s.wire /\ u.rx = s.rx /\ u.hdr = s.hdr
        /\ u.have = s.have \ {c} \/ (c \notin s.rings /\ u.have = s.have)
        /\ u.have \ {c} = s.have \ {c}
        /\ \A x \in Conn : x # c => u.ring[x] = s.ring[x]
        /\ c \in s.rings => u.ring[c] = SubSeq(s.ring[c], n + 1, Len(s.ring[c]))
    <3>2. CASE c \in s.rings
      <4> DEFINE b == SubSeq(s.ring[c], n + 1, Len(s.ring[c]))
      <4>1. u = [s EXCEPT !.have = @ \ {c}, !.ring[c] = b]
        BY <3>2 DEF Consume
      <4>2. s.ring \in [Conn -> Seq(Cell)]
        BY <1>1 DEF Sys
      <4> HIDE DEF b, u, n
      <4>3. /\ u.rings = s.rings /\ u.got = s.got /\ u.remain = s.remain
            /\ u.inbox = s.inbox /\ u.wire = s.wire /\ u.rx = s.rx /\ u.hdr = s.hdr
            /\ u.have = s.have \ {c} /\ u.ring = [s.ring EXCEPT ![c] = b]
        BY <1>1, <4>1 DEF Sys
      <4>4. u.ring[c] = b /\ \A x \in Conn : x # c => u.ring[x] = s.ring[x]
        BY <4>2, <4>3
      <4>5. u.have \ {c} = s.have \ {c}
        BY <4>3
      <4> QED  BY <4>3, <4>4, <4>5 DEF Mute, b
    <3>3. CASE c \notin s.rings
      <4>1. u = [s EXCEPT !.panic = TRUE] \/ u = [s EXCEPT !.have = @ \ {c}]
        BY <3>3 DEF Consume
      <4> HIDE DEF u, n
      <4>2. /\ u.rings = s.rings /\ u.got = s.got /\ u.remain = s.remain
            /\ u.inbox = s.inbox /\ u.wire = s.wire /\ u.rx = s.rx /\ u.hdr = s.hdr
            /\ u.ring = s.ring /\ u.have \in {s.have, s.have \ {c}}
        <5>1. CASE u = [s EXCEPT !.panic = TRUE]
          BY <1>1, <5>1 DEF Sys
        <5>2. CASE u = [s EXCEPT !.have = @ \ {c}]
          BY <1>1, <5>2 DEF Sys
        <5> QED  BY <4>1, <5>1, <5>2
      <4>3. u.have \ {c} = s.have \ {c}
        BY <4>2
      <4> QED  BY <3>3, <4>2, <4>3 DEF Mute
    <3> QED  BY <3>2, <3>3
  <2>2. t = u \/ t = v
    BY DEF Release
  <2>4. u \in Sys
    BY ConsumeCloses, GoodSys DEF Closes
  <2> HIDE DEF u
  <2>3. /\ v.rings = u.rings /\ Mute(u, v)
        /\ v.inbox = u.inbox /\ v.wire = u.wire /\ v.rx = u.rx /\ v.hdr = u.hdr
        /\ v.have = u.have /\ v.ring = u.ring
    BY <2>4 DEF Sys, Mute
  <2> HIDE DEF v
  <2> QED  BY <2>1, <2>2, <2>3 DEF Mute
<1>3. ASSUME NEW x \in Conn PROVE Sent(t, x) = Sent(s, x)
  BY <1>2 DEF Mute, Sent, OutOf
<1>4. ASSUME NEW x \in Conn, x # c PROVE Input(t, x) = Input(s, x)
  <2>1. x \in t.have <=> x \in s.have
    BY <1>2, <1>4
  <2> QED  BY <1>2, <1>4, <2>1 DEF Input, StreamOf, HeadOf
<1>5. ASSUME NEW k \in Pos, k \in 1 .. Len(Input(t, c))
      PROVE  k + m \in 1 .. Len(Input(s, c)) /\ Input(t, c)[k] = Input(s, c)[k + m]
  <2>1. c \in s.rings
    <3>1. ~(k \in 1 .. Len(<<>>))
      BY DEF Pos
    <3> QED  BY <1>2, <1>5, <3>1 DEF Input
  <2>2. c \in s.have /\ n <= Len(s.ring[c]) /\ Fed(s, c) /\ c \notin t.have
    <3>1. Len(s.ring[c]) \in Nat
      BY <1>1, LenProperties DEF Sys
    <3> QED  BY <1>1, <1>2, <2>1, <3>1 DEF AtFrame
  <2> DEFINE q == StreamOf(s, c)
             r == StreamOf(t, c)
  <2>3. r = SubSeq(q, n + 2, Len(q))
    BY <1>1, <1>2, <2>1, <2>2, FedConsume
  <2>4. q \in Seq(Cell) /\ r \in Seq(Cell) /\ Len(q) \in Nat
    BY <1>1, StreamType, LenProperties
  <2>7. m <= Len(q)
    <3> DEFINE z == s.ring[c] \o (s.inbox[c] \o s.wire[c])
               y == s.ring[c]
               x == s.inbox[c] \o s.wire[c]
    <3>1. /\ HeadOf(s, c) \in Seq(Cell) /\ y \in Seq(Cell) /\ z \in Seq(Cell)
          /\ x \in Seq(Cell)
          /\ q = HeadOf(s, c) \o z /\ Len(HeadOf(s, c)) = 1
      BY <1>1, <2>2, StreamType, StreamNested DEF HeadOf
    <3>2. Len(z) = Len(y) + Len(x)
      BY <3>1, ConcatProperties
    <3>3. Len(y) \in Nat /\ Len(x) \in Nat
      BY <3>1, LenProperties
    <3> HIDE DEF z, q, n
    <3>4. Len(q) = 1 + Len(z)
      BY <3>1, ConcatProperties
    <3> HIDE DEF x
    <3>5. n \in Nat /\ n <= Len(y)
      BY <1>1, <2>2 DEF y, n
    <3> QED  BY <3>2, <3>3, <3>4, <3>5
  <2>5. Input(t, c) = r /\ Input(s, c) = q
    BY <1>2, <2>1 DEF Input
  <2> HIDE DEF q, r, n
  <2>6. n + 2 = m + 1 /\ m \in Nat
    BY <1>1
  <2>8. Len(r) = Len(q) - m /\ \A i \in 1 .. Len(q) - m : r[i] = q[m + i]
    BY <2>3, <2>4, <2>6, <2>7, DropSeq
  <2> QED  BY <1>1, <1>5, <2>4, <2>5, <2>6, <2>7, <2>8 DEF Pos
<1>6. ASSUME NEW l \in Lanes, NEW k \in Pos, NEW i \in Ids, Marked(t, l, k, i)
      PROVE  IF l = a THEN Marked(s, l, k + m, i) ELSE Marked(s, l, k, i)
  <2>1. l[1] \in Conn
    BY DEF Lanes
  <2>2. CASE l = a
    BY <1>5, <1>6, <2>2 DEF Marked
  <2>3. CASE l # a
    <3>1. l[2] = "out" \/ l[1] # c
      BY <2>3 DEF Lanes
    <3> QED  BY <1>3, <1>4, <1>6, <2>1, <2>3, <3>1 DEF Marked
  <2> QED  BY <2>2, <2>3
<1>7. Eats(s, t, c)
  <2> HIDE DEF m, a
  <2>1. \A l \in Lanes : \A k \in Pos : \A i \in Ids :
           Marked(t, l, k, i) =>
               IF l = a THEN Marked(s, l, k + m, i)
               ELSE Marked(s, l, k, i) \/ (l = <<c, "out">> /\ k = 1 /\ i = 0)
    BY <1>6
  <2>2. 1 \in Pos
    BY DEF Pos
  <2> QED  BY <1>1, <2>1, <2>2 DEF Eats, Passes, a
<1> QED  BY <1>2, <1>7

(* The frame that c's parser stands at is the first of its input.          *)
LEMMA AtFrameMarked ==
    ASSUME NEW s \in Sys, NEW c \in Conn, c \in s.rings, AtFrame(s, c)
    PROVE  Marked(s, <<c, "in">>, 1, s.hdr[c].id)
<1> DEFINE h == << <<s.hdr[c], 0>> >>
           z == s.ring[c] \o (s.inbox[c] \o s.wire[c])
           q == StreamOf(s, c)
<1>1. HeadOf(s, c) = h
  BY DEF AtFrame, HeadOf
<1>2. q = h \o z /\ h \in Seq(Cell) /\ z \in Seq(Cell)
  BY <1>1, StreamType, StreamNested
<1>3. Len(h) = 1 /\ h[1] = <<s.hdr[c], 0>>
  OBVIOUS
<1> HIDE DEF h, z, q
<1>4. 1 \in 1 .. Len(q) /\ q[1] = h[1]
  <2>1. Len(q) = Len(h) + Len(z) /\ Len(z) \in Nat
    BY <1>2, ConcatProperties, LenProperties
  <2>2. 1 \in 1 .. Len(h)
    BY <1>3
  <2>3. q[1] = h[1]
    BY <1>2, <2>2, FirstOfConcat
  <2> QED  BY <1>3, <2>1, <2>3
<1>5. Input(s, c) = q
  BY DEF Input, q
<1> QED  BY <1>3, <1>4, <1>5 DEF Marked

(* The same connections are open, with the same peers.                     *)
Lined(s, t) ==
    t.rings = s.rings /\ \A x \in Conn : t.peer[x] = s.peer[x] /\ (IsUp(t, x) => IsUp(s, x))

LEMMA TurnsBack ==
    ASSUME NEW s \in Sys, NEW t, NEW u, Few(s, t), Lined(s, t), Turns(t, u)
    PROVE  Turns(s, u)
<1>1. s.rings \subseteq Conn
  BY DEF Sys
<1>2. Deserted(t, u) => Deserted(s, u)
  BY <1>1 DEF Deserted, Lined
<1> QED  BY <1>2, FewTrans DEF Turns

LEMMA TurnsOn ==
    ASSUME NEW s, NEW t, NEW u, Turns(s, t), Fewer(t, u), u.rings = t.rings
    PROVE  Turns(s, u)
<1>1. Deserted(s, t) => Deserted(s, u)
  BY DEF Deserted
<1> QED  BY <1>1, FewTrans, FewerFew DEF Turns

(* Flags are nothing to the requests.                                      *)
LEMMA FlagFewer ==
    ASSUME NEW s \in Sys, NEW P, NEW b
    PROVE  /\ Fewer(s, [s EXCEPT !.paused = P]) /\ [s EXCEPT !.paused = P].rings = s.rings
           /\ Fewer(s, [s EXCEPT !.panic = b]) /\ [s EXCEPT !.panic = b].rings = s.rings
<1> DEFINE x == [s EXCEPT !.paused = P]
           y == [s EXCEPT !.panic = b]
<1>1. Quiet(s, x) /\ Mute(s, x) /\ Quiet(s, y) /\ Mute(s, y)
  BY DEF Sys, Quiet, Mute
<1> HIDE DEF x, y
<1>2. Fewer(s, x) /\ Fewer(s, y) /\ x.rings = s.rings /\ y.rings = s.rings
  BY <1>1, QuietTrims, MuteFewer DEF Quiet
<1> QED  BY <1>2 DEF x, y

LEMMA LeadsTurns ==
    ASSUME NEW t, sys \in Sys, Leads(t), Turns(sys, t)
    PROVE  Turns(sys, sys')
<1>1. Turns(sys, [sys EXCEPT !.panic = TRUE])
  BY FlagFewer, FewerTurns
<1> QED  BY <1>1 DEF Leads

(* d is sent an answer or a request, or it is an upstream that has reset.  *)
Owes(s, t, d) == Few(s, t) \/ (Deserted(s, t) /\ IsUp(s, d) /\ Room(s, d) = "broken")

(* A frame made of the one that c's parser stands at is written to d.      *)
LEMMA RelayOwes ==
    ASSUME NEW s, NEW c \in Conn, NEW d \in Conn, NEW f \in Frame,
           Good(s), Wired(s), Tidy(s), c \in s.rings, d \in s.rings, AtFrame(s, c),
           f.id = 0 \/ f.id = s.hdr[c].id
    PROVE  LET t == Flush(s, d, f)
           IN  Owes(s, Consume(t, c), d) /\ Owes(s, Release(t, c), d)
<1> DEFINE t == Flush(s, d, f)
<1>1. s \in Sys /\ Good(t) /\ Trims(s, t)
  BY GoodSys, FlushCloses, FlushTrims DEF Closes
<1>2. \/ Tells(s, t, <<d, "out">>, f.id)
      \/ Deserted(s, t) /\ IsUp(s, d) /\ Room(s, d) = "broken"
  BY FlushTells
<1> HIDE DEF t
<1>3. AtFrame(t, c) /\ (c \in t.rings => Fed(t, c))
  BY <1>1, TrimsAtFrame, TrimsTidy DEF Tidy, InputAt
<1>4. f.id = 0 \/ Marked(s, <<c, "in">>, 1, f.id)
  BY <1>1, AtFrameMarked
<1>5. ASSUME NEW u, u = Consume(t, c) \/ u = Release(t, c)
      PROVE  Owes(s, u, d)
  <2>1. Eats(t, u, c) /\ u.rings = t.rings
    BY <1>1, <1>3, <1>5, ConsumeEats
  <2>2. Deserted(s, t) => Deserted(s, u)
    BY <2>1 DEF Deserted
  <2>3. Tells(s, t, <<d, "out">>, f.id) => Few(s, u)
    BY <1>4, <2>1, TellsEats
  <2> QED  BY <1>2, <2>2, <2>3 DEF Owes
<1> QED  BY <1>5 DEF t

LEMMA OwesTurns ==
    ASSUME NEW s, NEW t, NEW d, Owes(s, t, d)
    PROVE  Turns(s, t)
BY DEF Owes, Turns

LEMMA SendPendingOwes ==
    ASSUME NEW s, NEW down \in Conn, NEW up \in Conn, Good(s), Wired(s), Tidy(s),
           down \in s.held, down \in s.rings, up \in s.rings
    PROVE  Owes(s, SendPending(s, down, up), up)
<1> DEFINE f == s.pend[down]
           r == Flush(s, up, f)
           t == Release(r, down)
           x == [t EXCEPT !.panic = TRUE]
           y == [t EXCEPT !.paused = t.paused \ {down}]
           v == SendPending(s, down, up)
<1>1. v \in {t, x, y}
  BY DEF SendPending
<1>2. KeptWhole(s, down)
  BY DEF Tidy, InputAt
<1>3. f \in Frame /\ f = s.hdr[down] /\ AtFrame(s, down)
  BY <1>2, HdrType, GoodSys DEF KeptWhole, AtFrame
<1> HIDE DEF f
<1>4. Owes(s, t, up)
  BY <1>3, RelayOwes
<1>5. t \in Sys
  BY <1>3, FlushCloses, ReleaseCloses, GoodSys DEF Closes
<1> HIDE DEF t, v
<1>6. Fewer(t, x) /\ Fewer(t, y) /\ x.rings = t.rings /\ y.rings = t.rings
  BY <1>5, FlagFewer
<1> HIDE DEF x, y
<1>7. ASSUME NEW u, Fewer(t, u), u.rings = t.rings PROVE Owes(s, u, up)
  <2>1. Deserted(s, t) => Deserted(s, u)
    BY <1>7 DEF Deserted
  <2> QED  BY <1>4, <1>7, <2>1, FewerFew, FewTrans DEF Owes
<1> QED  BY <1>1, <1>4, <1>6, <1>7 DEF v

(* A failed connect: the client is sent a second ERROR, or both are gone.  *)
LEMMA ConnectFailedTurns ==
    ASSUME NEW s, NEW c \in Conn, Good(s), Wired(s), c \in s.rings,
           s.role[c] = "connecting"
    PROVE  Turns(s, ConnectFailed(s, c))
<1> DEFINE d == s.peer[c]
           t == CloseConn(s, c)
           f == ErrorOf(t.pend[d].id)
           u == Flush(t, d, f)
           v == IF d \in u.held THEN Release(u, d) ELSE u
           w == [v EXCEPT !.peer[d] = Nil]
<1>1. d # Nil /\ d \in Conn /\ d \in s.rings
  <2>1. s.peer[c] # Nil
    BY DEF Wired, IsUp
  <2>2. d \in Conn /\ s.peer[d] = c /\ c # Nil
    BY <2>1, PeerApart, ReactorAssumption DEF Good, Paired
  <2> QED  BY <2>1, <2>2 DEF Wired
<1>2. /\ \/ Fewer(s, t) /\ d \notin t.rings
         \/ Deserted(s, t) /\ d \in t.rings /\ Room(t, d) # "broken"
      /\ Fades(s, t) /\ Good(t) /\ t \in Sys
  BY CloseConnTurns, CloseConnFades, GoodSys
<1>3. ConnectFailed(s, c) = w
  BY <1>1 DEF ConnectFailed, Reply
<1>4. f \in Frame /\ Own(t, d)
  <2>1. t.pend[d].id \in 0 .. MaxReq
    BY <1>1, <1>2, HdrType
  <2>2. Own(t, d)
    BY <1>1, <1>2, RingOwn, FadesOwn, GoodSys
  <2> QED  BY <2>1, <2>2, MadeFrames
<1> HIDE DEF d, t, f
<1>5. Good(u) /\ u \in Sys
  BY <1>1, <1>2, <1>4, FlushCloses, GoodSys DEF Closes
<1>6. /\ u.rings = t.rings
      /\ d \notin t.rings => Fewer(t, u)
  <2>1. CASE d \notin t.rings
    <3>1. Sock(t, d) = Nil
      BY <1>1, <1>2, <1>4, <2>1 DEF Own, Good, Sound, RingsLive, Live
    <3>2. CloseConn(t, d) = t /\ Room(t, d) = "broken"
      BY <1>1, <3>1, ReactorAssumption DEF CloseConn, Live, Room
    <3>3. u = Spill(t, d, f)
      BY <3>2 DEF Flush
    <3> QED  BY <1>1, <1>2, <2>1, <3>3, SpillFewer
  <2>2. CASE d \in t.rings
    <3>1. u = Write(t, d, f)
      BY <1>2, <2>2 DEF Flush
    <3> HIDE DEF u
    <3>2. Write(t, d, f).rings = t.rings
      BY <1>1, <1>2, <1>4, <2>2, WriteTells
    <3> QED  BY <2>2, <3>1, <3>2
  <2> QED  BY <2>1, <2>2
<1> HIDE DEF u
<1>7. /\ v.rings = u.rings /\ v \in Sys
      /\ d \notin u.rings => Few(u, v)
  <2>1. CASE d \in u.held
    <3>1. v = Release(u, d)
      BY <2>1
    <3>2. Same(u, Release(u, d)) /\ Release(u, d) \in Sys
      BY <1>1, <1>5, ReleaseParts
    <3>3. d \notin u.rings => Few(u, Release(u, d))
      BY <1>1, <1>5, ConsumeEats, EatsFew DEF AtFrame
    <3> QED  BY <3>1, <3>2, <3>3 DEF Same
  <2>2. CASE d \notin u.held
    BY <1>5, <2>2 DEF Few
  <2> QED  BY <2>1, <2>2
<1> HIDE DEF v
<1>8. Quiet(v, w) /\ Mute(v, w)
  BY <1>7, PeerQuiet DEF Mute, Sys
<1> HIDE DEF w
<1>9. Fewer(v, w) /\ w.rings = v.rings
  BY <1>7, <1>8, QuietTrims, MuteFewer DEF Quiet
<1>10. CASE Deserted(s, t) /\ d \in t.rings
  <2>1. w.rings = t.rings
    BY <1>6, <1>7, <1>9
  <2>2. Deserted(s, w)
    BY <1>10, <2>1 DEF Deserted
  <2> QED  BY <1>3, <2>2 DEF Turns
<1>11. CASE Fewer(s, t) /\ d \notin t.rings
  <2>1. Few(s, t) /\ Few(t, u) /\ Few(u, v) /\ Few(v, w)
    BY <1>6, <1>7, <1>9, <1>11, FewerFew
  <2>2. Few(s, u)
    BY <2>1, FewTrans
  <2>3. Few(s, v)
    BY <2>1, <2>2, FewTrans
  <2>4. Few(s, w)
    BY <2>1, <2>3, FewTrans
  <2> QED  BY <1>3, <2>4 DEF Turns
<1> QED  BY <1>2, <1>10, <1>11

(* Inputs and outputs as they were.                                        *)
LEMMA SameFewer ==
    ASSUME NEW s, NEW t,
           \A x \in Conn : Sent(t, x) = Sent(s, x) /\ Input(t, x) = Input(s, x)
    PROVE  Fewer(s, t)
<1> SUFFICES ASSUME NEW l \in Lanes, NEW k \in Pos, NEW i \in Ids, Marked(t, l, k, i)
             PROVE  Marked(s, l, k, i)
  BY DEF Fewer
<1>1. l[1] \in Conn
  BY DEF Lanes
<1> QED  BY <1>1 DEF Marked

Bears(s, t) ==
    /\ t.rings = s.rings /\ t.ring = s.ring /\ t.inbox = s.inbox
    /\ t.wire = s.wire /\ t.hdr = s.hdr /\ t.have = s.have /\ Mute(s, t)

LEMMA BearsFewer ==
    ASSUME NEW s, NEW t, Bears(s, t)
    PROVE  Fewer(s, t)
BY SameFewer DEF Bears, Mute, Sent, Input, OutOf, StreamOf, HeadOf

LEMMA ConnectOnlyBears ==
    ASSUME NEW s, NEW c \in Conn, Good(s), Wired(s), c \in s.rings,
           s.role[c] = "connecting"
    PROVE  LET t == ConnectOnly(s, c)
           IN  Bears(s, t) /\ Lined(s, t)
<1> DEFINE a == [s.active EXCEPT ![s.ep[c]] = @ + 1]
           q == [s EXCEPT !.role[c] = "up"]
           t == [q EXCEPT !.active = a]
           v == ConnectOnly(s, c)
<1>1. s \in Sys /\ a \in [EP -> Int]
  <2>1. s.active \in [EP -> Int]
    BY DEF Good, Sound, Sys
  <2> QED  BY <2>1, GoodSys, CountType
<1>2. v = Mod(t, c, {"R", "W"})
  <2>1. t = [s EXCEPT !.role[c] = "up", !.active = a]
    BY <1>1 DEF Sys
  <2> QED  BY <2>1 DEF ConnectOnly
<1>3. v.rings = s.rings /\ v.peer = s.peer /\ Fades(s, v)
  BY ConnectOnlyServes DEF Serves
<1> HIDE DEF a, v
<1>4. q \in Sys /\ Bears(s, q)
  BY <1>1 DEF Sys, Roles, Bears, Mute
<1> HIDE DEF q
<1>5. t \in Sys /\ Bears(q, t)
  BY <1>1, <1>4 DEF Sys, Bears, Mute
<1> HIDE DEF t
<1>6. Quiet(t, v) /\ Mute(t, v)
  BY <1>2, <1>5, ModQuiet, ModMute
<1>7. Bears(s, v)
  BY <1>4, <1>5, <1>6 DEF Bears, Quiet, Mute
<1>8. Lined(s, v)
  BY <1>3 DEF Lined, Fades, IsUp
<1> QED  BY <1>7, <1>8 DEF v

LEMMA FinishConnectTurns ==
    ASSUME NEW s, NEW c \in Conn, Good(s), Wired(s), Tidy(s), c \in s.rings,
           s.role[c] = "connecting"
    PROVE  Turns(s, FinishConnect(s, c))
<1> DEFINE d == s.peer[c]
           t == ConnectOnly(s, c)
           v == SendPending(t, d, c)
<1>1. Turns(s, ConnectFailed(s, c))
  BY ConnectFailedTurns
<1>2. Serves(s, t, c) /\ t.rings = s.rings /\ t.held = s.held /\ Tidy(t)
      /\ Bears(s, t) /\ Lined(s, t)
  BY ConnectOnlyServes, ConnectOnlyTidy, ConnectOnlyBears
<1>3. ConnectMade(s, c) = IF d # Nil /\ d \in t.held THEN v ELSE t
  BY DEF ConnectMade
<1>4. d # Nil /\ d \in Conn /\ d \in s.held /\ d \in s.rings /\ s \in Sys
  <2>1. s.peer[c] # Nil /\ s.peer[c] \in s.held
    BY DEF Wired, IsUp
  <2>2. s.peer[c] \in Conn /\ s.peer[s.peer[c]] = c /\ c # Nil
    BY <2>1, PeerApart, ReactorAssumption DEF Good, Paired
  <2> QED  BY <2>1, <2>2, GoodSys DEF Wired
<1> HIDE DEF t, d
<1>5. Turns(t, v)
  BY <1>2, <1>4, SendPendingOwes, OwesTurns DEF Serves
<1>6. Turns(s, v)
  BY <1>2, <1>4, <1>5, BearsFewer, FewerFew, TurnsBack
<1>7. ConnectMade(s, c) = v
  BY <1>2, <1>3, <1>4
<1> HIDE DEF v
<1> QED  BY <1>1, <1>6, <1>7 DEF FinishConnect

LEMMA HoldBears ==
    ASSUME NEW s \in Sys, NEW c \in Conn, NEW h
    PROVE  LET t == Hold(s, c, h)
           IN  Bears(s, t) /\ Lined(s, t)
BY DEF Hold, Sys, Bears, Mute, Lined, IsUp

LEMMA OnPooledTurns ==
    ASSUME NEW s, NEW c \in Conn, Good(s), Wired(s), Tidy(s), c \in s.rings,
           s.role[c] = "down", s.peer[c] # Nil, AtFrame(s, c)
    PROVE  Turns(s, OnPooled(s, c, s.hdr[c]))
<1> DEFINE h == s.hdr[c]
           p == s.peer[c]
           u == Hold(s, c, h)
           t == SendPending(u, c, p)
<1>1. p \in Conn /\ p \in s.rings /\ s \in Sys /\ h \in Frame
  <2>1. p \in Conn /\ s.peer[p] = c /\ c # Nil
    BY PeerApart, ReactorAssumption DEF Good, Paired
  <2> QED  BY <2>1, HdrType, GoodSys DEF Wired
<1>2. OnPooled(s, c, h) = t
  BY DEF OnPooled, Upstream
<1>3. Tidy(u)
  BY HoldTidy
<1> HIDE DEF h
<1>4. Serves(s, u, p) /\ Same(s, u) /\ u.held = s.held \cup {c}
  BY <1>1, HoldServes
<1>5. Bears(s, u) /\ Lined(s, u)
  BY <1>1, HoldBears
<1> HIDE DEF u, p
<1>6. Turns(u, t)
  BY <1>1, <1>3, <1>4, SendPendingOwes, OwesTurns DEF Serves, Same
<1> QED  BY <1>1, <1>2, <1>5, <1>6, BearsFewer, FewerFew, TurnsBack DEF h

LEMMA OnNoDialTurns ==
    ASSUME NEW s, NEW c \in Conn, Good(s), Wired(s), Tidy(s), c \in s.rings,
           AtFrame(s, c)
    PROVE  Turns(s, OnNoDial(s, c, s.hdr[c]))
<1> DEFINE f == ErrorOf(s.hdr[c].id)
<1>1. f \in Frame
  BY HdrType, MadeFrames, GoodSys
<1>2. f.id = s.hdr[c].id
  BY DEF ErrorOf
<1>3. OnNoDial(s, c, s.hdr[c]) = Consume(Flush(s, c, f), c)
  BY DEF OnNoDial, Reply
<1> HIDE DEF f
<1> QED  BY <1>1, <1>2, <1>3, RelayOwes, OwesTurns

LEMMA OnUpTurns ==
    ASSUME NEW s, NEW c \in Conn, Good(s), Wired(s), Tidy(s), c \in s.rings,
           s.role[c] = "up", AtFrame(s, c)
    PROVE  Turns(s, OnUp(s, c, s.hdr[c]))
<1>1. s.peer[c] # Nil /\ s.peer[c] \in Conn /\ s.peer[s.peer[c]] = c /\ c # Nil
  BY PeerApart, ReactorAssumption DEF Good, Paired, Wired, IsUp
<1>2. s.peer[c] \in s.rings /\ s.hdr[c] \in Frame
  BY <1>1, HdrType, GoodSys DEF Wired
<1>3. OnUp(s, c, s.hdr[c]) = Consume(Flush(s, s.peer[c], s.hdr[c]), c)
  BY <1>1 DEF OnUp
<1> QED  BY <1>1, <1>2, <1>3, RelayOwes, OwesTurns

(* A new connection has no requests.                                       *)
LEMMA AdoptFewer ==
    ASSUME NEW s, NEW n \in Conn, NEW f \in FD, NEW e \in EP \cup {Nil},
           NEW role \in {"down", "up", "connecting"}, NEW tx \in {"open", "syn"},
           Good(s), Tidy(s), s.role[n] = "new", s.remain[n] = <<>>
    PROVE  LET t == Adopt(s, n, f, role, e, tx)
           IN  Fewer(s, t) /\ t.tx[n] = tx
<1>0. s \in Sys
  BY GoodSys
<1>a. PICK y \in Sys : /\ Adopt(s, n, f, role, e, tx) = Arm(y, n)
                       /\ Makes(s, y, n, f, e, role, tx)
  BY <1>0, AdoptMakes
<1> DEFINE t == Arm(y, n)
<1>1. /\ y.rings = s.rings \cup {n} /\ y.ring = s.ring /\ y.inbox = s.inbox
      /\ y.wire = s.wire /\ y.hdr = s.hdr /\ y.have = s.have /\ Mute(s, y)
      /\ y.tx = [s.tx EXCEPT ![n] = tx] /\ DOMAIN s.tx = Conn
  BY <1>0, <1>a DEF Makes, Mute, Sys
<1>2. Quiet(y, t) /\ Mute(y, t) /\ t.tx = y.tx
  <2>1. n \in y.rings
    BY <1>1
  <2> QED  BY <2>1, ArmQuiet, ArmMute, ArmPuts
<1> HIDE DEF t
<1>3. /\ t.rings = s.rings \cup {n} /\ t.ring = s.ring /\ t.inbox = s.inbox
      /\ t.wire = s.wire /\ t.hdr = s.hdr /\ t.have = s.have /\ Mute(s, t)
  BY <1>1, <1>2 DEF Quiet, Mute
<1>4. /\ n \notin s.rings /\ s.ring[n] = <<>> /\ s.inbox[n] = <<>>
      /\ s.wire[n] = <<>> /\ n \notin s.have
  BY DEF Good, Sound, Blank, Tidy, Unused
<1>5. ASSUME NEW x \in Conn PROVE StreamOf(t, x) = StreamOf(s, x) /\ OutOf(t, x) = OutOf(s, x)
  BY <1>3 DEF StreamOf, HeadOf, OutOf, Mute
<1>6. StreamOf(s, n) = <<>> /\ OutOf(s, n) = s.got[n]
  <2>1. StreamOf(s, n) = ((<<>> \o <<>>) \o <<>>) \o <<>>
    BY <1>4 DEF StreamOf, HeadOf
  <2>2. <<>> \o <<>> = <<>> /\ <<>> \in Seq(Cell)
    BY EmptySeq, ConcatEmptySeq
  <2>3. s.got[n] \o <<>> = s.got[n]
    BY <1>0, OutType, ConcatEmptySeq
  <2> QED  BY <2>1, <2>2, <2>3 DEF OutOf
<1>7. ASSUME NEW x \in Conn PROVE Sent(t, x) = Sent(s, x) /\ Input(t, x) = Input(s, x)
  <2>1. CASE x = n
    BY <1>3, <1>4, <1>5, <1>6, <2>1 DEF Sent, Input
  <2>2. CASE x # n
    BY <1>3, <1>5, <2>2 DEF Sent, Input, Mute
  <2> QED  BY <2>1, <2>2
<1> QED  BY <1>1, <1>2, <1>7, <1>a, SameFewer DEF t

LEMMA OnDialledFew ==
    ASSUME NEW s, NEW c \in Conn, NEW e \in EP, NEW n \in Conn, NEW f \in FD,
           NEW how, Good(s), Wired(s), Tidy(s), c \in s.rings, s.role[c] = "down",
           s.peer[c] = Nil, s.role[n] = "new", s.tab[f] = Nil, s.remain[n] = <<>>,
           AtFrame(s, c)
    PROVE  Few(s, OnDialled(s, c, s.hdr[c], e, n, f, how))
<1> DEFINE h == s.hdr[c]
           sock == IF how = "instant" THEN "open" ELSE "syn"
           kind == DialRole(how)
           t == Adopt(s, n, f, kind, e, sock)
           l == [t EXCEPT !.peer[n] = c, !.peer[c] = n]
           u == Hold(l, c, h)
           v == SendPending(u, c, n)
<1>1. /\ sock \in {"open", "syn"} /\ kind \in {"up", "connecting"} /\ s \in Sys
      /\ kind \in {"down", "up", "connecting"} /\ kind # "down"
      /\ e \in EP \cup {Nil} /\ e # Nil
      /\ kind = "up" => sock = "open"
  BY GoodSys, ReactorAssumption DEF DialRole
<1>2. OnDialled(s, c, h, e, n, f, how) = IF kind = "up" THEN v ELSE u
  BY DEF OnDialled
<1> HIDE DEF sock, kind
<1>3. /\ t \in Sys /\ t.rings = s.rings \cup {n} /\ t.peer = s.peer /\ t.held = s.held
      /\ Adopted(s, t, n, kind) /\ Fewer(s, t) /\ t.tx[n] = sock
  BY <1>1, AdoptParts, AdoptGood, AdoptFewer
<1>4. /\ Tidy(t) /\ t.hdr = s.hdr
      /\ \A x \in Conn : x # n /\ AtFrame(s, x) => AtFrame(t, x)
  BY <1>1, AdoptTidy
<1> HIDE DEF t
<1>5. /\ n # c /\ t.peer[n] = Nil /\ IsUp(t, n) /\ t.role[c] = "down"
      /\ t.role[n] = kind /\ t.peer[c] = Nil
      /\ \A x \in Conn : x # n => t.role[x] = s.role[x]
  <2>1. t.role = [s.role EXCEPT ![n] = kind]
    BY <1>3 DEF Adopted
  <2>2. DOMAIN s.role = Conn
    BY <1>1 DEF Sys
  <2>3. s.peer[n] = Nil
    BY DEF Good, Sound, Blank
  <2> QED  BY <1>1, <1>3, <2>1, <2>2, <2>3 DEF IsUp
<1>6. Good(l)
  BY <1>3, <1>5, LinkGood DEF Adopted
<1>7. /\ Quiet(t, l) /\ Mute(t, l) /\ l.role = t.role /\ l.tx = t.tx
      /\ l.peer[n] = c /\ l.peer[c] = n
      /\ \A x \in Conn : x \notin {c, n} => l.peer[x] = t.peer[x]
  <2>1. /\ Quiet(t, l) /\ Mute(t, l) /\ l.role = t.role /\ l.tx = t.tx
        /\ l.peer = [t.peer EXCEPT ![n] = c, ![c] = n]
    BY <1>3 DEF Quiet, Mute, Sys
  <2>2. DOMAIN t.peer = Conn
    BY <1>3 DEF Sys
  <2> HIDE DEF l
  <2> QED  BY <1>5, <2>1, <2>2
<1> HIDE DEF l
<1>8. Tidy(l) /\ l \in Sys /\ AtFrame(l, c) /\ h = l.hdr[c] /\ h \in Frame
  <2>1. Tidy(l) /\ l \in Sys
    BY <1>3, <1>4, <1>6, <1>7, QuietTidy, GoodSys
  <2>2. AtFrame(l, c) /\ h = l.hdr[c]
    BY <1>4, <1>5, <1>7 DEF Quiet, AtFrame
  <2> QED  BY <2>1, <2>2, HdrType
<1> HIDE DEF h
<1>9. Tidy(u)
  BY <1>5, <1>6, <1>7, <1>8, HoldTidy
<1>10. /\ u.rings = l.rings /\ u.peer = l.peer /\ u.role = l.role
       /\ u.held = l.held \cup {c} /\ Good(u) /\ u.tx = l.tx /\ Bears(l, u)
  <2>1. Good(u)
    BY <1>6, <1>8, HoldCloses DEF Closes
  <2>2. u.tx = l.tx
    BY <1>8 DEF Hold, Sys
  <2> QED  BY <1>8, <2>1, <2>2, HoldParts, HoldBears
<1> HIDE DEF u, v
<1>11. Few(s, u)
  <2>1. Bears(t, l)
    BY <1>7 DEF Quiet, Bears
  <2>2. Fewer(t, l) /\ Fewer(l, u)
    BY <1>10, <2>1, BearsFewer
  <2>3. Fewer(s, u)
    BY <1>3, <2>2, FewerTrans
  <2> QED  BY <2>3, FewerFew
<1>12. ASSUME kind = "up" PROVE Few(u, v)
  <2>1. Wired(u)
    <3> SUFFICES ASSUME NEW x \in Conn
                 PROVE  /\ u.peer[x] # Nil => x \in u.rings
                        /\ x \in u.rings /\ IsUp(u, x) => u.peer[x] # Nil
                        /\ x \in u.rings /\ u.role[x] = "connecting"
                              => u.peer[x] \in u.held
      BY DEF Wired
    <3>0. u.rings = s.rings \cup {n} /\ u.held = s.held \cup {c}
      BY <1>3, <1>7, <1>10 DEF Quiet
    <3>1. CASE x = n
      BY <1>5, <1>7, <1>10, <1>12, <3>0, <3>1, ReactorAssumption
    <3>2. CASE x = c
      BY <1>5, <1>7, <1>10, <3>0, <3>2 DEF IsUp
    <3>3. CASE x \notin {c, n}
      BY <1>3, <1>5, <1>7, <1>10, <3>0, <3>3 DEF Wired, IsUp
    <3> QED  BY <3>1, <3>2, <3>3
  <2>2. n \in u.rings /\ c \in u.rings /\ c \in u.held
    BY <1>3, <1>7, <1>10 DEF Quiet
  <2>3. Owes(u, v, n)
    BY <1>9, <1>10, <2>1, <2>2, SendPendingOwes DEF v
  <2>4. Room(u, n) # "broken"
    <3>1. Sock(u, n) = n
      BY <1>10, <2>2 DEF Good, Sound, RingsLive, Live
    <3>2. u.tx[n] = "open"
      BY <1>1, <1>3, <1>7, <1>10, <1>12
    <3> QED  BY <3>1, <3>2, ReactorAssumption DEF Room
  <2> QED  BY <2>3, <2>4 DEF Owes
<1>13. kind = "up" => Few(s, v)
  BY <1>11, <1>12, FewTrans
<1> QED  BY <1>2, <1>11, <1>13 DEF h

(* Only c's input changes, and no cell of it is new or moves.              *)
LEMMA InputFewer ==
    ASSUME NEW s, NEW t, NEW c \in Conn, OnlyInput(s, t, c), Mute(s, t),
           c \in s.rings =>
               \A k \in 1 .. Len(StreamOf(t, c)) :
                   /\ k \in 1 .. Len(StreamOf(s, c))
                   /\ StreamOf(t, c)[k] = StreamOf(s, c)[k]
    PROVE  Fewer(s, t)
<1> SUFFICES ASSUME NEW l \in Lanes, NEW k \in Pos, NEW i \in Ids, Marked(t, l, k, i)
             PROVE  Marked(s, l, k, i)
  BY DEF Fewer
<1> DEFINE x == l[1]
<1>1. x \in Conn /\ t.rings = s.rings /\ Sent(t, x) = Sent(s, x)
  BY DEF Lanes, OnlyInput, Mute, Sent, OutOf
<1>2. CASE x \notin s.rings \/ x # c
  <2>1. x # c => StreamOf(t, x) = StreamOf(s, x)
    <3>1. x # c => (x \in t.have <=> x \in s.have)
      BY DEF OnlyInput
    <3> QED  BY <1>1, <3>1 DEF OnlyInput, StreamOf, HeadOf
  <2>2. Input(t, x) = Input(s, x)
    BY <1>1, <1>2, <2>1 DEF Input
  <2> QED  BY <1>1, <2>2 DEF Marked
<1>3. CASE x = c /\ c \in s.rings
  <2>1. Input(t, x) = StreamOf(t, c) /\ Input(s, x) = StreamOf(s, c)
    BY <1>1, <1>3 DEF Input
  <2> QED  BY <1>1, <1>3, <2>1 DEF Marked
<1> QED  BY <1>2, <1>3

LEMMA TakeHdrFewer ==
    ASSUME NEW s, NEW c \in Conn, Good(s), Tidy(s), c \in s.rings,
           c \in s.have \/ s.ring[c] # <<>>
    PROVE  LET t == TakeHdr(s, c)
           IN  Fewer(s, t) /\ Lined(s, t)
<1> DEFINE t == TakeHdr(s, c)
<1>1. s \in Sys /\ t \in Sys /\ Still(s, t)
  BY TakeHdrCloses, TakeHdrStill, GoodSys DEF Closes
<1>2. Lined(s, t)
  BY <1>1 DEF Still, Lined, IsUp
<1>3. CASE c \in s.have
  BY <1>2, <1>3 DEF TakeHdr, Fewer
<1>4. CASE c \notin s.have
  <2>1. /\ t.have = s.have \cup {c} /\ t.ring = [s.ring EXCEPT ![c] = Tail(s.ring[c])]
        /\ t.hdr = [s.hdr EXCEPT ![c] = s.ring[c][1][1]]
        /\ t.inbox = s.inbox /\ t.wire = s.wire /\ t.rx = s.rx
        /\ t.ep = s.ep /\ t.active = s.active
    BY <1>1, <1>4 DEF TakeHdr, Sys
  <2>2. DOMAIN s.ring = Conn /\ DOMAIN s.hdr = Conn
    BY <1>1 DEF Sys
  <2> HIDE DEF t
  <2>3. t.ring[c] = Tail(s.ring[c]) /\ t.hdr[c] = s.ring[c][1][1] /\ c \in t.have
    BY <2>1, <2>2
  <2>4. OnlyInput(s, t, c) /\ Mute(s, t)
    BY <1>1, <2>1, <2>2 DEF Still, OnlyInput
  <2>5. StreamOf(t, c) = StreamOf(s, c)
    BY <1>1, <1>4, <2>1, <2>3, FedTake DEF Tidy, InputAt
  <2> QED  BY <1>2, <2>4, <2>5, InputFewer DEF t
<1> QED  BY <1>3, <1>4

LEMMA WaitTurns ==
    ASSUME LinkInv, Wait
    PROVE  Turns(sys, sys')
<1>1. sys \in Sys /\ sys' = [sys EXCEPT !.armed = {}]
  BY LinkParts DEF Wait
<1>2. Bears(sys, sys')
  BY <1>1 DEF Sys, Bears, Mute
<1> QED  BY <1>2, BearsFewer, FewerTurns

LEMMA SelfTurns == \A s : Turns(s, s)
BY DEF Turns, Few

LEMMA HandleTurns ==
    ASSUME LinkInv, Handle
    PROVE  Turns(sys, sys')
<1> DEFINE f    == Head(batch)[1]
           bits == Head(batch)[2]
           c    == IF f = Nil THEN Nil ELSE sys.tab[f]
<1>1. sys \in Sys /\ Good(sys) /\ Wired(sys) /\ IInv /\ Tidy(sys)
  BY LinkParts DEF LinkInv, FlowInv
<1>2. c # Nil => c \in Conn /\ c \in sys.rings
  <2>1. c # Nil => c \in Conn /\ Live(sys, c)
    BY <1>1, HandledLive DEF Handle
  <2> QED  BY <1>1, <2>1 DEF Good, Sound, RingsLive
<1>3. \/ HandleStale(f) \/ HandleListen(f)
      \/ HandleConnect(c, bits) \/ HandleIO(c, bits)
  BY DEF Handle
<1> HIDE DEF f, bits, c
<1>4. CASE HandleStale(f) \/ HandleListen(f)
  BY <1>1, <1>4, SelfTurns, GotoLeads, LeadsTurns DEF HandleStale, HandleListen
<1>5. CASE HandleConnect(c, bits)
  <2>1. c \in Conn /\ c \in sys.rings /\ sys.role[c] = "connecting"
    BY <1>2, <1>5 DEF HandleConnect, Connects
  <2>2. Turns(sys, FinishConnect(sys, c))
    BY <1>1, <2>1, FinishConnectTurns
  <2> QED  BY <1>1, <1>5, <2>2, GotoLeads, LeadsTurns DEF HandleConnect
<1>6. CASE HandleIO(c, bits)
  <2> DEFINE t == IF "W" \in bits THEN FlushRemain(sys, c) ELSE sys
             u == CloseConn(sys, c)
  <2>1. c \in Conn /\ c \in sys.rings
    BY <1>2, <1>6 DEF HandleIO
  <2>2. Turns(sys, u) /\ Turns(sys, t)
    BY <1>1, <2>1, CloseTurns, FlushRemainTurns, SelfTurns
  <2>3. \/ Goto(u, "loop") \/ Then(t, "read", c, "loop") \/ Goto(t, "loop")
    BY <1>6 DEF HandleIO
  <2> HIDE DEF t, u
  <2>4. Leads(t) \/ Leads(u)
    BY <2>3, GotoLeads
  <2> QED  BY <1>1, <2>2, <2>4, LeadsTurns
<1> QED  BY <1>3, <1>4, <1>5, <1>6

LEMMA AcceptTurns ==
    ASSUME LinkInv, Private, Accept \/ AcceptDrops \/ AcceptAgain \/ AcceptFails
    PROVE  Turns(sys, sys')
<1>1. sys \in Sys /\ Good(sys) /\ Tidy(sys)
  BY LinkParts DEF LinkInv, FlowInv
<1>2. CASE AcceptDrops \/ AcceptAgain \/ AcceptFails
  BY <1>1, <1>2, SelfTurns, GotoLeads, LeadsTurns DEF AcceptDrops, AcceptAgain, AcceptFails
<1>3. CASE Accept
  <2> DEFINE c == Fresh(sys)
             f == FreeFD(sys)
             t == Adopt(sys, c, f, "down", Nil, "open")
  <2>1. AcceptThen("accept")
    BY <1>3 DEF Accept
  <2>2. c \in Conn /\ sys.role[c] = "new" /\ f \in FD
    BY <1>1, <2>1, FreshType DEF AcceptThen
  <2>3. Then(t, "read", c, "accept")
    BY <2>1 DEF AcceptThen
  <2>4. sys.remain[c] = <<>>
    BY <1>1, <2>2, BlankRemain
  <2> HIDE DEF c, f
  <2>5. Turns(sys, t)
    BY <1>1, <2>2, <2>4, AdoptFewer, FewerTurns
  <2> QED  BY <1>1, <2>3, <2>5, GotoLeads, LeadsTurns
<1> QED  BY <1>2, <1>3

LEMMA ReadTurns ==
    ASSUME LinkInv, Read
    PROVE  Turns(sys, sys')
<1>1. sys \in Sys /\ Good(sys) /\ Wired(sys) /\ Tidy(sys) /\ cur \in Conn
  <2>1. pc = "read"
    BY DEF Read, ReadGone, ReadPauses, ReadReturns, ReadCloses, ReadSome, Reading, At
  <2> QED  BY <2>1, LinkParts DEF LinkInv, FlowInv, Inner
<1>2. CASE ReadGone \/ ReadReturns
  BY <1>1, <1>2, SelfTurns, GotoLeads, LeadsTurns DEF ReadGone, ReadReturns
<1>3. CASE ReadPauses
  <2> DEFINE P == sys.paused \cup {cur}
  <2>1. Leads([sys EXCEPT !.paused = P])
    BY <1>3, GotoLeads DEF ReadPauses
  <2>2. Turns(sys, [sys EXCEPT !.paused = P])
    BY <1>1, FlagFewer, FewerTurns
  <2> QED  BY <1>1, <2>1, <2>2, LeadsTurns
<1>4. CASE ReadCloses
  BY <1>1, <1>4, CloseTurns, GotoLeads, LeadsTurns DEF ReadCloses
<1>5. CASE ReadSome
  <2> DEFINE in == sys.inbox[cur]
             q  == sys.ring[cur]
  <2>1. PICK n \in 1 .. Free(sys, cur) :
           /\ n <= Len(in) /\ cur \in sys.rings
           /\ Goto([sys EXCEPT !.ring[cur] = q \o SubSeq(in, 1, n),
                               !.inbox[cur] = SubSeq(in, n + 1, Len(in))], "parse")
    BY <1>5 DEF ReadSome
  <2> DEFINE r == q \o SubSeq(in, 1, n)
             w == SubSeq(in, n + 1, Len(in))
             t == [sys EXCEPT !.ring[cur] = r, !.inbox[cur] = w]
  <2>2. in \in Seq(Cell) /\ q \in Seq(Cell) /\ Len(in) \in Nat
    BY <1>1, LenProperties DEF Sys
  <2>3. n \in 1 .. Len(in) /\ n \in Nat
    BY <2>1, <2>2
  <2>4. SubSeq(in, 1, n) \in Seq(Cell)
    BY <2>2, <2>3, SubSeqProperties
  <2>5. r \in Seq(Cell) /\ w \in Seq(Cell)
    BY <2>2, <2>3, <2>4, ConcatProperties, DropPrefix
  <2>6. Leads(t)
    BY <2>1, GotoLeads
  <2>7. \E k \in 1 .. Len(in) : r = q \o SubSeq(in, 1, k)
                                /\ w = SubSeq(in, k + 1, Len(in))
    BY <2>3
  <2> HIDE DEF r, w
  <2>8. t \in Sys
    BY <1>1, <2>5 DEF Sys
  <2>9. /\ t.rings = sys.rings /\ t.role = sys.role /\ t.ep = sys.ep
        /\ t.active = sys.active /\ t.wire = sys.wire /\ t.rx = sys.rx
        /\ t.hdr = sys.hdr /\ t.have = sys.have /\ t.pend = sys.pend
        /\ t.held = sys.held /\ t.ring = [sys.ring EXCEPT ![cur] = r]
        /\ t.inbox = [sys.inbox EXCEPT ![cur] = w] /\ Mute(sys, t)
    BY <1>1 DEF Sys, Mute
  <2> HIDE DEF t
  <2>10. t.ring[cur] = r /\ t.inbox[cur] = w /\ OnlyInput(sys, t, cur)
    BY <1>1, <2>9 DEF OnlyInput, Sys
  <2>11. StreamOf(t, cur) = StreamOf(sys, cur)
    <3>1. HeadOf(t, cur) = HeadOf(sys, cur) /\ t.rx[cur] = sys.rx[cur]
      BY <2>9 DEF HeadOf
    <3>2. Fed(sys, cur)
      BY <2>1, <1>1 DEF Tidy, InputAt
    <3>3. t.wire[cur] = sys.wire[cur]
      BY <2>9
    <3>4. \E k \in 1 .. Len(sys.inbox[cur]) :
             /\ t.ring[cur] = sys.ring[cur] \o SubSeq(sys.inbox[cur], 1, k)
             /\ t.inbox[cur] = SubSeq(sys.inbox[cur], k + 1, Len(sys.inbox[cur]))
      BY <2>7, <2>10
    <3> HIDE DEF in, q
    <3> QED  BY <1>1, <2>8, <3>1, <3>2, <3>3, <3>4, FedMove
  <2>12. Turns(sys, t)
    BY <1>1, <2>9, <2>10, <2>11, InputFewer, FewerTurns
  <2> QED  BY <1>1, <2>6, <2>12, LeadsTurns
<1> QED  BY <1>2, <1>3, <1>4, <1>5 DEF Read

LEMMA ParseTurns ==
    ASSUME LinkInv, Parse
    PROVE  Turns(sys, sys')
<1>1. sys \in Sys /\ Good(sys) /\ Wired(sys) /\ Tidy(sys) /\ cur \in Conn
  <2>1. pc = "parse"
    BY DEF Parse, ParseEnds, ParsePanics, ParseRejects, ParseWaits, CanParse, Parsing, At
  <2> QED  BY <2>1, LinkParts DEF LinkInv, FlowInv, Inner
<1>2. CASE ParseEnds
  BY <1>1, <1>2, SelfTurns, GotoLeads, LeadsTurns DEF ParseEnds
<1>3. CASE ParsePanics
  <2>1. Turns(sys, [sys EXCEPT !.panic = TRUE])
    BY <1>1, FlagFewer, FewerTurns
  <2> QED  BY <1>1, <1>3, <2>1, GotoLeads, LeadsTurns DEF ParsePanics
<1>4. CASE ParseRejects
  <2> DEFINE f == ErrorOf(0)
             r == Flush(sys, cur, f)
             t == IF sys.role[cur] = "down" THEN r ELSE sys
             u == CloseConn(t, cur)
  <2>1. Leads(u) /\ cur \in sys.rings
    BY <1>4, GotoLeads DEF ParseRejects, CanParse, Reply
  <2>2. f \in Frame /\ f.id = 0
    <3>1. 0 \in 0 .. MaxReq
      BY ReactorAssumption
    <3> QED  BY <3>1, MadeFrames DEF ErrorOf
  <2> HIDE DEF f
  <2>3. CASE sys.role[cur] # "down"
    BY <1>1, <2>1, <2>3, CloseTurns, LeadsTurns
  <2>4. CASE sys.role[cur] = "down"
    <3>1. t = r
      BY <2>4
    <3>2. ~IsUp(sys, cur) /\ Own(sys, cur)
      BY <1>1, <2>1, <2>4, RingOwn DEF IsUp
    <3>3. Good(r) /\ Wired(r) /\ Fades(sys, r)
      BY <1>1, <2>2, <3>2, FlushServes
    <3>4. Tells(sys, r, <<cur, "out">>, f.id)
      BY <1>1, <2>1, <2>2, <3>2, FlushTells
    <3>5. Fewer(sys, r)
      BY <2>2, <3>4, TellsNone
    <3> HIDE DEF r
    <3>6. ~IsUp(r, cur)
      BY <1>1, <3>2, <3>3 DEF Fades, IsUp
    <3>7. Fewer(r, CloseConn(r, cur))
      BY <1>1, <3>3, <3>6, CloseTurns
    <3>8. Turns(sys, u)
      BY <3>1, <3>5, <3>7, FewerTrans, FewerTurns
    <3> QED  BY <1>1, <2>1, <3>8, LeadsTurns
  <2> QED  BY <2>3, <2>4
<1>5. CASE ParseWaits
  <2>1. Leads(TakeHdr(sys, cur)) /\ cur \in sys.rings
        /\ (cur \in sys.have \/ sys.ring[cur] # <<>>)
    BY <1>5, GotoLeads DEF ParseWaits, CanParse
  <2> QED  BY <1>1, <2>1, TakeHdrFewer, FewerTurns, LeadsTurns
<1> QED  BY <1>2, <1>3, <1>4, <1>5 DEF Parse

LEMMA EndingTurns ==
    ASSUME LinkInv, Ending
    PROVE  Turns(sys, sys')
<1>1. sys \in Sys /\ Good(sys) /\ Wired(sys)
  BY LinkParts
<1>2. \/ Leads(sys)
      \/ \E c \in Conn : Leads(CloseConn(sys, c))
  BY GotoLeads DEF Ending, SweepIdle, Stop, ShutdownOne, ShutdownEnds
<1> QED  BY <1>1, <1>2, SelfTurns, CloseTurns, LeadsTurns

(* dispatch of the frame that cur's parser stands at in t.                 *)
LEMMA DownTurns ==
    ASSUME NEW t, NEW h, IInv, Good(t), Wired(t), Tidy(t), Few(sys, t), Lined(sys, t),
           cur \in Conn, cur \in t.rings, AtFrame(t, cur), h = t.hdr[cur],
           t.role[cur] = "down", \A x \in Conn : t.role[x] = "new" => t.remain[x] = <<>>,
           DownUndialled(t, h) \/ DownDialled(t, h) => t.peer[cur] = Nil,
           \/ DownPing(t, h) \/ DownClose(t, h) \/ DownError(t, h)
           \/ DownRefused(t, h) \/ DownPooled(t, h)
           \/ DownUndialled(t, h) \/ DownDialled(t, h)
    PROVE  Turns(sys, sys')
<1>1. t \in Sys /\ sys \in Sys /\ h \in Frame /\ (cur \in t.rings => Fed(t, cur))
  BY GoodSys, HdrType DEF IInv, Tidy, InputAt
<1>2. ASSUME NEW u, Turns(t, u), Leads(u) PROVE Turns(sys, sys')
  <2>1. Turns(sys, u)
    BY <1>1, <1>2, TurnsBack
  <2> QED  BY <1>1, <1>2, <2>1, LeadsTurns
<1>3. CASE DownPing(t, h)
  <2> DEFINE f == Pong(h)
             v == Consume(Flush(t, cur, f), cur)
  <2>1. f \in Frame /\ f.id = h.id
    BY <1>1, MadeFrames DEF Pong, Frame
  <2>2. Leads(v)
    BY <1>3, GotoLeads DEF DownPing
  <2> HIDE DEF f
  <2>3. Turns(t, v)
    BY <1>1, <2>1, RelayOwes, OwesTurns
  <2> HIDE DEF v
  <2> QED  BY <1>2, <2>2, <2>3
<1>4. Few(t, Consume(t, cur))
  BY <1>1, ConsumeEats, EatsFew
<1>5. CASE DownClose(t, h)
  <2> DEFINE u == Consume(t, cur)
             v == CloseConn(u, cur)
  <2>1. Serves(t, u, cur)
    BY <1>1, ConsumeServes
  <2>2. Leads(v)
    BY <1>5, GotoLeads DEF DownClose
  <2>3. Few(t, u)
    BY <1>4
  <2> HIDE DEF u
  <2>4. Good(u) /\ Wired(u) /\ ~IsUp(u, cur)
    BY <2>1 DEF Serves, Fades, IsUp
  <2>5. Fewer(u, v)
    BY <2>4, CloseTurns
  <2> HIDE DEF v
  <2>6. Turns(t, v)
    BY <2>3, <2>5, FewerFew, FewTrans DEF Turns
  <2> QED  BY <1>2, <2>2, <2>6
<1>6. CASE DownError(t, h)
  BY <1>2, <1>4, <1>6, GotoLeads DEF DownError, Turns
<1>7. Turns(t, OnNoDial(t, cur, h))
  BY OnNoDialTurns
<1>8. CASE DownRefused(t, h)
  BY <1>2, <1>7, <1>8, GotoLeads DEF DownRefused
<1>9. CASE DownPooled(t, h)
  <2>1. t.peer[cur] # Nil
    BY <1>9 DEF DownPooled, Reuses, Upstream
  <2>2. Turns(t, OnPooled(t, cur, h))
    BY <2>1, OnPooledTurns
  <2>3. Leads(OnPooled(t, cur, h))
    BY <1>9, GotoLeads DEF DownPooled
  <2> QED  BY <1>2, <2>2, <2>3
<1>10. DownUndialled(t, h) \/ DownDialled(t, h) =>
          t.peer[cur] = Nil /\ Reselect(t, cur) = t
  BY DEF Reselect
<1>11. CASE DownUndialled(t, h)
  <2>1. Leads(OnNoDial(t, cur, h))
    BY <1>10, <1>11, GotoLeads DEF DownUndialled
  <2> QED  BY <1>2, <1>7, <2>1
<1>12. CASE DownDialled(t, h)
  <2> DEFINE n == Fresh(t)
             f == FreeFD(t)
  <2>1. PICK e \in EP, how \in {"progress"} \cup ({"instant"} \cap Faults) :
           /\ t.peer[cur] = Nil /\ FreeFDs(t) # {}
           /\ ThenResume(OnDialled(t, cur, h, e, n, f, how), "parse")
    <3>1. eligible \subseteq EP
      BY DEF IInv, EnvOK
    <3> QED  BY <1>10, <1>12, <3>1 DEF DownDialled
  <2>2. n \in Conn /\ t.role[n] = "new" /\ f \in FD /\ t.tab[f] = Nil
    BY <1>1, <1>12, <2>1, FreshType DEF DownDialled
  <2> HIDE DEF n, f
  <2>3. Few(t, OnDialled(t, cur, h, e, n, f, how))
    BY <2>1, <2>2, OnDialledFew
  <2>4. Leads(OnDialled(t, cur, h, e, n, f, how))
    BY <2>1, GotoLeads
  <2> QED  BY <1>2, <2>3, <2>4 DEF Turns
<1> QED  BY <1>3, <1>5, <1>6, <1>8, <1>9, <1>11, <1>12

LEMMA DispatchTurns ==
    ASSUME LinkInv, Private, Dispatch, ~Reselects
    PROVE  Turns(sys, sys')
<1> DEFINE t == TakeHdr(sys, cur)
           h == t.hdr[cur]
<1>1. /\ Good(sys) /\ sys \in Sys /\ Wired(sys) /\ Tidy(sys) /\ cur \in Conn
      /\ cur \in sys.rings /\ (cur \in sys.have \/ sys.ring[cur] # <<>>)
      /\ cur \notin sys.held /\ IInv /\ AtHeader
  <2>1. cur \in Conn
    BY LinkParts DEF Dispatch, CanParse, Parsing, At, Inner
  <2>2. Tidy(sys)
    BY DEF LinkInv, FlowInv
  <2>3. CanParse
    BY DEF Dispatch
  <2>4. /\ cur \in sys.rings /\ (cur \in sys.have \/ sys.ring[cur] # <<>>)
        /\ cur \notin sys.held /\ pc = "parse"
    BY <2>3 DEF CanParse, Parsing, At
  <2> QED  BY <2>1, <2>2, <2>4, LinkParts DEF AtHeader
<1>2. Still(sys, t) /\ t.hdr[cur] = NextFrame(sys, cur) /\ t.ep = sys.ep /\ Closes(sys, t)
  BY <1>1, TakeHdrStill, TakeHdrCloses
<1>3. Tidy(t) /\ cur \in t.have
  BY <1>1, TakeHdrTidy
<1>4. AtFrame(t, cur)
  BY <1>3 DEF Dispatch, Complete, Used, AtFrame
<1>5. Few(sys, t) /\ Lined(sys, t)
  BY <1>1, TakeHdrFewer, FewerFew
<1>6. /\ sys.role[cur] = "down" =>
            \/ DownPing(t, h) \/ DownClose(t, h) \/ DownError(t, h)
            \/ DownRefused(t, h) \/ DownPooled(t, h)
            \/ DownUndialled(t, h) \/ DownDialled(t, h)
      /\ sys.role[cur] = "up" => Goto(OnUp(t, cur, h), "parse")
      /\ sys.role[cur] \notin {"down", "up"} => Goto(Consume(t, cur), "parse")
  BY DEF Dispatch
<1>7. sys.role[cur] = "down" /\ (DownUndialled(t, h) \/ DownDialled(t, h)) =>
          sys.peer[cur] = Nil
  BY <1>2 DEF Reselects
<1> HIDE DEF t
<1>8. /\ Good(t) /\ Wired(t) /\ t.role = sys.role /\ t.peer = sys.peer
      /\ t.rings = sys.rings /\ t.remain = sys.remain
  <2>1. /\ t.role = sys.role /\ t.peer = sys.peer /\ t.rings = sys.rings
        /\ t.held = sys.held /\ t.ep = sys.ep /\ t.remain = sys.remain
    BY <1>2 DEF Still, Mute
  <2>2. Wired(t) /\ Good(t)
    BY <1>1, <1>2, <2>1 DEF Wired, IsUp, Closes
  <2> QED  BY <2>1, <2>2
<1> HIDE DEF h
<1>9. CASE sys.role[cur] = "down"
  <2>1. \A x \in Conn : t.role[x] = "new" => t.remain[x] = <<>>
    BY <1>1, <1>8, BlankRemain
  <2>2. h = t.hdr[cur]
    BY DEF h
  <2> QED  BY <1>1, <1>3, <1>4, <1>5, <1>6, <1>7, <1>8, <1>9, <2>1, <2>2, DownTurns
<1>10. ASSUME NEW u, Turns(t, u), Leads(u) PROVE Turns(sys, sys')
  <2>1. Turns(sys, u)
    BY <1>1, <1>5, <1>10, TurnsBack
  <2> QED  BY <1>1, <1>10, <2>1, LeadsTurns
<1>11. CASE sys.role[cur] = "up"
  <2>1. Turns(t, OnUp(t, cur, h))
    BY <1>1, <1>3, <1>4, <1>8, <1>11, OnUpTurns DEF h
  <2> QED  BY <1>6, <1>10, <1>11, <2>1, GotoLeads
<1>12. CASE sys.role[cur] \notin {"down", "up"}
  <2>1. Few(t, Consume(t, cur))
    BY <1>1, <1>3, <1>4, <1>8, ConsumeEats, EatsFew DEF Tidy, InputAt
  <2> QED  BY <1>6, <1>10, <1>12, <2>1, GotoLeads DEF Turns
<1> QED  BY <1>9, <1>11, <1>12

LEMMA RunTurns ==
    ASSUME LinkInv, Private, Run, ~Reselects
    PROVE  Turns(sys, sys')
BY WaitTurns, HandleTurns, AcceptTurns, ReadTurns, ParseTurns, DispatchTurns,
   EndingTurns DEF Run, Work, Read, Parse, Ending

----------------------------------------------------------------------------
(* The kernel and the far ends.                                            *)

LEMMA QuietFewer ==
    ASSUME NEW s, NEW t, Quiet(s, t), Mute(s, t)
    PROVE  Fewer(s, t)
BY BearsFewer DEF Bears, Quiet

LEMMA ArmFewer ==
    ASSUME NEW t \in Sys, NEW c \in Conn
    PROVE  Fewer(t, Arm(t, c))
BY ArmQuiet, ArmMute, QuietFewer

(* The end of c's input is lost, or nothing of it.                         *)
LEMMA SocketFewer ==
    ASSUME NEW s \in Sys, NEW t \in Sys, NEW c \in Conn, AtSocket(s, t, c),
           Mute(s, t),
           c \in s.rings => \E z \in Seq(Cell) : StreamOf(s, c) = StreamOf(t, c) \o z
    PROVE  Fewer(s, Arm(t, c))
<1>1. OnlyInput(s, t, c)
  BY DEF OnlyInput, AtSocket
<1>2. ASSUME c \in s.rings, NEW k \in 1 .. Len(StreamOf(t, c))
      PROVE  /\ k \in 1 .. Len(StreamOf(s, c))
             /\ StreamOf(t, c)[k] = StreamOf(s, c)[k]
  <2>1. PICK z \in Seq(Cell) : StreamOf(s, c) = StreamOf(t, c) \o z
    BY <1>2
  <2> DEFINE p == StreamOf(t, c)
             q == StreamOf(s, c)
  <2>2. p \in Seq(Cell) /\ q = p \o z /\ k \in 1 .. Len(p) /\ Len(p) \in Nat
        /\ Len(z) \in Nat
    BY <2>1, StreamType, LenProperties
  <2> HIDE DEF p, q
  <2>3. /\ Len(p \o z) = Len(p) + Len(z)
        /\ \A i \in 1 .. Len(p) + Len(z) :
              (p \o z)[i] = IF i <= Len(p) THEN p[i] ELSE z[i - Len(p)]
    BY <2>2, ConcatProperties
  <2>4. k \in 1 .. Len(q) /\ p[k] = q[k]
    BY <2>2, <2>3
  <2> QED  BY <2>4 DEF p, q
<1>3. Fewer(s, t)
  BY <1>1, <1>2, InputFewer
<1> QED  BY <1>3, ArmFewer, FewerTrans

(* A frame is added to the end of c's input.                               *)
LEMMA SocketTells ==
    ASSUME NEW s \in Sys, NEW t \in Sys, NEW c \in Conn, NEW f \in Frame,
           AtSocket(s, t, c), Mute(s, t), c \in s.rings,
           StreamOf(t, c) = StreamOf(s, c) \o Cells(f)
    PROVE  Tells(s, t, <<c, "in">>, f.id)
<1> DEFINE p == StreamOf(s, c)
           q == StreamOf(t, c)
           g == Cells(f)
           n == Len(p)
           e == n + 1
           b == <<c, "in">>
<1>1. /\ p \in Seq(Cell) /\ g \in Seq(Cell) /\ q = p \o g
      /\ n \in Nat /\ e \in Pos /\ Len(g) = f.len + 1 /\ f.len \in Nat
  BY StreamType, CellsType, LenProperties DEF Pos, Frame
<1>2. \A i \in 1 .. f.len + 1 : g[i] = <<f, i - 1>>
  BY DEF Cells
<1>3. Input(t, c) = q /\ Input(s, c) = p
  BY DEF Input, AtSocket
<1>4. ASSUME NEW x \in Conn PROVE Sent(t, x) = Sent(s, x)
  BY DEF AtSocket, Mute, Sent, OutOf
<1>5. ASSUME NEW x \in Conn, x # c PROVE Input(t, x) = Input(s, x)
  BY <1>5 DEF AtSocket, Input, StreamOf, HeadOf
<1> HIDE DEF p, q, g
<1>6. /\ Len(q) = n + (f.len + 1)
      /\ \A i \in 1 .. n + (f.len + 1) : q[i] = IF i <= n THEN p[i] ELSE g[i - n]
  BY <1>1, ConcatProperties
<1>7. ASSUME NEW k \in Pos, k \in 1 .. Len(q), q[k][2] = 0
      PROVE  \/ k \in 1 .. n /\ p[k] = q[k]
             \/ k = e /\ q[k][1] = f
  <2> HIDE DEF n
  <2>1. CASE k <= n
    <3>1. k \in 1 .. n /\ k \in 1 .. n + (f.len + 1)
      BY <1>1, <1>6, <1>7, <2>1 DEF Pos
    <3>2. p[k] = q[k]
      BY <1>6, <2>1, <3>1
    <3> QED  BY <3>1, <3>2
  <2>2. CASE ~(k <= n)
    <3>1. k - n \in 1 .. f.len + 1 /\ k \in 1 .. n + (f.len + 1)
      BY <1>1, <1>6, <1>7, <2>2
    <3>2. q[k] = g[k - n]
      BY <1>6, <2>2, <3>1
    <3>3. q[k] = <<f, k - n - 1>>
      BY <1>2, <3>1, <3>2
    <3>4. k - n - 1 = 0
      BY <1>7, <3>3
    <3>5. k = e
      BY <1>1, <3>1, <3>4 DEF Pos
    <3> QED  BY <3>3, <3>5
  <2> QED  BY <2>1, <2>2
<1>8. ASSUME NEW l \in Lanes, NEW k \in Pos, NEW i \in Ids, Marked(t, l, k, i)
      PROVE  Marked(s, l, k, i) \/ (l = b /\ k = e /\ i = f.id)
  <2>1. l[1] \in Conn
    BY DEF Lanes
  <2>2. CASE l # b
    <3>1. l[2] = "out" \/ l[1] # c
      BY <2>2 DEF Lanes
    <3> QED  BY <1>4, <1>5, <1>8, <2>1, <3>1 DEF Marked
  <2>3. CASE l = b
    <3>1. k \in 1 .. Len(q) /\ q[k][2] = 0 /\ q[k][1].id = i
      BY <1>3, <1>8, <2>3 DEF Marked
    <3>2. k \in 1 .. n /\ p[k] = q[k] => Marked(s, l, k, i)
      BY <1>3, <2>3, <3>1 DEF Marked
    <3> QED  BY <1>7, <2>3, <3>1, <3>2
  <2> QED  BY <2>2, <2>3
<1> QED  BY <1>1, <1>8 DEF Tells

LEMMA ArriveTells ==
    ASSUME NEW s, NEW c \in Conn, NEW f \in Frame, NEW k \in 1 .. f.len + 1,
           Good(s), Tidy(s), c \in s.rings, s.wire[c] = <<>>, s.rx[c] = "open"
    PROVE  Tells(s, Arrive(s, c, f, k), <<c, "in">>, f.id)
<1> DEFINE cells == Cells(f)
           in == s.inbox[c] \o SubSeq(cells, 1, k)
           w  == SubSeq(cells, k + 1, Len(cells))
           t  == [s EXCEPT !.inbox[c] = in, !.wire[c] = w]
<1>1. s \in Sys /\ f.len \in Nat /\ s.inbox[c] \in Seq(Cell) /\ Fed(s, c)
  BY GoodSys DEF Frame, Good, Sound, Sys, Tidy, InputAt
<1>2. cells \in Seq(Cell) /\ Len(cells) = f.len + 1
  BY CellsType
<1> HIDE DEF cells
<1>3. SubSeq(cells, 1, k) \in Seq(Cell)
  BY <1>1, <1>2, SubSeqProperties
<1>4. in \in Seq(Cell) /\ w \in Seq(Cell)
  BY <1>1, <1>2, <1>3, DropPrefix, ConcatProperties
<1>5. Arrive(s, c, f, k) = Arm(t, c)
  BY DEF Arrive, cells
<1>6. in = s.inbox[c] \o SubSeq(Cells(f), 1, k)
      /\ w = SubSeq(Cells(f), k + 1, Len(Cells(f)))
  BY DEF cells
<1> HIDE DEF in, w
<1>7. t \in Sys
  BY <1>1, <1>4 DEF Sys
<1>8. /\ AtSocket(s, t, c) /\ t.inbox[c] = in /\ t.wire[c] = w /\ t.rx = s.rx
      /\ Mute(s, t)
  BY <1>1 DEF Sys, AtSocket, Mute
<1> HIDE DEF t
<1>9. StreamOf(t, c) = StreamOf(s, c) \o Cells(f)
  <2>1. HeadOf(t, c) = HeadOf(s, c) /\ t.ring[c] = s.ring[c]
    BY <1>8 DEF AtSocket, HeadOf
  <2>2. /\ t.inbox[c] = s.inbox[c] \o SubSeq(Cells(f), 1, k)
        /\ t.wire[c] = SubSeq(Cells(f), k + 1, Len(Cells(f)))
        /\ t.rx[c] = s.rx[c]
    BY <1>6, <1>8
  <2> QED  BY <1>1, <1>7, <2>1, <2>2, FedArrive
<1>10. Tells(s, t, <<c, "in">>, f.id)
  BY <1>1, <1>7, <1>8, <1>9, SocketTells
<1> QED  BY <1>5, <1>7, <1>10, ArmFewer, TellsFewer

(* An upstream takes the oldest frame it was sent.                         *)
LEMMA TakesPasses ==
    ASSUME NEW s \in Sys, NEW c \in Conn, s.got[c] # <<>>, NEW b
    PROVE  /\ Passes(s, [s EXCEPT !.got[c] = Tail(@)], <<c, "out">>, b, 0)
           /\ Marked(s, <<c, "out">>, 1, Head(s.got[c]).id)
<1> DEFINE p == s.got[c]
           r == s.remain[c]
           g == Tail(p)
           t == [s EXCEPT !.got[c] = g]
           a == <<c, "out">>
<1>1. p \in Seq(Frame) /\ r \in Seq(Frame) /\ p # <<>>
  BY OutType
<1>2. 1 \in 1 .. Len(p) /\ Head(p) = p[1]
  <2>1. Len(p) \in Nat \ {0} /\ Head(p) = p[1]
    BY <1>1, EmptySeq, HeadTailProperties, LenProperties
  <2> QED  BY <2>1
<1>3. /\ 1 \in 1 .. Len(p \o r) /\ (p \o r)[1] = p[1]
  BY <1>1, <1>2, FirstOfConcat
<1>4. Marked(s, a, 1, Head(p).id)
  <2>1. Sent(s, c) = p \/ Sent(s, c) = p \o r
    BY DEF Sent, OutOf
  <2> HIDE DEF p, r
  <2> QED  BY <1>2, <1>3, <2>1 DEF Marked
<1>5. /\ t.rings = s.rings /\ t.remain = s.remain /\ t.got = [s.got EXCEPT ![c] = g]
      /\ t.ring = s.ring /\ t.inbox = s.inbox /\ t.wire = s.wire
      /\ t.hdr = s.hdr /\ t.have = s.have /\ DOMAIN s.got = Conn
  BY DEF Sys
<1> HIDE DEF t
<1>6. t.got[c] = g /\ \A x \in Conn : x # c => t.got[x] = s.got[x]
  BY <1>5
<1>7. ASSUME NEW x \in Conn PROVE Input(t, x) = Input(s, x)
  BY <1>5 DEF Input, StreamOf, HeadOf
<1>8. ASSUME NEW x \in Conn, x # c PROVE Sent(t, x) = Sent(s, x)
  BY <1>5, <1>6, <1>8 DEF Sent, OutOf
<1>9. ASSUME NEW k \in Pos, k \in 1 .. Len(Sent(t, c))
      PROVE  k + 1 \in 1 .. Len(Sent(s, c)) /\ Sent(t, c)[k] = Sent(s, c)[k + 1]
  <2>1. CASE c \in s.rings
    <3>1. Sent(t, c) = g \o r /\ Sent(s, c) = p \o r
      BY <1>5, <1>6, <2>1 DEF Sent, OutOf
    <3> HIDE DEF p, r
    <3>2. k \in 1 .. Len(Tail(p) \o r)
      BY <1>9, <3>1
    <3> QED  BY <1>1, <3>1, <3>2, TailConcat
  <2>2. CASE c \notin s.rings
    <3>1. Sent(t, c) = g /\ Sent(s, c) = p
      BY <1>5, <1>6, <2>2 DEF Sent
    <3> HIDE DEF p, r
    <3>2. /\ Len(p) \in Nat \ {0} /\ Len(g) = Len(p) - 1
          /\ \A i \in 1 .. Len(g) : g[i] = p[i + 1]
      BY <1>1, EmptySeq, HeadTailProperties, LenProperties
    <3> HIDE DEF g
    <3> QED  BY <1>9, <3>1, <3>2 DEF Pos
  <2> QED  BY <2>1, <2>2
<1>10. ASSUME NEW l \in Lanes, NEW k \in Pos, NEW i \in Ids, Marked(t, l, k, i)
       PROVE  IF l = a THEN Marked(s, l, k + 1, i) ELSE Marked(s, l, k, i)
  <2>1. l[1] \in Conn
    BY DEF Lanes
  <2>2. CASE l = a
    BY <1>9, <1>10, <2>2 DEF Marked
  <2>3. CASE l # a
    <3>1. l[2] # "out" \/ l[1] # c
      BY <2>3 DEF Lanes
    <3> QED  BY <1>7, <1>8, <1>10, <2>1, <2>3, <3>1 DEF Marked
  <2> QED  BY <2>2, <2>3
<1>11. Passes(s, t, a, b, 0)
  <2>1. 1 \in Pos
    BY DEF Pos
  <2> HIDE DEF a
  <2>2. \A l \in Lanes : \A k \in Pos : \A i \in Ids :
           Marked(t, l, k, i) =>
               IF l = a THEN Marked(s, l, k + 1, i)
               ELSE Marked(s, l, k, i) \/ (l = b /\ k = 1 /\ i = 0)
    BY <1>10
  <2> QED  BY <2>1, <2>2 DEF Passes
<1> QED  BY <1>4, <1>11 DEF t

(* A client's request is the one request the environment makes.            *)
SendsOne(c) ==
    /\ nreq' = nreq + 1 /\ nreq' \in Ids /\ asker' = [asker EXCEPT ![nreq'] = c]
    /\ Tells(sys, sys', <<c, "in">>, nreq')
SendsNone == nreq' = nreq /\ asker' = asker /\ Few(sys, sys')

LEMMA ClientAsks ==
    ASSUME NEW c \in Conn, LinkInv,
           \/ ClientConnects \/ HealthChanges \/ ClientSends(c) \/ Slows(c)
    PROVE  SendsOne(c) \/ SendsNone
<1>1. sys \in Sys /\ Good(sys) /\ Tidy(sys) /\ EnvOK /\ nreq \in Nat
  BY LinkParts, ReactorAssumption DEF LinkInv, FlowInv, IInv, EnvOK
<1>2. CASE ClientConnects \/ HealthChanges
  BY <1>2 DEF ClientConnects, HealthChanges, SendsNone, Few
<1>3. CASE ClientSends(c)
  <2>0. PICK m \in ClientKinds : \E k \in 1 .. m.len + 1 :
           sys' = Arrive(sys, c, [op |-> m.op, id |-> nreq', len |-> m.len], k)
    BY <1>3 DEF ClientSends
  <2>1. PICK k \in 1 .. m.len + 1 :
           sys' = Arrive(sys, c, [op |-> m.op, id |-> nreq', len |-> m.len], k)
    BY <2>0
  <2>2. /\ nreq' = nreq + 1 /\ nreq' \in 1 .. MaxReq
        /\ asker' = [asker EXCEPT ![nreq'] = c]
    BY <1>1, <1>3, ReactorAssumption DEF ClientSends, EnvOK
  <2> DEFINE f == [op |-> m.op, id |-> nreq', len |-> m.len]
  <2>3. f \in Frame /\ f.len = m.len /\ f.id = nreq'
    BY <2>2, ReactorAssumption DEF Frame
  <2>4. sys' = Arrive(sys, c, f, k)
    BY <2>1
  <2> HIDE DEF f
  <2>5. c \in sys.rings /\ sys.wire[c] = <<>> /\ sys.rx[c] = "open"
    BY <1>1, <1>3 DEF ClientSends, Sends, Open, Good, Sound, RingsLive
  <2>6. Tells(sys, sys', <<c, "in">>, f.id)
    BY <1>1, <2>3, <2>4, <2>5, ArriveTells
  <2> QED  BY <2>2, <2>3, <2>6 DEF SendsOne, Ids
<1>4. CASE Slows(c)
  <2>1. PICK r \in {"tight", "full"} : sys' = [sys EXCEPT !.tx[c] = r]
    BY <1>4 DEF Slows
  <2>2. nreq' = nreq /\ asker' = asker
    BY <1>4 DEF Slows
  <2>3. Quiet(sys, sys') /\ Mute(sys, sys')
    BY <1>1, <2>1 DEF Quiet, Mute, Sys
  <2> QED  BY <2>2, <2>3, QuietFewer, FewerFew DEF SendsNone
<1> QED  BY <1>2, <1>3, <1>4

LEMMA FarSendsNone ==
    ASSUME NEW c \in Conn, LinkInv,
           \/ UpstreamAnswers(c) \/ RestArrives(c) \/ PeerCloses(c)
           \/ PeerResets(c) \/ ConnectCompletes(c) \/ Drains(c)
    PROVE  SendsNone
<1>1. Good(sys) /\ sys \in Sys /\ Tidy(sys) /\ <<>> \in Seq(Cell)
  BY LinkParts, EmptySeq DEF LinkInv, FlowInv
<1>2. c \in sys.rings /\ Fed(sys, c)
  <2>1. Live(sys, c)
    BY DEF UpstreamAnswers, RestArrives, PeerCloses, PeerResets,
           ConnectCompletes, Drains, Sends, Open
  <2> QED  BY <1>1, <2>1 DEF Good, Sound, RingsLive, Tidy, InputAt
<1>u. nreq' = nreq /\ asker' = asker
  BY DEF UpstreamAnswers, RestArrives, PeerCloses, PeerResets,
         ConnectCompletes, Drains, env
<1>f. Fewer(sys, sys') => SendsNone
  BY <1>u, FewerFew DEF SendsNone
<1>3. CASE UpstreamAnswers(c)
  <2>0. PICK m \in UpKinds : \E k \in 1 .. m.len + 1 :
           sys' = [Arrive(sys, c, [op |-> m.op, id |-> Head(sys.got[c]).id,
                                   len |-> m.len], k) EXCEPT !.got[c] = Tail(@)]
    BY <1>3 DEF UpstreamAnswers
  <2>1. PICK k \in 1 .. m.len + 1 :
           sys' = [Arrive(sys, c, [op |-> m.op, id |-> Head(sys.got[c]).id,
                                   len |-> m.len], k) EXCEPT !.got[c] = Tail(@)]
    BY <2>0
  <2> DEFINE f == [op |-> m.op, id |-> Head(sys.got[c]).id, len |-> m.len]
             t == Arrive(sys, c, f, k)
  <2>2. sys.got[c] \in Seq(Frame) /\ sys.got[c] # <<>>
        /\ sys.wire[c] = <<>> /\ sys.rx[c] = "open"
    BY <1>1, <1>3 DEF UpstreamAnswers, Sends, Sys
  <2>3. Head(sys.got[c]) \in Frame
    BY <2>2, HeadTailProperties
  <2>4. f \in Frame /\ f.len = m.len /\ f.id = Head(sys.got[c]).id
    BY <2>3, ReactorAssumption DEF Frame
  <2>5. sys' = [t EXCEPT !.got[c] = Tail(@)]
    BY <2>1
  <2> HIDE DEF f
  <2>6. t \in Sys /\ t.got = sys.got
    BY <1>1, <2>4, ArriveGood, ArriveOutside, GoodSys
  <2>7. Tells(sys, t, <<c, "in">>, f.id)
    BY <1>1, <1>2, <2>2, <2>4, ArriveTells
  <2> HIDE DEF t
  <2>8. Passes(t, sys', <<c, "out">>, <<c, "in">>, 0)
    BY <2>2, <2>5, <2>6, TakesPasses
  <2>9. Marked(sys, <<c, "out">>, 1, f.id)
    BY <1>1, <2>2, <2>4, TakesPasses
  <2>10. <<c, "out">> # <<c, "in">>
    OBVIOUS
  <2>11. Few(sys, sys')
    BY <2>7, <2>8, <2>9, <2>10, LaneIn, TellsPasses
  <2> QED  BY <1>u, <2>11 DEF SendsNone
<1>4. CASE RestArrives(c)
  <2> DEFINE in == sys.inbox[c] \o sys.wire[c]
             t  == [sys EXCEPT !.inbox[c] = in, !.wire[c] = <<>>]
  <2>1. in \in Seq(Cell)
    BY <1>1, ConcatProperties DEF Sys
  <2>2. sys' = Arm(t, c)
    BY <1>4 DEF RestArrives
  <2>3. in = sys.inbox[c] \o sys.wire[c]
    OBVIOUS
  <2> HIDE DEF in
  <2>4. t \in Sys
    BY <1>1, <2>1 DEF Sys
  <2>5. /\ AtSocket(sys, t, c) /\ t.inbox[c] = in /\ t.wire[c] = <<>> /\ t.rx = sys.rx
        /\ Mute(sys, t)
    BY <1>1 DEF Sys, AtSocket, Mute
  <2> HIDE DEF t
  <2>6. StreamOf(t, c) = StreamOf(sys, c)
    <3>1. HeadOf(t, c) = HeadOf(sys, c) /\ t.ring[c] = sys.ring[c]
      BY <2>5 DEF AtSocket, HeadOf
    <3>2. t.inbox[c] = sys.inbox[c] \o sys.wire[c] /\ t.rx[c] = sys.rx[c]
      BY <2>3, <2>5
    <3> QED  BY <1>1, <1>2, <2>4, <2>5, <3>1, <3>2, FedMove
  <2>7. StreamOf(sys, c) = StreamOf(t, c) \o <<>>
    BY <2>4, <2>6, StreamType, ConcatEmptySeq
  <2> QED  BY <1>1, <1>f, <2>2, <2>4, <2>5, <2>7, SocketFewer
<1>5. ASSUME NEW t \in Sys, AtSocket(sys, t, c), Mute(sys, t), t.rx[c] # "open",
             t.wire[c] = <<>>, t.inbox[c] \in {sys.inbox[c], <<>>}
      PROVE  Fewer(sys, Arm(t, c))
  <2>1. HeadOf(t, c) = HeadOf(sys, c) /\ t.ring[c] = sys.ring[c]
    BY <1>5 DEF AtSocket, HeadOf
  <2>2. \E z \in Seq(Cell) : StreamOf(sys, c) = StreamOf(t, c) \o z
    BY <1>1, <1>2, <1>5, <2>1, FedCut
  <2> QED  BY <1>1, <1>5, <2>2, SocketFewer
<1>6. CASE PeerCloses(c)
  <2> DEFINE t == [sys EXCEPT !.rx[c] = "eof", !.wire[c] = <<>>]
  <2>1. t \in Sys
    BY <1>1 DEF Sys
  <2>2. /\ AtSocket(sys, t, c) /\ t.rx[c] = "eof" /\ t.wire[c] = <<>>
        /\ t.inbox[c] = sys.inbox[c] /\ Mute(sys, t)
    BY <1>1 DEF Sys, AtSocket, Mute
  <2>3. sys' = Arm(t, c)
    BY <1>6 DEF PeerCloses
  <2> HIDE DEF t
  <2> QED  BY <1>5, <1>f, <2>1, <2>2, <2>3
<1>7. CASE sys' = Reset(sys, c)
  <2> DEFINE t == [sys EXCEPT !.rx[c] = "err", !.tx[c] = "broken",
                              !.inbox[c] = <<>>, !.wire[c] = <<>>]
  <2>1. t \in Sys
    BY <1>1 DEF Sys
  <2>2. /\ AtSocket(sys, t, c) /\ t.rx[c] = "err" /\ t.wire[c] = <<>>
        /\ t.inbox[c] = <<>> /\ Mute(sys, t)
    BY <1>1 DEF Sys, AtSocket, Mute
  <2>3. sys' = Arm(t, c)
    BY <1>7 DEF Reset
  <2> HIDE DEF t
  <2> QED  BY <1>5, <1>f, <2>1, <2>2, <2>3
<1>8. CASE sys' = Arm([sys EXCEPT !.tx[c] = "open"], c)
  <2> DEFINE t == [sys EXCEPT !.tx[c] = "open"]
  <2>1. t \in Sys /\ Quiet(sys, t) /\ Mute(sys, t)
    BY <1>1 DEF Quiet, Mute, Sys
  <2>2. sys' = Arm(t, c)
    BY <1>8
  <2> HIDE DEF t
  <2> QED  BY <1>f, <2>1, <2>2, QuietFewer, ArmFewer, FewerTrans
<1> QED
  BY <1>3, <1>4, <1>6, <1>7, <1>8 DEF PeerResets, ConnectCompletes, Drains

----------------------------------------------------------------------------
(* Requests up to nreq are in one place each, and the others in none.      *)
Once ==
    /\ \A i \in Ids : Lone(sys, i) /\ (i > nreq => Unseen(sys, i))
    /\ \A i \in 1 .. nreq : asker[i] \in Conn

(* A client loses an upstream of its own and stays.                        *)
Deserts == Deserted(sys, sys')

LEMMA InitOnce == Init => Once
<1> SUFFICES ASSUME Init PROVE Once
  OBVIOUS
<1>1. sys.rings = {} /\ nreq = 0
  BY DEF Init
<1>2. ASSUME NEW x \in Conn PROVE Sent(sys, x) = <<>> /\ Input(sys, x) = <<>>
  <2>1. sys.got[x] = <<>>
    BY DEF Init
  <2> QED  BY <1>1, <2>1 DEF Sent, Input
<1>3. ASSUME NEW l \in Lanes, NEW k \in Pos, NEW i PROVE ~Marked(sys, l, k, i)
  <2>1. l[1] \in Conn
    BY DEF Lanes
  <2>2. ~(k \in 1 .. Len(<<>>))
    BY DEF Pos
  <2> QED  BY <1>2, <2>1, <2>2 DEF Marked
<1>4. 1 .. nreq = {}
  BY <1>1
<1> QED  BY <1>3, <1>4 DEF Once, Lone, Unseen

LEMMA FewOnce ==
    ASSUME Once, SendsNone
    PROVE  Once'
BY DEF Once, SendsNone, Few

LEMMA AsksOnce ==
    ASSUME Once, EnvOK, NEW c \in Conn, SendsOne(c)
    PROVE  Once'
<1>1. nreq \in Nat /\ nreq' = nreq + 1 /\ nreq' \in Ids /\ Ids \subseteq Nat
  BY ReactorAssumption DEF EnvOK, SendsOne, Ids
<1>2. PICK e \in Pos : \A l \in Lanes : \A k \in Pos : \A i \in Ids :
         Marked(sys', l, k, i) =>
             Marked(sys, l, k, i) \/ (l = <<c, "in">> /\ k = e /\ i = nreq')
  BY DEF SendsOne, Tells
<1>3. ASSUME NEW i \in Ids
      PROVE  Lone(sys', i) /\ (i > nreq' => Unseen(sys', i))
  <2>1. CASE i = nreq'
    <3>1. Unseen(sys, i)
      BY <1>1, <2>1 DEF Once
    <3>2. \A l \in Lanes : \A k \in Pos :
             Marked(sys', l, k, i) => l = <<c, "in">> /\ k = e
      BY <1>2, <3>1 DEF Unseen
    <3>3. Lone(sys', i)
      BY <3>2 DEF Lone
    <3> QED  BY <1>1, <2>1, <3>3
  <2>2. CASE i # nreq'
    <3>1. \A l \in Lanes : \A k \in Pos : Marked(sys', l, k, i) => Marked(sys, l, k, i)
      BY <1>2, <2>2
    <3>2. Lone(sys, i) /\ (i > nreq => Unseen(sys, i))
      BY DEF Once
    <3>3. Lone(sys', i)
      BY <3>1, <3>2 DEF Lone
    <3>4. i > nreq' => Unseen(sys', i)
      BY <1>1, <3>1, <3>2 DEF Unseen
    <3> QED  BY <3>3, <3>4
  <2> QED  BY <2>1, <2>2
<1>4. ASSUME NEW i \in 1 .. nreq' PROVE asker'[i] \in Conn
  <2>1. asker \in [1 .. MaxReq -> Conn \cup {Nil}] /\ i \in 1 .. MaxReq
    <3>1. nreq' \in 1 .. MaxReq /\ MaxReq \in Nat
      BY <1>1, ReactorAssumption DEF Ids
    <3> QED  BY <3>1 DEF EnvOK
  <2>2. asker'[i] = IF i = nreq' THEN c ELSE asker[i]
    BY <2>1 DEF SendsOne
  <2>3. i # nreq' => i \in 1 .. nreq
    BY <1>1
  <2> QED  BY <2>2, <2>3 DEF Once
<1> QED  BY <1>3, <1>4 DEF Once

LEMMA NextOnce ==
    LinkInv /\ Private /\ Once /\ [Next]_vars /\ [~Reselects]_vars /\ [~Deserts]_vars
        => Once'
<1> SUFFICES ASSUME LinkInv, Private, Once, [Next]_vars, [~Reselects]_vars,
                    [~Deserts]_vars
             PROVE  Once'
  OBVIOUS
<1>1. EnvOK
  BY LinkParts DEF IInv
<1>2. CASE Run /\ ~Reselects /\ ~Deserts
  <2>1. Few(sys, sys')
    BY <1>2, RunTurns DEF Turns, Deserts
  <2> QED  BY <1>2, <2>1, RunAsks, FewOnce DEF SendsNone
<1>3. CASE Environment
  <2>1. CASE ClientConnects \/ HealthChanges
    <3>1. PICK c \in Conn : TRUE
      BY ReactorAssumption
    <3> QED  BY <1>1, <2>1, ClientAsks, AsksOnce, FewOnce
  <2>2. CASE \E c \in Conn :
                \/ ClientSends(c) \/ UpstreamAnswers(c) \/ RestArrives(c)
                \/ PeerCloses(c) \/ PeerResets(c) \/ ConnectCompletes(c)
                \/ Slows(c) \/ Drains(c)
    <3>1. PICK c \in Conn :
                \/ ClientSends(c) \/ UpstreamAnswers(c) \/ RestArrives(c)
                \/ PeerCloses(c) \/ PeerResets(c) \/ ConnectCompletes(c)
                \/ Slows(c) \/ Drains(c)
      BY <2>2
    <3>2. CASE ClientSends(c) \/ Slows(c)
      BY <1>1, <3>2, ClientAsks, AsksOnce, FewOnce
    <3>3. CASE ~(ClientSends(c) \/ Slows(c))
      BY <3>1, <3>3, FarSendsNone, FewOnce
    <3> QED  BY <3>2, <3>3
  <2> QED  BY <1>3, <2>1, <2>2 DEF Environment
<1>4. CASE UNCHANGED vars
  <2>1. sys' = sys /\ nreq' = nreq /\ asker' = asker
    BY <1>4 DEF vars
  <2>2. SendsNone
    BY <2>1 DEF SendsNone, Few
  <2> QED  BY <2>2, FewOnce
<1> QED  BY <1>2, <1>3, <1>4 DEF Next

LEMMA OnceAnswers == LinkInv /\ Once => AtMostOneAnswer
<1> SUFFICES ASSUME LinkInv, Once, NEW i \in 1 .. nreq
             PROVE  Cardinality(AnswersTo(asker[i], i)) <= 1
  BY DEF AtMostOneAnswer
<1> DEFINE c == asker[i]
           S == AnswersTo(c, i)
<1>1. sys \in Sys /\ c \in Conn /\ i \in Ids
  <2>1. EnvOK
    BY LinkParts DEF IInv
  <2>2. i \in Ids
    BY <2>1, ReactorAssumption DEF EnvOK, Ids
  <2> QED  BY <2>2, LinkParts DEF Once
<1>2. sys.got[c] \in Seq(Frame) /\ sys.remain[c] \in Seq(Frame)
  BY <1>1, OutType
<1> HIDE DEF c
<1>3. ASSUME NEW k \in S PROVE k \in Pos /\ Marked(sys, <<c, "out">>, k, i)
  <2>1. k \in 1 .. Len(sys.got[c]) /\ sys.got[c][k].id = i
    BY <1>2, LenProperties DEF AnswersTo
  <2>2. k \in 1 .. Len(OutOf(sys, c)) /\ OutOf(sys, c)[k] = sys.got[c][k]
    BY <1>2, <2>1, FirstOfConcat DEF OutOf
  <2>3. k \in 1 .. Len(Sent(sys, c)) /\ Sent(sys, c)[k].id = i
    BY <2>1, <2>2 DEF Sent
  <2> QED  BY <2>1, <2>3 DEF Marked, Pos
<1>4. \A j, k \in S : j = k
  <2>1. Lone(sys, i)
    BY <1>1 DEF Once
  <2> QED  BY <1>1, <1>3, <2>1, LaneIn DEF Lone
<1> HIDE DEF S
<1>5. CASE S = {}
  BY <1>5, FS_EmptySet DEF S, c
<1>6. CASE S # {}
  <2>1. PICK k \in S : TRUE
    BY <1>6
  <2>2. S = {k}
    BY <1>4, <2>1
  <2>3. Cardinality(S) = 1
    BY <2>2, FS_Singleton
  <2> QED  BY <2>3 DEF S, c
<1> QED  BY <1>5, <1>6

(* A request is answered at most once: it is in one place at a time, in    *)
(* its client's input, its upstream's, or an output, and every handler     *)
(* that writes an answer eats the request (or the upstream's answer) it is *)
(* made of.  As long as no client's upstream is replaced, and none closes  *)
(* under a client that stays: what closeConn then sends the client names   *)
(* the request it kept last, whether that was answered or not.             *)
THEOREM AnswersAtMostOnce ==
    Spec /\ [][~Reselects]_vars /\ [][~Deserts]_vars => []AtMostOneAnswer
BY InitLinks, InitPrivate, InitOnce, NextLinks, NextPrivate, NextOnce,
   OnceAnswers, PTL DEF Spec


(* With one endpoint nothing is asked of the reactor, only of the          *)
(* upstreams: that none closes under a client that stays.                  *)
THEOREM OneEndpointAnswersOnce ==
    ASSUME OneEndpoint
    PROVE  Spec /\ [][~Deserts]_vars => []AtMostOneAnswer
<1>1. LinkInv /\ [Next]_vars => LinkInv' /\ [~Reselects]_vars
  BY NoneReselects, NextLinks
<1>2. Spec => [][~Reselects]_vars
  BY <1>1, InitLinks, PTL DEF Spec
<1> QED  BY <1>2, AnswersAtMostOnce, PTL
============================================================================
