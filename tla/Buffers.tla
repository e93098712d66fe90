------------------------------ MODULE Buffers ------------------------------
(***************************************************************************)
(* internal/buffer: the slab of chunks all reactors share, and the ring a  *)
(* connection lays over the chunk it got.  Slab.Get and Slab.Put run under *)
(* the slab's mutex and are one step each; a ring belongs to one reactor,  *)
(* whose calls on it interleave with those of the others on theirs.        *)
(*                                                                         *)
(* An index is masked with Cap - 1; Cap is a power of two (NewSlab rounds  *)
(* it up), so the mask is the remainder by Cap.                            *)
(***************************************************************************)
EXTENDS Integers, Sequences, FiniteSets

CONSTANTS
    Conn,      \* connections, of any reactor
    Data,      \* bytes
    Zero,      \* the byte of a new chunk
    Cap,       \* bytes of a chunk
    Prealloc,  \* chunks NewSlab makes
    MaxChunks, \* bound: chunks that are ever made
    Closed     \* what an absent ring is to Queues

ASSUME BuffersAssumption ==
    /\ Cap \in Nat \ {0} /\ Zero \in Data /\ Closed \notin Seq(Data)
    /\ MaxChunks \in Nat /\ Prealloc \in 0 .. MaxChunks

VARIABLES
    mem,    \* Slab.chunks: their bytes
    made,   \* len(Slab.chunks)
    free,   \* Slab.free, a stack of chunk numbers
    slot,   \* Ring.slot; -1 when the connection has no ring
    rd, wr, \* Ring.r and Ring.w
    view,   \* bytes Peek returned slices of and that are not consumed yet
    lent    \* history: what was in those slices when Peek returned them

slab == <<mem, made, free>>
out  == <<view, lent>>
vars == <<mem, made, free, slot, rd, wr, view, lent>>

Index  == 0 .. Cap - 1
Chunks == 0 .. MaxChunks - 1
Mask(i) == i % Cap

Init ==
    /\ mem = [k \in Chunks |-> [i \in Index |-> Zero]]
    /\ made = Prealloc /\ free = [i \in 1 .. Prealloc |-> i - 1]
    /\ slot = [c \in Conn |-> -1]
    /\ rd = [c \in Conn |-> 0] /\ wr = [c \in Conn |-> 0]
    /\ view = [c \in Conn |-> 0] /\ lent = [c \in Conn |-> <<>>]

----------------------------------------------------------------------------
HasRing(c) == slot[c] # -1

\* defect: the whole chunk counts as room
FreeNoReserve(c) == Cap - Mask(wr[c] - rd[c])

(* Ring.Len and Ring.Free; one byte of the chunk stays unused.             *)
Used(c) == Mask(wr[c] - rd[c])
Free(c) == Cap - 1 - Used(c)

(* len(a) of Writable: up to the end of the chunk; the rest of the room is *)
(* in the second slice, which readLoop does not use.                       *)
Contiguous(c) == IF wr[c] + Free(c) <= Cap THEN Free(c) ELSE Cap - wr[c]

\* defect: the second slice is left out
FirstSlice(c, n) ==
    [k \in 1 .. n |-> IF rd[c] + k <= Cap THEN mem[slot[c]][rd[c] + k - 1] ELSE Zero]

(* The two slices of Peek(n), one after the other: from r on to the end of *)
(* the chunk, and the rest from its start.                                 *)
Slices(c, n) ==
    [k \in 1 .. n |->
        mem[slot[c]][IF rd[c] + k <= Cap THEN rd[c] + k - 1 ELSE rd[c] + k - 1 - Cap]]

\* defect: the free list is read and not popped
GetNoPop(c) ==
    /\ free # <<>> /\ slot' = [slot EXCEPT ![c] = free[Len(free)]]
    /\ UNCHANGED slab

(* Slab.Get: the chunk freed last, or a new one.                           *)
GetFreed(c) ==
    /\ free # <<>>
    /\ slot' = [slot EXCEPT ![c] = free[Len(free)]]
    /\ free' = SubSeq(free, 1, Len(free) - 1)
    /\ UNCHANGED <<mem, made>>

GetNew(c) ==
    /\ free = <<>> /\ made < MaxChunks
    /\ slot' = [slot EXCEPT ![c] = made]
    /\ made' = made + 1
    /\ mem' = [mem EXCEPT ![made] = [i \in Index |-> Zero]]
    /\ UNCHANGED free

(* AttachRing.  When the poller refuses the descriptor adopt releases the  *)
(* ring at once, which is Attach and Release.                              *)
Attach(c) ==
    /\ ~HasRing(c)
    /\ GetFreed(c) \/ GetNew(c)
    /\ rd' = [rd EXCEPT ![c] = 0] /\ wr' = [wr EXCEPT ![c] = 0]
    /\ UNCHANGED out

(* readLoop: Writable, Recv into its first slice, AdvanceWrite.            *)
Store(k, i, s) ==
    [mem EXCEPT ![k] = [j \in Index |-> IF j \in i .. i + Len(s) - 1
                                        THEN s[j - i + 1] ELSE @[j]]]

Fill(c) ==
    /\ HasRing(c) /\ view[c] = 0
    /\ \E n \in 1 .. Contiguous(c) : \E s \in [1 .. n -> Data] :
          /\ mem' = Store(slot[c], wr[c], s)
          /\ wr' = [wr EXCEPT ![c] = Mask(@ + n)]
    /\ UNCHANGED <<made, free, slot, rd, out>>

(* PeekPayload, or CopyOut of a header; the bytes are sent or copied, which *)
(* takes other calls of the reactor, and then AdvanceRead drops them.      *)
Peek(c) ==
    /\ HasRing(c) /\ view[c] = 0
    /\ \E n \in 1 .. Used(c) :
          /\ view' = [view EXCEPT ![c] = n]
          /\ lent' = [lent EXCEPT ![c] = Slices(c, n)]
    /\ UNCHANGED <<slab, slot, rd, wr>>

\* defect: the read index is not masked
AdvanceUnmasked(c) ==
    /\ HasRing(c) /\ view[c] > 0
    /\ rd' = [rd EXCEPT ![c] = @ + view[c]]
    /\ view' = [view EXCEPT ![c] = 0] /\ lent' = [lent EXCEPT ![c] = <<>>]
    /\ UNCHANGED <<slab, slot, wr>>

AdvanceRead(c) ==
    /\ HasRing(c) /\ view[c] > 0
    /\ rd' = [rd EXCEPT ![c] = Mask(@ + view[c])]
    /\ view' = [view EXCEPT ![c] = 0] /\ lent' = [lent EXCEPT ![c] = <<>>]
    /\ UNCHANGED <<slab, slot, wr>>

\* defect: the connection drops its ring and the chunk is not given back
ReleaseLeaks(c) ==
    /\ HasRing(c) /\ slot' = [slot EXCEPT ![c] = -1]
    /\ rd' = [rd EXCEPT ![c] = 0] /\ wr' = [wr EXCEPT ![c] = 0]
    /\ view' = [view EXCEPT ![c] = 0] /\ lent' = [lent EXCEPT ![c] = <<>>]
    /\ UNCHANGED slab

(* Ring.Release from closeConn, with Slab.Put; the write of the peeked     *)
(* bytes may have failed, so slices may be out.  The Ring itself is        *)
(* dropped, its indices with it.                                           *)
Release(c) ==
    /\ HasRing(c)
    /\ free' = Append(free, slot[c]) /\ slot' = [slot EXCEPT ![c] = -1]
    /\ rd' = [rd EXCEPT ![c] = 0] /\ wr' = [wr EXCEPT ![c] = 0]
    /\ view' = [view EXCEPT ![c] = 0] /\ lent' = [lent EXCEPT ![c] = <<>>]
    /\ UNCHANGED <<mem, made>>

Next ==
    \E c \in Conn : Attach(c) \/ Fill(c) \/ Peek(c) \/ AdvanceRead(c) \/ Release(c)

Spec == Init /\ [][Next]_vars

----------------------------------------------------------------------------
(* Properties.                                                             *)

(* Types of every variable.                                                *)
TypeOK ==
    /\ mem \in [Chunks -> [Index -> Data]] /\ made \in 0 .. MaxChunks
    /\ free \in Seq(Chunks)
    /\ slot \in [Conn -> -1 .. MaxChunks - 1]
    /\ rd \in [Conn -> Index] /\ wr \in [Conn -> Index]
    /\ view \in [Conn -> Nat] /\ lent \in [Conn -> Seq(Data)]

(* A chunk has one owner: two rings never lie over the same chunk, and no  *)
(* ring over one that is on the free list, where it is once.               *)
OneOwner ==
    /\ \A c, d \in Conn : HasRing(c) /\ slot[c] = slot[d] => c = d
    /\ \A c \in Conn, i \in DOMAIN free : free[i] # slot[c]
    /\ \A i, j \in DOMAIN free : free[i] = free[j] => i = j

(* No chunk is lost: each one made is in a ring or on the free list.       *)
Owned == {slot[c] : c \in {d \in Conn : HasRing(d)}}
NothingLost == 0 .. made - 1 = Owned \cup {free[i] : i \in DOMAIN free}

(* What is in a ring, in the order it came in.                             *)
Contents(c) == [k \in 1 .. Used(c) |-> mem[slot[c]][Mask(rd[c] + k - 1)]]

(* For as long as the slices of a Peek are out they hold the bytes they    *)
(* held when Peek returned them, the oldest of the ring, across the end of *)
(* the chunk and whatever other connections write, take and give back.     *)
ViewIntact ==
    \A c \in Conn : view[c] > 0 =>
        /\ HasRing(c) /\ view[c] <= Used(c)
        /\ Slices(c, view[c]) = lent[c]
        /\ lent[c] = SubSeq(Contents(c), 1, view[c])

(* Rings over shared chunks implement a queue of Cap - 1 bytes for each    *)
(* connection.                                                             *)
Queue(c) == IF HasRing(c) THEN Contents(c) ELSE Closed

Q == INSTANCE Queues WITH Room <- Cap - 1,
        queue <- [c \in Conn |-> Queue(c)],
        seen <- [c \in Conn |-> Slices(c, view[c])]
RingsAreQueues == Q!Spec
============================================================================
