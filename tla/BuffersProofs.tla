--------------------------- MODULE BuffersProofs ---------------------------
(***************************************************************************)
(* Buffers for every chunk size, every number of connections and chunks:   *)
(* types, the ownership of chunks, and that rings over shared chunks       *)
(* implement one bounded queue per connection.                             *)
(***************************************************************************)
EXTENDS Buffers, SequenceTheorems, TLAPS

USE DEF out

----------------------------------------------------------------------------
(* Arithmetic of masked indices.                                           *)

(* A masked index is an index.                                             *)
LEMMA MaskRange == \A i \in Int : Mask(i) \in Index
  BY BuffersAssumption DEF Mask, Index

LEMMA ZeroIndex == 0 \in Index
  BY BuffersAssumption DEF Index

(* What the mask does to an index less than one chunk away.                *)
LEMMA MaskCases ==
  ASSUME NEW i \in Int
  PROVE  /\ i \in 0 .. Cap - 1 => Mask(i) = i
         /\ i \in Cap .. 2 * Cap - 1 => Mask(i) = i - Cap
         /\ i \in -Cap .. -1 => Mask(i) = i + Cap
  BY BuffersAssumption DEF Mask

(* Distance from the read to the write index.                              *)
LEMMA Distance ==
  ASSUME NEW r \in Index, NEW w \in Index
  PROVE  Mask(w - r) = IF r <= w THEN w - r ELSE w - r + Cap
  BY BuffersAssumption, MaskCases DEF Index

(* A write of n bytes that leaves the reserved byte moves the end by n.    *)
LEMMA WriteMoves ==
  ASSUME NEW r \in Index, NEW w \in Index, NEW n \in Nat,
         Mask(w - r) + n <= Cap - 1
  PROVE  Mask(Mask(w + n) - r) = Mask(w - r) + n
<1>0. Mask(w - r) = IF r <= w THEN w - r ELSE w - r + Cap
  BY Distance
<1>1. Mask(w + n) = IF w + n < Cap THEN w + n ELSE w + n - Cap
  BY <1>0, BuffersAssumption, MaskCases DEF Index
<1>2. Mask(w + n) \in Index
  BY MaskRange DEF Index
<1>3. Mask(Mask(w + n) - r) = IF r <= Mask(w + n) THEN Mask(w + n) - r
                              ELSE Mask(w + n) - r + Cap
  BY <1>2, Distance
<1>. QED  BY <1>0, <1>1, <1>3, BuffersAssumption DEF Index

(* A read of v bytes that does not pass the end moves the start by v.      *)
LEMMA ReadMoves ==
  ASSUME NEW r \in Index, NEW w \in Index, NEW v \in Nat,
         v <= Mask(w - r)
  PROVE  Mask(w - Mask(r + v)) = Mask(w - r) - v
<1>0. Mask(w - r) = IF r <= w THEN w - r ELSE w - r + Cap
  BY Distance
<1>1. Mask(r + v) = IF r + v < Cap THEN r + v ELSE r + v - Cap
  BY <1>0, BuffersAssumption, MaskCases DEF Index
<1>2. Mask(r + v) \in Index
  BY MaskRange DEF Index
<1>3. Mask(w - Mask(r + v)) = IF Mask(r + v) <= w THEN w - Mask(r + v)
                              ELSE w - Mask(r + v) + Cap
  BY <1>2, Distance
<1>. QED  BY <1>0, <1>1, <1>3, BuffersAssumption DEF Index

(* Masking before a further step changes nothing.                          *)
LEMMA MaskOnce ==
  ASSUME NEW r \in Index, NEW v \in 0 .. Cap - 1, NEW k \in 0 .. Cap - 1
  PROVE  Mask(Mask(r + v) + k) = Mask(r + (v + k))
<1>1. Mask(r + v) = IF r + v < Cap THEN r + v ELSE r + v - Cap
  BY BuffersAssumption, MaskCases DEF Index
<1>. QED  BY <1>1, BuffersAssumption DEF Index, Mask

(* The k-th byte from the read index, while it is not past the write index, *)
(* is not one of the n bytes written from there on.                        *)
LEMMA OldBytesStay ==
  ASSUME NEW r \in Index, NEW w \in Index, NEW n \in Nat,
         Mask(w - r) + n <= Cap - 1, w + n <= Cap,
         NEW k \in 1 .. Mask(w - r)
  PROVE  Mask(r + k - 1) \in Index /\ Mask(r + k - 1) \notin w .. w + n - 1
<1>0. Mask(w - r) = IF r <= w THEN w - r ELSE w - r + Cap
  BY Distance
<1>1. Mask(r + k - 1) = IF r + k - 1 < Cap THEN r + k - 1 ELSE r + k - 1 - Cap
  BY <1>0, BuffersAssumption, MaskCases DEF Index
<1>. QED  BY <1>0, <1>1, BuffersAssumption DEF Index

(* And the bytes behind those are the written ones, in order.              *)
LEMMA NewBytesFollow ==
  ASSUME NEW r \in Index, NEW w \in Index, NEW n \in Nat,
         Mask(w - r) + n <= Cap - 1, w + n <= Cap,
         NEW k \in Mask(w - r) + 1 .. Mask(w - r) + n
  PROVE  Mask(r + k - 1) = w + (k - Mask(w - r)) - 1
<1>0. Mask(w - r) = IF r <= w THEN w - r ELSE w - r + Cap
  BY Distance
<1>1. CASE r + k - 1 < Cap
  BY <1>0, <1>1, BuffersAssumption, MaskCases DEF Index
<1>2. CASE r + k - 1 >= Cap
  <2>1. Mask(r + k - 1) = r + k - 1 - Cap
    BY <1>0, <1>2, BuffersAssumption, MaskCases DEF Index
  <2>. QED  BY <1>0, <1>2, <2>1, BuffersAssumption DEF Index
<1>. QED  BY <1>0, <1>1, <1>2, BuffersAssumption DEF Index

----------------------------------------------------------------------------
(* The inductive invariant: chunks are owned once and none is lost, and    *)
(* slices that are out lie inside what the ring holds.                     *)

ViewHeld == \A c \in Conn : view[c] > 0 => HasRing(c) /\ view[c] <= Used(c)

IInv == TypeOK /\ OneOwner /\ NothingLost /\ ViewHeld

LEMMA UsedRange == ASSUME TypeOK, NEW c \in Conn PROVE Used(c) \in 0 .. Cap - 1
<1>1. rd[c] \in Index /\ wr[c] \in Index
  BY DEF TypeOK
<1>2. wr[c] - rd[c] \in Int
  BY <1>1, BuffersAssumption DEF Index
<1>. QED  BY <1>2, MaskRange DEF Used, Index

LEMMA InitIInv == Init => IInv
<1>. SUFFICES ASSUME Init PROVE IInv
  OBVIOUS
<1>. USE BuffersAssumption DEF Init
<1>1. TypeOK
  <2>1. 0 \in Index /\ 0 \in Nat /\ -1 \in -1 .. MaxChunks - 1
    BY DEF Index
  <2>2. free \in Seq(Chunks)
    BY DEF Chunks
  <2>. QED  BY <2>1, <2>2 DEF TypeOK
<1>2. OneOwner
  BY DEF OneOwner, HasRing
<1>3. NothingLost
  <2>1. Owned = {}
    BY DEF Owned, HasRing
  <2>2. {free[i] : i \in DOMAIN free} = 0 .. made - 1
    <3>1. DOMAIN free = 1 .. Prealloc
      OBVIOUS
    <3>2. \A j \in 0 .. Prealloc - 1 : j + 1 \in 1 .. Prealloc /\ free[j + 1] = j
      OBVIOUS
    <3>3. \A i \in 1 .. Prealloc : free[i] \in 0 .. Prealloc - 1
      OBVIOUS
    <3>4. ASSUME NEW j \in 0 .. Prealloc - 1 PROVE \E i \in DOMAIN free : free[i] = j
      BY <3>1, <3>2
    <3>5. {free[i] : i \in DOMAIN free} \subseteq 0 .. Prealloc - 1
      BY <3>1, <3>3
    <3>6. 0 .. Prealloc - 1 \subseteq {free[i] : i \in DOMAIN free}
      BY <3>4
    <3>7. made = Prealloc
      OBVIOUS
    <3>. QED  BY <3>5, <3>6, <3>7, Zenon
  <2>. QED  BY <2>1, <2>2 DEF NothingLost
<1>4. ViewHeld
  BY DEF ViewHeld
<1>. QED  BY <1>1, <1>2, <1>3, <1>4 DEF IInv

(* A new chunk is none of the ones that are owned or free.                 *)
LEMMA NewChunk ==
  ASSUME IInv
  PROVE  /\ \A c \in Conn : HasRing(c) => slot[c] \in 0 .. made - 1
         /\ \A i \in DOMAIN free : free[i] \in 0 .. made - 1
  BY DEF IInv, NothingLost, Owned

LEMMA AttachStep ==
  ASSUME IInv, NEW c \in Conn, Attach(c)
  PROVE  IInv'
<1>. USE BuffersAssumption DEF IInv
<1>1. CASE GetFreed(c)
  <2>. DEFINE n == Len(free)
  <2>0. n \in Nat \ {0} /\ n \in DOMAIN free /\ DOMAIN free = 1 .. n
    BY <1>1 DEF GetFreed, TypeOK
  <2>1. /\ free' = [i \in 1 .. n - 1 |-> free[i]] /\ DOMAIN free' = 1 .. n - 1
        /\ free' \in Seq(Chunks)
    BY <1>1, <2>0 DEF GetFreed, TypeOK
  <2>2. slot' = [slot EXCEPT ![c] = free[n]] /\ free[n] \in Chunks
    BY <1>1, <2>0 DEF GetFreed, TypeOK
  <2>. HIDE DEF n
  <2>3. TypeOK'
    <3>1. mem' = mem /\ made' = made /\ view' = view /\ lent' = lent
      BY <1>1 DEF Attach, GetFreed
    <3>2. rd' = [rd EXCEPT ![c] = 0] /\ wr' = [wr EXCEPT ![c] = 0]
      BY DEF Attach
    <3>3. rd' \in [Conn -> Index] /\ wr' \in [Conn -> Index]
      BY <3>2, ZeroIndex DEF TypeOK
    <3>4. slot' \in [Conn -> -1 .. MaxChunks - 1]
      BY <2>2 DEF TypeOK, Chunks
    <3>. QED  BY <2>1, <3>1, <3>3, <3>4 DEF TypeOK
  <2>4. OneOwner'
    <3>1. \A i \in DOMAIN free' : i \in DOMAIN free /\ i # n /\ free'[i] = free[i]
      BY <2>0, <2>1
    <3>2. \A d \in Conn \ {c} : slot'[d] = slot[d] /\ slot[d] # free[n]
      BY <2>0, <2>2 DEF OneOwner, TypeOK
    <3>3. slot'[c] = free[n] /\ \A i \in DOMAIN free' : free'[i] # free[n]
      BY <2>0, <2>2, <3>1 DEF OneOwner, TypeOK
    <3>. QED  BY <3>1, <3>2, <3>3 DEF OneOwner, HasRing
  <2>5. NothingLost'
    <3>1. Owned' = Owned \cup {free[n]}
      BY <2>2 DEF Owned, HasRing, Attach, TypeOK, Chunks
    <3>2. {free[i] : i \in DOMAIN free} = {free'[i] : i \in DOMAIN free'} \cup {free[n]}
      BY <2>0, <2>1
    <3>. QED  BY <1>1, <3>1, <3>2 DEF NothingLost, GetFreed
  <2>6. ViewHeld'
    BY <2>2 DEF ViewHeld, Attach, HasRing, Used, TypeOK
  <2>. QED  BY <2>3, <2>4, <2>5, <2>6
<1>2. CASE GetNew(c)
  <2>1. slot' = [slot EXCEPT ![c] = made] /\ made \in Chunks /\ made' = made + 1
    BY <1>2 DEF GetNew, TypeOK, Chunks
  <2>2. TypeOK'
    <3>1. /\ mem' \in [Chunks -> [Index -> Data]] /\ made' \in 0 .. MaxChunks
          /\ slot' \in [Conn -> -1 .. MaxChunks - 1]
      BY <1>2, <2>1 DEF GetNew, TypeOK, Chunks
    <3>. QED  BY <1>2, <3>1, ZeroIndex DEF Attach, GetNew, TypeOK
  <2>3. OneOwner'
    BY <1>2, <2>1, NewChunk DEF Attach, GetNew, OneOwner, TypeOK, HasRing, Chunks
  <2>4. NothingLost'
    <3>1. Owned' = Owned \cup {made}
      BY <2>1 DEF Owned, HasRing, Attach, TypeOK, Chunks
    <3>2. 0 .. made' - 1 = 0 .. made - 1 \cup {made}
      BY <2>1 DEF TypeOK, Chunks
    <3>. QED  BY <1>2, <3>1, <3>2 DEF NothingLost, GetNew
  <2>5. ViewHeld'
    BY <2>1 DEF ViewHeld, Attach, HasRing, Used, TypeOK
  <2>. QED  BY <2>2, <2>3, <2>4, <2>5
<1>. QED  BY <1>1, <1>2 DEF Attach

LEMMA ContiguousRoom ==
  ASSUME TypeOK, NEW c \in Conn, NEW n \in 1 .. Contiguous(c)
  PROVE  /\ n \in Nat /\ wr[c] + n <= Cap /\ Used(c) + n <= Cap - 1
<1>1. /\ Used(c) \in 0 .. Cap - 1 /\ wr[c] \in Index
  BY UsedRange DEF TypeOK
<1>. QED  BY <1>1, BuffersAssumption DEF Contiguous, Free, Index

LEMMA StoreTyped ==
  ASSUME TypeOK, NEW k \in Chunks, NEW i \in Index,
         NEW n \in Nat, NEW s \in [1 .. n -> Data]
  PROVE  /\ Len(s) = n
         /\ Store(k, i, s) \in [Chunks -> [Index -> Data]]
         /\ \A j \in Index : Store(k, i, s)[k][j] =
               IF j \in i .. i + n - 1 THEN s[j - i + 1] ELSE mem[k][j]
         /\ \A l \in Chunks \ {k} : Store(k, i, s)[l] = mem[l]
<1>1. Len(s) = n
  OBVIOUS
<1>. DEFINE g == [j \in Index |-> IF j \in i .. i + n - 1 THEN s[j - i + 1] ELSE mem[k][j]]
<1>2. Store(k, i, s) = [mem EXCEPT ![k] = g]
  BY <1>1 DEF Store
<1>3. g \in [Index -> Data]
  <2>1. \A j \in Index : j \in i .. i + n - 1 => j - i + 1 \in 1 .. n
    BY BuffersAssumption DEF Index
  <2>2. \A j \in Index : mem[k][j] \in Data
    BY DEF TypeOK
  <2>. QED  BY <2>1, <2>2
<1>4. \A j \in Index : g[j] = IF j \in i .. i + n - 1 THEN s[j - i + 1] ELSE mem[k][j]
  OBVIOUS
<1>. HIDE DEF g
<1>. QED  BY <1>1, <1>2, <1>3, <1>4 DEF TypeOK

LEMMA FillStep ==
  ASSUME IInv, NEW c \in Conn, Fill(c)
  PROVE  IInv'
<1>. USE BuffersAssumption DEF IInv
<1>1. PICK n \in 1 .. Contiguous(c) : \E s \in [1 .. n -> Data] :
          /\ mem' = Store(slot[c], wr[c], s)
          /\ wr' = [wr EXCEPT ![c] = Mask(@ + n)]
  BY DEF Fill
<1>2. PICK s \in [1 .. n -> Data] : mem' = Store(slot[c], wr[c], s)
  BY <1>1
<1>3. /\ n \in Nat /\ wr[c] + n <= Cap /\ Used(c) + n <= Cap - 1
  BY ContiguousRoom
<1>4. slot[c] \in Chunks /\ wr[c] \in Index
  <2>1. slot[c] \in -1 .. MaxChunks - 1 /\ slot[c] # -1
    BY DEF Fill, HasRing, TypeOK
  <2>. QED  BY <2>1 DEF Chunks, TypeOK
<1>w. wr' = [wr EXCEPT ![c] = Mask(wr[c] + n)]
  BY <1>1
<1>5. mem' \in [Chunks -> [Index -> Data]]
  BY <1>2, <1>3, <1>4, StoreTyped
<1>6. Mask(wr[c] + n) \in Index
  <2>1. wr[c] + n \in Int
    BY <1>3, <1>4 DEF Index
  <2>. QED  BY <2>1, MaskRange
<1>7. TypeOK'
  BY <1>w, <1>5, <1>6 DEF Fill, TypeOK
<1>8. OneOwner' /\ NothingLost'
  BY DEF Fill, OneOwner, NothingLost, Owned, HasRing
<1>9. ViewHeld'
  BY <1>w DEF ViewHeld, Fill, HasRing, Used, TypeOK
<1>. QED  BY <1>7, <1>8, <1>9

LEMMA SlicesTyped ==
  ASSUME TypeOK, NEW c \in Conn, HasRing(c), NEW n \in 1 .. Used(c)
  PROVE  Slices(c, n) \in Seq(Data)
<1>1. /\ Used(c) \in 0 .. Cap - 1 /\ rd[c] \in Index /\ n \in Nat
      /\ slot[c] \in Chunks
  <2>1. slot[c] \in -1 .. MaxChunks - 1 /\ slot[c] # -1
    BY DEF HasRing, TypeOK
  <2>. QED  BY <2>1, UsedRange, BuffersAssumption DEF Chunks, TypeOK
<1>. DEFINE at(k) == IF rd[c] + k <= Cap THEN rd[c] + k - 1 ELSE rd[c] + k - 1 - Cap
<1>2. \A k \in 1 .. n : at(k) \in Index
  BY <1>1, BuffersAssumption DEF Index
<1>. HIDE DEF at
<1>3. \A k \in 1 .. n : mem[slot[c]][at(k)] \in Data
  BY <1>1, <1>2 DEF TypeOK
<1>4. [k \in 1 .. n |-> mem[slot[c]][at(k)]] \in Seq(Data)
  BY <1>1, <1>3
<1>. QED  BY <1>4 DEF Slices, at

LEMMA PeekStep ==
  ASSUME IInv, NEW c \in Conn, Peek(c)
  PROVE  IInv'
<1>. USE DEF IInv
<1>1. PICK n \in 1 .. Used(c) : /\ view' = [view EXCEPT ![c] = n]
                                /\ lent' = [lent EXCEPT ![c] = Slices(c, n)]
  BY DEF Peek
<1>2. n \in Nat /\ n <= Used(c) /\ Slices(c, n) \in Seq(Data)
  BY UsedRange, SlicesTyped DEF Peek
<1>3. TypeOK'
  BY <1>1, <1>2 DEF Peek, TypeOK, slab
<1>4. OneOwner' /\ NothingLost'
  BY DEF Peek, OneOwner, NothingLost, Owned, HasRing, slab
<1>5. ViewHeld'
  BY <1>1, <1>2 DEF ViewHeld, Peek, HasRing, Used, TypeOK
<1>. QED  BY <1>3, <1>4, <1>5

LEMMA AdvanceReadStep ==
  ASSUME IInv, NEW c \in Conn, AdvanceRead(c)
  PROVE  IInv'
<1>. USE DEF IInv
<1>1. Mask(rd[c] + view[c]) \in Index
  <2>1. rd[c] \in Index /\ view[c] \in Nat
    BY DEF TypeOK
  <2>2. rd[c] + view[c] \in Int
    BY <2>1, BuffersAssumption DEF Index
  <2>. QED  BY <2>2, MaskRange
<1>2. TypeOK'
  BY <1>1 DEF AdvanceRead, TypeOK, slab
<1>3. OneOwner' /\ NothingLost'
  BY DEF AdvanceRead, OneOwner, NothingLost, Owned, HasRing, slab
<1>4. ViewHeld'
  BY DEF ViewHeld, AdvanceRead, HasRing, Used, TypeOK
<1>. QED  BY <1>2, <1>3, <1>4

LEMMA ReleaseStep ==
  ASSUME IInv, NEW c \in Conn, Release(c)
  PROVE  IInv'
<1>. USE BuffersAssumption DEF IInv
<1>. DEFINE n == Len(free)
<1>0. n \in Nat /\ DOMAIN free = 1 .. n /\ slot[c] \in Chunks
  BY DEF Release, HasRing, TypeOK, Chunks
<1>1. /\ free' \in Seq(Chunks) /\ DOMAIN free' = 1 .. n + 1
      /\ free'[n + 1] = slot[c] /\ \A i \in 1 .. n : free'[i] = free[i]
  BY <1>0 DEF Release, TypeOK
<1>2. slot' = [slot EXCEPT ![c] = -1]
  BY DEF Release
<1>. HIDE DEF n
<1>3. TypeOK'
  BY <1>1, <1>2 DEF Release, TypeOK, Index
<1>4. OneOwner'
  BY <1>0, <1>1, <1>2 DEF Release, OneOwner, HasRing, TypeOK, Chunks
<1>5. NothingLost'
  <2>1. Owned = Owned' \cup {slot[c]}
    BY <1>0, <1>2 DEF Owned, HasRing, Release, TypeOK, OneOwner
  <2>2. {free'[i] : i \in DOMAIN free'} = {free[i] : i \in DOMAIN free} \cup {slot[c]}
    BY <1>0, <1>1
  <2>. QED  BY <2>1, <2>2 DEF NothingLost, Release
<1>6. ViewHeld'
  BY <1>2 DEF ViewHeld, Release, HasRing, Used, TypeOK
<1>. QED  BY <1>3, <1>4, <1>5, <1>6

LEMMA NextIInv == IInv /\ [Next]_vars => IInv'
<1>. SUFFICES ASSUME IInv, [Next]_vars PROVE IInv'
  OBVIOUS
<1>1. CASE Next
  BY <1>1, AttachStep, FillStep, PeekStep, AdvanceReadStep, ReleaseStep DEF Next
<1>2. CASE UNCHANGED vars
  BY <1>2 DEF vars, slab, IInv, TypeOK, OneOwner, NothingLost, Owned, ViewHeld,
              HasRing, Used
<1>. QED  BY <1>1, <1>2

LEMMA Invariance == Spec => []IInv
  BY InitIInv, NextIInv, PTL DEF Spec

(* Every variable keeps its type.                                          *)
THEOREM Typed == Spec => []TypeOK
  BY Invariance, PTL DEF IInv

(* Two connections, of the same or of different reactors, never share a    *)
(* chunk, and a chunk in use is not free.                                  *)
THEOREM ChunksOwnedOnce == Spec => []OneOwner
  BY Invariance, PTL DEF IInv

(* The slab loses no chunk.                                                *)
THEOREM ChunksKept == Spec => []NothingLost
  BY Invariance, PTL DEF IInv

----------------------------------------------------------------------------
(* Slices that are out are the oldest bytes of the ring.                   *)
LEMMA SlicesAreOldest ==
  ASSUME TypeOK, NEW c \in Conn, NEW v \in Nat, v <= Used(c)
  PROVE  Slices(c, v) = SubSeq(Contents(c), 1, v)
<1>0. Used(c) \in 0 .. Cap - 1 /\ rd[c] \in Index
  BY UsedRange DEF TypeOK
<1>. DEFINE u == Used(c)
            f == [k \in 1 .. u |-> mem[slot[c]][Mask(rd[c] + k - 1)]]
<1>1. SubSeq(f, 1, v) = [k \in 1 .. v |-> f[k]]
  BY <1>0
<1>2. ASSUME NEW k \in 1 .. v
      PROVE  Mask(rd[c] + k - 1) = IF rd[c] + k <= Cap THEN rd[c] + k - 1
                                   ELSE rd[c] + k - 1 - Cap
  BY <1>0, MaskCases, BuffersAssumption DEF Index
<1>3. \A k \in 1 .. v : k \in 1 .. u
  BY <1>0
<1>4. Contents(c) = f
  BY DEF Contents
<1>. QED  BY <1>1, <1>2, <1>3, <1>4 DEF Slices

----------------------------------------------------------------------------
(* What each action does to the queues.                                    *)

LEMMA ContentsTyped ==
  ASSUME TypeOK, NEW c \in Conn, HasRing(c)
  PROVE  /\ Contents(c) \in Seq(Data) /\ Len(Contents(c)) = Used(c)
         /\ \A k \in 1 .. Used(c) : Contents(c)[k] = mem[slot[c]][Mask(rd[c] + k - 1)]
<1>0. Used(c) \in 0 .. Cap - 1 /\ rd[c] \in Index /\ slot[c] \in Chunks
  <2>1. slot[c] \in -1 .. MaxChunks - 1 /\ slot[c] # -1
    BY DEF HasRing, TypeOK
  <2>. QED  BY <2>1, UsedRange DEF TypeOK, Chunks
<1>1. ASSUME NEW k \in 1 .. Used(c) PROVE mem[slot[c]][Mask(rd[c] + k - 1)] \in Data
  <2>1. rd[c] + k - 1 \in Int
    BY <1>0, BuffersAssumption DEF Index
  <2>2. Mask(rd[c] + k - 1) \in Index
    BY <2>1, MaskRange
  <2>. QED  BY <1>0, <2>2 DEF TypeOK
<1>. QED  BY <1>0, <1>1 DEF Contents

(* A ring that keeps its chunk, its indices and its bytes keeps its queue. *)
LEMMA SameContents ==
  ASSUME TypeOK, NEW c \in Conn, HasRing(c),
         slot'[c] = slot[c], rd'[c] = rd[c], wr'[c] = wr[c],
         mem'[slot[c]] = mem[slot[c]]
  PROVE  Contents(c)' = Contents(c)
  BY DEF Contents, Used

LEMMA OthersKeep ==
  ASSUME IInv, NEW c \in Conn, NEW d \in Conn \ {c},
         slot'[d] = slot[d], rd'[d] = rd[d], wr'[d] = wr[d],
         \A k \in Chunks : k # slot[c] => mem'[k] = mem[k],
         HasRing(c)
  PROVE  Queue(d)' = Queue(d)
<1>1. CASE ~HasRing(d)
  BY <1>1 DEF Queue, HasRing
<1>2. CASE HasRing(d)
  <2>1. slot[d] \in Chunks /\ slot[d] # slot[c]
    <3>1. slot[d] \in -1 .. MaxChunks - 1 /\ slot[d] # -1
      BY <1>2 DEF HasRing, IInv, TypeOK
    <3>. QED  BY <1>2, <3>1 DEF IInv, OneOwner, Chunks
  <2>. QED  BY <1>2, <2>1, SameContents DEF Queue, HasRing, IInv
<1>. QED  BY <1>1, <1>2

LEMMA ConcatIs ==
  ASSUME NEW S, NEW a \in Seq(S), NEW b \in Seq(S)
  PROVE  a \o b = [k \in 1 .. Len(a) + Len(b) |->
                     IF k <= Len(a) THEN a[k] ELSE b[k - Len(a)]]
<1>. DEFINE f == [k \in 1 .. Len(a) + Len(b) |->
                   IF k <= Len(a) THEN a[k] ELSE b[k - Len(a)]]
<1>1. a \o b \in Seq(S) /\ Len(a \o b) = Len(a) + Len(b)
  OBVIOUS
<1>2. \A k \in 1 .. Len(a) + Len(b) : (a \o b)[k] = f[k]
  OBVIOUS
<1>3. f \in Seq(S) /\ Len(f) = Len(a) + Len(b)
  OBVIOUS
<1>. HIDE DEF f
<1>4. a \o b = f
  BY <1>1, <1>2, <1>3, SeqEqual
<1>. QED  BY <1>4 DEF f

LEMMA FillAppends ==
  ASSUME IInv, NEW c \in Conn, HasRing(c),
         NEW n \in 1 .. Contiguous(c), NEW s \in [1 .. n -> Data],
         mem' = Store(slot[c], wr[c], s),
         wr' = [wr EXCEPT ![c] = Mask(wr[c] + n)],
         slot' = slot, rd' = rd
  PROVE  /\ Contents(c)' = Contents(c) \o s /\ Used(c)' = Used(c) + n
<1>. USE DEF IInv
<1>1. /\ n \in Nat /\ wr[c] + n <= Cap /\ Used(c) + n <= Cap - 1
  BY ContiguousRoom
<1>2. rd[c] \in Index /\ wr[c] \in Index /\ slot[c] \in Chunks
  <2>1. slot[c] \in -1 .. MaxChunks - 1 /\ slot[c] # -1
    BY DEF HasRing, TypeOK
  <2>. QED  BY <2>1 DEF TypeOK, Chunks
<1>3. Used(c)' = Used(c) + n
  <2>1. Used(c)' = Mask(Mask(wr[c] + n) - rd[c])
    BY DEF Used, TypeOK
  <2>. QED  BY <1>1, <1>2, <2>1, WriteMoves DEF Used
<1>. DEFINE u == Used(c)
<1>4. u \in 0 .. Cap - 1 /\ Contents(c) \in Seq(Data) /\ Len(Contents(c)) = u
  BY UsedRange, ContentsTyped
<1>5. Len(s) = n /\ s \in Seq(Data)
  BY <1>1
<1>6. Contents(c) \o s = [k \in 1 .. u + n |-> IF k <= u THEN Contents(c)[k] ELSE s[k - u]]
  <2>. DEFINE a == Contents(c)
  <2>1. a \in Seq(Data) /\ Len(a) = u
    BY <1>4
  <2>. HIDE DEF a, u
  <2>2. a \o s = [k \in 1 .. Len(a) + Len(s) |-> IF k <= Len(a) THEN a[k] ELSE s[k - Len(a)]]
    BY <1>5, <2>1, ConcatIs
  <2>3. a \o s = [k \in 1 .. u + n |-> IF k <= u THEN a[k] ELSE s[k - u]]
    BY <1>5, <2>1, <2>2
  <2>. QED  BY <2>3 DEF a
<1>7. ASSUME NEW k \in 1 .. u + n
      PROVE  mem'[slot[c]][Mask(rd[c] + k - 1)]
               = IF k <= u THEN Contents(c)[k] ELSE s[k - u]
  <2>1. CASE k <= u
    <3>1. k \in 1 .. Mask(wr[c] - rd[c])
      BY <1>4, <2>1 DEF Used
    <3>2. /\ Mask(rd[c] + k - 1) \in Index
          /\ Mask(rd[c] + k - 1) \notin wr[c] .. wr[c] + n - 1
      <4>1. /\ rd[c] \in Index /\ wr[c] \in Index /\ n \in Nat
            /\ Mask(wr[c] - rd[c]) + n <= Cap - 1 /\ wr[c] + n <= Cap
            /\ k \in 1 .. Mask(wr[c] - rd[c])
        BY <1>1, <1>2, <3>1 DEF Used
      <4>. QED  BY <4>1, OldBytesStay
    <3>3. mem'[slot[c]][Mask(rd[c] + k - 1)] = mem[slot[c]][Mask(rd[c] + k - 1)]
      BY <1>1, <1>2, <3>2, StoreTyped
    <3>. QED  BY <2>1, <3>1, <3>3, ContentsTyped DEF Used
  <2>2. CASE k > u
    <3>1. k \in Mask(wr[c] - rd[c]) + 1 .. Mask(wr[c] - rd[c]) + n
      BY <1>1, <1>4, <2>2 DEF Used
    <3>2. Mask(rd[c] + k - 1) = wr[c] + (k - u) - 1
      BY <1>1, <1>2, <3>1, NewBytesFollow DEF Used
    <3>3. /\ Mask(rd[c] + k - 1) \in Index
          /\ Mask(rd[c] + k - 1) \in wr[c] .. wr[c] + n - 1
          /\ Mask(rd[c] + k - 1) - wr[c] + 1 = k - u
      <4>1. /\ wr[c] \in Index /\ n \in Nat /\ wr[c] + n <= Cap
            /\ u \in Nat /\ k \in u + 1 .. u + n
        BY <1>1, <1>2, <1>4, <2>2
      <4>. HIDE DEF u
      <4>. QED  BY <3>2, <4>1, BuffersAssumption DEF Index
    <3>4. mem'[slot[c]][Mask(rd[c] + k - 1)] = s[Mask(rd[c] + k - 1) - wr[c] + 1]
      BY <1>1, <1>2, <3>3, StoreTyped
    <3>. QED  BY <1>4, <2>2, <3>3, <3>4
  <2>. QED  BY <1>1, <1>4, <2>1, <2>2
<1>8. Contents(c)' = [k \in 1 .. u + n |-> mem'[slot[c]][Mask(rd[c] + k - 1)]]
  BY <1>3 DEF Contents
<1>. HIDE DEF u
<1>. QED  BY <1>3, <1>6, <1>7, <1>8

LEMMA AdvanceDrops ==
  ASSUME IInv, NEW c \in Conn, AdvanceRead(c)
  PROVE  /\ view[c] \in 1 .. Len(Contents(c))
         /\ Contents(c)' = SubSeq(Contents(c), view[c] + 1, Len(Contents(c)))
<1>. USE DEF IInv
<1>. DEFINE u == Used(c)
            v == view[c]
<1>1. /\ rd[c] \in Index /\ wr[c] \in Index /\ u \in 0 .. Cap - 1
      /\ v \in 1 .. u /\ HasRing(c)
  BY UsedRange DEF TypeOK, ViewHeld, AdvanceRead
<1>2. rd'[c] = Mask(rd[c] + v) /\ wr' = wr /\ slot' = slot /\ mem' = mem
  BY DEF AdvanceRead, slab, TypeOK
<1>3. Used(c)' = u - v
  BY <1>1, <1>2, ReadMoves DEF Used
<1>4. Contents(c) \in Seq(Data) /\ Len(Contents(c)) = u
  BY <1>1, ContentsTyped
<1>5. SubSeq(Contents(c), v + 1, u) = [k \in 1 .. u - v |-> Contents(c)[k + v]]
  BY <1>1, <1>4
<1>6. ASSUME NEW k \in 1 .. u - v
      PROVE  mem[slot[c]][Mask(Mask(rd[c] + v) + k - 1)] = Contents(c)[k + v]
  <2>1. v \in 0 .. Cap - 1 /\ k - 1 \in 0 .. Cap - 1 /\ k + v \in 1 .. u
    BY <1>1, BuffersAssumption
  <2>2. Mask(Mask(rd[c] + v) + (k - 1)) = Mask(rd[c] + (v + (k - 1)))
    BY <1>1, <2>1, MaskOnce
  <2>3. Mask(rd[c] + v) \in Int
    <3>1. rd[c] + v \in Int
      BY <1>1, <2>1, BuffersAssumption DEF Index
    <3>. QED  BY <3>1, MaskRange, BuffersAssumption DEF Index
  <2>4. /\ Mask(rd[c] + v) + (k - 1) = Mask(rd[c] + v) + k - 1
        /\ rd[c] + (v + (k - 1)) = rd[c] + (k + v) - 1
    BY <1>1, <2>1, <2>3, BuffersAssumption DEF Index
  <2>. QED  BY <1>1, <2>1, <2>2, <2>4, ContentsTyped
<1>7. Contents(c)' = [k \in 1 .. u - v |-> mem[slot[c]][Mask(Mask(rd[c] + v) + k - 1)]]
  BY <1>2, <1>3 DEF Contents
<1>8. Contents(c)' = SubSeq(Contents(c), v + 1, u)
  BY <1>5, <1>6, <1>7
<1>. QED  BY <1>1, <1>4, <1>8

----------------------------------------------------------------------------
(* The refinement.                                                         *)

queues == [c \in Conn |-> Queue(c)]
seens == [c \in Conn |-> Slices(c, view[c])]

(* What a reader sees depends on its own ring alone.                       *)
LEMMA SeenIs ==
  ASSUME TypeOK, ViewHeld, NEW c \in Conn
  PROVE  /\ view[c] = 0 => Slices(c, view[c]) = <<>>
         /\ view[c] > 0 => /\ Slices(c, view[c]) = SubSeq(Queue(c), 1, view[c])
                           /\ view[c] \in 1 .. Len(Queue(c))
                           /\ Slices(c, view[c]) # <<>>
                           /\ Len(Slices(c, view[c])) = view[c]
<1>1. CASE view[c] = 0
  <2>1. Slices(c, view[c]) = [k \in 1 .. 0 |->
          mem[slot[c]][IF rd[c] + k <= Cap THEN rd[c] + k - 1 ELSE rd[c] + k - 1 - Cap]]
    BY <1>1 DEF Slices
  <2>. QED  BY <1>1, <2>1
<1>2. CASE view[c] > 0
  <2>1. /\ HasRing(c) /\ view[c] \in Nat /\ view[c] <= Used(c) /\ Used(c) \in Nat
    BY <1>2, UsedRange, BuffersAssumption DEF ViewHeld, TypeOK
  <2>2. /\ Queue(c) \in Seq(Data) /\ Len(Queue(c)) = Used(c)
        /\ Queue(c) = Contents(c)
    BY <2>1, ContentsTyped DEF Queue
  <2>3. Slices(c, view[c]) = SubSeq(Queue(c), 1, view[c])
    BY <2>1, <2>2, SlicesAreOldest
  <2>4. Len(SubSeq(Queue(c), 1, view[c])) = view[c]
    BY <1>2, <2>1, <2>2
  <2>. QED  BY <1>2, <2>1, <2>2, <2>3, <2>4
<1>. QED  BY <1>1, <1>2 DEF TypeOK

(* A reader that looks at nothing sees nothing, and one whose chunk, read  *)
(* index and view stay the same sees the same bytes.                       *)
LEMMA NoView ==
  ASSUME NEW c \in Conn, view'[c] = 0
  PROVE  Slices(c, view[c])' = <<>>
<1>1. Slices(c, view[c])' = [k \in 1 .. 0 |->
        mem'[slot'[c]][IF rd'[c] + k <= Cap THEN rd'[c] + k - 1 ELSE rd'[c] + k - 1 - Cap]]
  BY DEF Slices
<1>. QED  BY <1>1

LEMMA SameSeen ==
  ASSUME TypeOK, ViewHeld, NEW c \in Conn, view'[c] = view[c],
         view[c] > 0 => /\ slot'[c] = slot[c] /\ rd'[c] = rd[c]
                        /\ mem'[slot[c]] = mem[slot[c]]
  PROVE  Slices(c, view[c])' = Slices(c, view[c])
<1>1. CASE view[c] = 0
  BY <1>1, NoView, SeenIs
<1>2. CASE view[c] > 0
  BY <1>2 DEF Slices
<1>. QED  BY <1>1, <1>2 DEF TypeOK

LEMMA OpenIffRing == ASSUME TypeOK, NEW c \in Conn PROVE Q!IsOpen(c) <=> HasRing(c)
  BY ContentsTyped, BuffersAssumption DEF Q!IsOpen, Queue

LEMMA InitQueues == Init => Q!Init
<1>. SUFFICES ASSUME Init PROVE Q!Init
  OBVIOUS
<1>1. \A c \in Conn : Queue(c) = Closed
  BY DEF Init, Queue, HasRing
<1>2. \A c \in Conn : Slices(c, view[c]) = <<>>
  <2>1. TypeOK /\ ViewHeld /\ \A c \in Conn : view[c] = 0
    BY InitIInv DEF IInv, Init
  <2>. QED  BY <2>1, SeenIs
<1>. QED  BY <1>1, <1>2 DEF Q!Init

(* One connection's queue changes, the others' do not.                     *)
LEMMA OneQueueChanges ==
  ASSUME NEW c \in Conn, \A d \in Conn \ {c} : Queue(d)' = Queue(d)
  PROVE  queues' = [queues EXCEPT ![c] = Queue(c)']
  BY DEF queues

LEMMA AttachOpens ==
  ASSUME IInv, NEW c \in Conn, Attach(c)
  PROVE  Q!Open(c)
<1>1. ~Q!IsOpen(c)
  BY OpenIffRing DEF IInv, Attach
<1>7. ASSUME NEW d \in Conn \ {c}
      PROVE  /\ slot'[d] = slot[d] /\ rd'[d] = rd[d] /\ wr'[d] = wr[d]
             /\ HasRing(d) => mem'[slot[d]] = mem[slot[d]]
  <2>1. /\ slot'[d] = slot[d] /\ rd'[d] = rd[d] /\ wr'[d] = wr[d]
    BY DEF Attach, GetFreed, GetNew, IInv, TypeOK
  <2>2. ASSUME HasRing(d) PROVE mem'[slot[d]] = mem[slot[d]]
    <3>1. slot[d] \in 0 .. made - 1 /\ slot[d] # made
      BY <2>2, NewChunk DEF IInv, TypeOK
    <3>2. mem' = mem \/ mem' = [mem EXCEPT ![made] = [i \in Index |-> Zero]]
      BY DEF Attach, GetFreed, GetNew
    <3>3. slot[d] \in Chunks /\ mem \in [Chunks -> [Index -> Data]]
      BY <3>1, BuffersAssumption DEF IInv, TypeOK, Chunks
    <3>. QED  BY <3>1, <3>2, <3>3
  <2>. QED  BY <2>1, <2>2
<1>2. ASSUME NEW d \in Conn \ {c} PROVE Queue(d)' = Queue(d)
  <2>1. CASE ~HasRing(d)
    BY <1>7, <2>1 DEF Queue, HasRing
  <2>2. CASE HasRing(d)
    BY <1>7, <2>2, SameContents DEF Queue, HasRing, IInv
  <2>. QED  BY <2>1, <2>2
<1>3. HasRing(c)'
  <2>1. slot'[c] \in Chunks
    <3>1. CASE GetFreed(c)
      <4>1. Len(free) \in DOMAIN free
        BY <3>1 DEF GetFreed, IInv, TypeOK
      <4>. QED  BY <3>1, <4>1 DEF GetFreed, IInv, TypeOK
    <3>2. CASE GetNew(c)
      <4>1. slot'[c] = made /\ made \in 0 .. MaxChunks - 1
        BY <3>2, BuffersAssumption DEF GetNew, IInv, TypeOK
      <4>. QED  BY <4>1 DEF Chunks
    <3>. QED  BY <3>1, <3>2 DEF Attach
  <2>. QED  BY <2>1, BuffersAssumption DEF HasRing, Chunks
<1>4. Contents(c)' = <<>>
  <2>1. Used(c)' = 0
    <3>1. rd'[c] = 0 /\ wr'[c] = 0
      BY DEF Attach, IInv, TypeOK
    <3>. QED  BY <3>1, MaskCases, BuffersAssumption DEF Used
  <2>2. Contents(c)' = [k \in 1 .. 0 |-> mem'[slot'[c]][Mask(rd'[c] + k - 1)]]
    BY <2>1 DEF Contents
  <2>. QED  BY <2>2
<1>5. queues' = [queues EXCEPT ![c] = <<>>]
  BY <1>2, <1>3, <1>4, OneQueueChanges DEF Queue
<1>6. seens' = seens
  <2>1. ASSUME NEW d \in Conn PROVE Slices(d, view[d])' = Slices(d, view[d])
    <3>1. view' = view /\ (view[d] > 0 => HasRing(d) /\ d # c)
      BY DEF Attach, IInv, ViewHeld
    <3>2. view[d] > 0 => /\ slot'[d] = slot[d] /\ rd'[d] = rd[d]
                         /\ mem'[slot[d]] = mem[slot[d]]
      BY <3>1, <1>7
    <3>. QED  BY <3>1, <3>2, SameSeen DEF IInv
  <2>. QED  BY <2>1 DEF seens
<1>. QED  BY <1>1, <1>5, <1>6 DEF Q!Open, queues, seens

LEMMA FillPuts ==
  ASSUME IInv, NEW c \in Conn, Fill(c)
  PROVE  \E s \in Q!Strings : Q!Put(c, s)
<1>0. PICK n \in 1 .. Contiguous(c) : \E s \in [1 .. n -> Data] :
          /\ mem' = Store(slot[c], wr[c], s)
          /\ wr' = [wr EXCEPT ![c] = Mask(@ + n)]
  BY DEF Fill
<1>1. PICK s \in [1 .. n -> Data] :
          /\ mem' = Store(slot[c], wr[c], s)
          /\ wr' = [wr EXCEPT ![c] = Mask(@ + n)]
  BY <1>0
<1>2. /\ n \in Nat /\ wr[c] + n <= Cap /\ Used(c) + n <= Cap - 1
  BY ContiguousRoom DEF IInv
<1>3. /\ Used(c) \in 0 .. Cap - 1 /\ Len(s) = n /\ n \in 1 .. Cap - 1
  <2>1. Used(c) \in 0 .. Cap - 1
    BY UsedRange DEF IInv
  <2>2. n >= 1 /\ n <= Cap - 1
    BY <1>2, <2>1, BuffersAssumption
  <2>3. Len(s) = n
    BY <1>2
  <2>. QED  BY <1>2, <2>1, <2>2, <2>3, BuffersAssumption
<1>4. s \in Q!Strings
  BY <1>3 DEF Q!Strings
<1>5. /\ HasRing(c) /\ slot' = slot /\ rd' = rd
      /\ wr' = [wr EXCEPT ![c] = Mask(wr[c] + n)]
      /\ slot[c] \in Chunks /\ wr[c] \in Index
  <2>1. slot[c] \in -1 .. MaxChunks - 1 /\ slot[c] # -1 /\ wr[c] \in Index
    BY DEF Fill, HasRing, IInv, TypeOK
  <2>2. slot[c] \in Chunks
    BY <2>1, BuffersAssumption DEF Chunks
  <2>. QED  BY <1>1, <2>1, <2>2 DEF Fill
<1>6. Contents(c)' = Contents(c) \o s
  BY <1>1, <1>5, FillAppends
<1>7. ASSUME NEW d \in Conn \ {c} PROVE Queue(d)' = Queue(d)
  <2>1. slot'[d] = slot[d] /\ rd'[d] = rd[d] /\ wr'[d] = wr[d]
    BY <1>5 DEF IInv, TypeOK
  <2>2. \A k \in Chunks : k # slot[c] => mem'[k] = mem[k]
    BY <1>1, <1>2, <1>5, StoreTyped DEF IInv
  <2>. QED  BY <1>5, <2>1, <2>2, OthersKeep
<1>8. queues[c] = Contents(c) /\ Len(queues[c]) + Len(s) <= Cap - 1
  BY <1>2, <1>3, <1>5, ContentsTyped DEF queues, Queue, IInv
<1>9. Queue(c)' = Contents(c) \o s
  BY <1>5, <1>6 DEF Queue, HasRing
<1>10. queues' = [queues EXCEPT ![c] = queues[c] \o s]
  BY <1>7, <1>8, <1>9, OneQueueChanges
<1>11. Q!IsOpen(c)
  BY <1>5, OpenIffRing DEF IInv
<1>13. seens' = seens
  <2>1. ASSUME NEW d \in Conn PROVE Slices(d, view[d])' = Slices(d, view[d])
    <3>1. view' = view /\ (view[d] > 0 => HasRing(d) /\ d # c)
      BY DEF Fill, IInv, ViewHeld
    <3>2. view[d] > 0 => mem'[slot[d]] = mem[slot[d]]
      <4>. SUFFICES ASSUME view[d] > 0 PROVE mem'[slot[d]] = mem[slot[d]]
        OBVIOUS
      <4>1. slot[d] \in -1 .. MaxChunks - 1 /\ slot[d] # -1 /\ slot[d] # slot[c]
        BY <3>1 DEF IInv, TypeOK, OneOwner, HasRing
      <4>2. slot[d] \in Chunks \ {slot[c]}
        BY <4>1, BuffersAssumption DEF Chunks
      <4>. QED  BY <1>1, <1>2, <1>5, <4>2, StoreTyped DEF IInv
    <3>. QED  BY <1>5, <3>1, <3>2, SameSeen DEF IInv
  <2>. QED  BY <2>1 DEF seens
<1>12. Q!Put(c, s)
  BY <1>8, <1>10, <1>11, <1>13 DEF Q!Put, queues, seens
<1>. QED  BY <1>4, <1>12

LEMMA PeekLooks ==
  ASSUME IInv, NEW c \in Conn, Peek(c)
  PROVE  \E n \in 1 .. Cap - 1 : Q!Look(c, n)
<1>1. PICK n \in 1 .. Used(c) : view' = [view EXCEPT ![c] = n]
  BY DEF Peek
<1>2. /\ HasRing(c) /\ view[c] = 0 /\ slot' = slot /\ rd' = rd /\ mem' = mem
      /\ wr' = wr
  BY DEF Peek, slab
<1>3. queues' = queues
  BY <1>2 DEF queues, Queue, HasRing, Contents, Used
<1>4. n \in Nat /\ n <= Used(c) /\ Used(c) \in 0 .. Cap - 1
  BY UsedRange DEF IInv
<1>5. Slices(c, view[c])' = SubSeq(queues[c], 1, n)
  <2>1. Slices(c, view[c])' = Slices(c, n)
    BY <1>1, <1>2 DEF Slices, IInv, TypeOK
  <2>. QED  BY <1>2, <1>4, <2>1, SlicesAreOldest DEF queues, Queue, IInv
<1>6. ASSUME NEW d \in Conn \ {c} PROVE Slices(d, view[d])' = Slices(d, view[d])
  BY <1>1, <1>2, SameSeen DEF IInv, TypeOK
<1>7. seens' = [seens EXCEPT ![c] = SubSeq(queues[c], 1, n)]
  BY <1>5, <1>6 DEF seens
<1>8. Q!IsOpen(c) /\ seens[c] = <<>>
  BY <1>2, OpenIffRing, SeenIs DEF IInv, seens
<1>9. n \in 1 .. Len(queues[c]) /\ n \in 1 .. Cap - 1
  BY <1>2, <1>4, ContentsTyped, BuffersAssumption DEF queues, Queue, IInv
<1>10. Q!Look(c, n)
  BY <1>3, <1>7, <1>8, <1>9 DEF Q!Look, queues, seens
<1>. QED  BY <1>9, <1>10

LEMMA AdvanceReadDrops ==
  ASSUME IInv, NEW c \in Conn, AdvanceRead(c)
  PROVE  Q!Drop(c)
<1>1. /\ view[c] \in 1 .. Len(Contents(c))
      /\ Contents(c)' = SubSeq(Contents(c), view[c] + 1, Len(Contents(c)))
  BY AdvanceDrops
<1>2. /\ HasRing(c) /\ slot' = slot /\ mem' = mem /\ wr' = wr /\ view[c] > 0
      /\ rd' = [rd EXCEPT ![c] = Mask(rd[c] + view[c])]
      /\ view' = [view EXCEPT ![c] = 0]
  BY DEF AdvanceRead, slab
<1>3. ASSUME NEW d \in Conn \ {c}
      PROVE  Queue(d)' = Queue(d) /\ Slices(d, view[d])' = Slices(d, view[d])
  BY <1>2, OthersKeep, SameSeen DEF IInv, TypeOK
<1>4. queues[c] = Contents(c) /\ Queue(c)' = Contents(c)'
  BY <1>2 DEF queues, Queue, HasRing
<1>5. Len(seens[c]) = view[c] /\ seens[c] # <<>>
  BY <1>2, SeenIs DEF IInv, seens
<1>6. queues' = [queues EXCEPT ![c] = SubSeq(queues[c], Len(seens[c]) + 1, Len(queues[c]))]
  BY <1>1, <1>3, <1>4, <1>5, OneQueueChanges
<1>7. seens' = [seens EXCEPT ![c] = <<>>]
  <2>1. Slices(c, view[c])' = <<>>
    BY <1>2, NoView DEF IInv, TypeOK
  <2>. QED  BY <1>3, <2>1 DEF seens
<1>8. Q!IsOpen(c)
  BY <1>2, OpenIffRing DEF IInv
<1>. QED  BY <1>5, <1>6, <1>7, <1>8 DEF Q!Drop, queues, seens

LEMMA ReleaseCloses ==
  ASSUME IInv, NEW c \in Conn, Release(c)
  PROVE  Q!Close(c)
<1>1. HasRing(c) /\ Q!IsOpen(c)
  BY OpenIffRing DEF IInv, Release
<1>2. ASSUME NEW d \in Conn \ {c}
      PROVE  Queue(d)' = Queue(d) /\ Slices(d, view[d])' = Slices(d, view[d])
  BY <1>1, OthersKeep, SameSeen DEF Release, IInv, TypeOK
<1>3. Queue(c)' = Closed
  BY DEF Release, Queue, HasRing, IInv, TypeOK
<1>4. Slices(c, view[c])' = <<>>
  BY NoView DEF Release, IInv, TypeOK
<1>5. seens' = [seens EXCEPT ![c] = <<>>]
  BY <1>2, <1>4 DEF seens
<1>. QED  BY <1>1, <1>2, <1>3, <1>5, OneQueueChanges DEF Q!Close, queues, seens

LEMMA StepsAreQueueSteps == IInv /\ [Next]_vars => [Q!Next]_<<queues, seens>>
<1>. SUFFICES ASSUME IInv, [Next]_vars PROVE [Q!Next]_<<queues, seens>>
  OBVIOUS
<1>1. CASE UNCHANGED vars
  BY <1>1 DEF vars, slab, queues, seens, Slices, Queue, HasRing, Contents, Used
<1>2. ASSUME NEW c \in Conn, Attach(c) \/ Fill(c) \/ Peek(c) \/ AdvanceRead(c) \/ Release(c)
      PROVE  [Q!Next]_<<queues, seens>>
  <2>1. CASE Attach(c)  BY <2>1, AttachOpens DEF Q!Next
  <2>2. CASE Fill(c)  BY <2>2, FillPuts DEF Q!Next
  <2>3. CASE Peek(c)  BY <2>3, PeekLooks DEF Q!Next
  <2>4. CASE AdvanceRead(c)  BY <2>4, AdvanceReadDrops DEF Q!Next
  <2>5. CASE Release(c)  BY <2>5, ReleaseCloses DEF Q!Next
  <2>. QED  BY <1>2, <2>1, <2>2, <2>3, <2>4, <2>5
<1>. QED  BY <1>1, <1>2 DEF Next

(* Rings over shared chunks implement a bounded first-in first-out queue   *)
(* per connection: no byte is lost, made up, reordered, or written by      *)
(* another connection.                                                     *)
THEOREM QueuesImplemented == Spec => RingsAreQueues
<1>1. IInv /\ [Next]_vars => [Q!Next]_<<queues, seens>>
  BY StepsAreQueueSteps
<1>. QED  BY <1>1, InitQueues, Invariance, PTL DEF Spec, RingsAreQueues, Q!Spec, queues, seens

----------------------------------------------------------------------------
(* What Peek handed out is what the slices hold.                           *)
Kept == lent = seens

LEMMA InitKept == Init => Kept
<1>. SUFFICES ASSUME Init PROVE Kept
  OBVIOUS
<1>1. seens = [c \in Conn |-> <<>>]
  BY InitQueues DEF Q!Init, seens
<1>. QED  BY <1>1 DEF Init, Kept

LEMMA NextKept == IInv /\ Kept /\ [Next]_vars => Kept'
<1>. SUFFICES ASSUME IInv, Kept, [Next]_vars PROVE Kept'
  OBVIOUS
<1>1. CASE UNCHANGED vars
  BY <1>1 DEF vars, Kept, seens, Slices
<1>2. ASSUME NEW c \in Conn, Attach(c) PROVE Kept'
  BY <1>2, AttachOpens DEF Q!Open, Attach, Kept, seens
<1>3. ASSUME NEW c \in Conn, Fill(c) PROVE Kept'
  BY <1>3, FillPuts DEF Q!Put, Fill, Kept, seens
<1>4. ASSUME NEW c \in Conn, Peek(c) PROVE Kept'
  <2>1. PICK n \in 1 .. Used(c) : /\ view' = [view EXCEPT ![c] = n]
                                  /\ lent' = [lent EXCEPT ![c] = Slices(c, n)]
    BY <1>4 DEF Peek
  <2>2. slot' = slot /\ rd' = rd /\ mem' = mem
    BY <1>4 DEF Peek, slab
  <2>3. Slices(c, view[c])' = Slices(c, n)
    BY <2>1, <2>2 DEF Slices, IInv, TypeOK
  <2>4. ASSUME NEW d \in Conn \ {c} PROVE Slices(d, view[d])' = Slices(d, view[d])
    BY <2>1, <2>2, SameSeen DEF IInv, TypeOK
  <2>5. seens' = [seens EXCEPT ![c] = Slices(c, n)]
    BY <2>3, <2>4 DEF seens
  <2>. QED  BY <2>1, <2>5 DEF Kept
<1>5. ASSUME NEW c \in Conn, AdvanceRead(c) PROVE Kept'
  BY <1>5, AdvanceReadDrops DEF Q!Drop, AdvanceRead, Kept, seens
<1>6. ASSUME NEW c \in Conn, Release(c) PROVE Kept'
  BY <1>6, ReleaseCloses DEF Q!Close, Release, Kept, seens
<1>. QED  BY <1>1, <1>2, <1>3, <1>4, <1>5, <1>6 DEF Next

(* Peeked slices keep the bytes they had when they were handed out.        *)
THEOREM SlicesIntact == Spec => []ViewIntact
<1>1. IInv /\ Kept => ViewIntact
  <2>. SUFFICES ASSUME IInv, Kept, NEW c \in Conn, view[c] > 0
                PROVE  /\ HasRing(c) /\ view[c] <= Used(c)
                       /\ Slices(c, view[c]) = lent[c]
                       /\ lent[c] = SubSeq(Contents(c), 1, view[c])
    BY DEF ViewIntact
  <2>1. HasRing(c) /\ view[c] <= Used(c) /\ view[c] \in Nat
    BY DEF IInv, ViewHeld, TypeOK
  <2>2. Slices(c, view[c]) = SubSeq(Contents(c), 1, view[c])
    BY <2>1, SlicesAreOldest DEF IInv
  <2>. QED  BY <2>1, <2>2 DEF Kept, seens
<1>. QED  BY <1>1, InitKept, NextKept, Invariance, PTL DEF Spec
============================================================================
