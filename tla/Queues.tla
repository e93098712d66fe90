------------------------------- MODULE Queues -------------------------------
(***************************************************************************)
(* What the buffers promise: every open connection has a first-in          *)
(* first-out queue of its own that holds at most Room bytes, whatever the  *)
(* other connections do.  A reader looks at the oldest bytes first and     *)
(* drops what it has looked at, and nothing else is ever dropped.          *)
(***************************************************************************)
EXTENDS Naturals, Sequences

CONSTANTS
    Conn,   \* connections
    Data,   \* bytes
    Room,   \* bytes a queue holds
    Closed  \* the queue of a connection without a ring

VARIABLES
    queue,  \* what came in and was not dropped
    seen    \* what the reader is looking at; empty when it is not

Strings == UNION {[1 .. n -> Data] : n \in 1 .. Room}

IsOpen(c) == queue[c] # Closed

Init ==
    /\ queue = [c \in Conn |-> Closed]
    /\ seen = [c \in Conn |-> <<>>]

Open(c) ==
    /\ ~IsOpen(c)
    /\ queue' = [queue EXCEPT ![c] = <<>>]
    /\ UNCHANGED seen

Put(c, s) ==
    /\ IsOpen(c) /\ Len(queue[c]) + Len(s) <= Room
    /\ queue' = [queue EXCEPT ![c] = @ \o s]
    /\ UNCHANGED seen

Look(c, n) ==
    /\ IsOpen(c) /\ seen[c] = <<>> /\ n \in 1 .. Len(queue[c])
    /\ seen' = [seen EXCEPT ![c] = SubSeq(queue[c], 1, n)]
    /\ UNCHANGED queue

Drop(c) ==
    /\ IsOpen(c) /\ seen[c] # <<>>
    /\ queue' = [queue EXCEPT ![c] = SubSeq(@, Len(seen[c]) + 1, Len(@))]
    /\ seen' = [seen EXCEPT ![c] = <<>>]

Close(c) ==
    /\ IsOpen(c)
    /\ queue' = [queue EXCEPT ![c] = Closed]
    /\ seen' = [seen EXCEPT ![c] = <<>>]

Next ==
    \E c \in Conn :
        \/ Open(c) \/ Drop(c) \/ Close(c)
        \/ \E s \in Strings : Put(c, s)
        \/ \E n \in 1 .. Room : Look(c, n)

Spec == Init /\ [][Next]_<<queue, seen>>
============================================================================
