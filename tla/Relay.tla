------------------------------- MODULE Relay -------------------------------
(***************************************************************************)
(* ipm_relay: the forwarding of bytes between the two TCP connections of   *)
(* a tunnel.  Each side has one fixed buffer, filled from that side and    *)
(* emptied into the other one; a side is read only while its buffer is     *)
(* empty and written only while the other side's buffer is not.            *)
(*                                                                         *)
(* The environment is the two peers and the kernel: per side a receive     *)
(* queue, a send buffer with room for SndBuf bytes, a FIN and a reset.     *)
(* A byte is <<side that sent it, its position in what that side sent>>.   *)
(***************************************************************************)
EXTENDS Integers, Sequences

CONSTANTS
    BufferSize,   \* -b, the size of a side's buffer
    SndBuf,       \* room of a kernel send buffer
    MaxBytes      \* bound: bytes a peer sends

ASSUME ConstantsAssumption ==
    /\ BufferSize \in Nat
    /\ SndBuf \in Nat \ {0}
    /\ MaxBytes \in Nat

VARIABLES
    \* the relay
    status,       \* "attaching" until start, "running", "closed"
    cause,        \* why the tunnel was closed, and by which side
    attached,     \* sides[id].fd # -1
    size,         \* sides[id].size
    buf,          \* the bytes in sides[id].buf[0 .. len)
    pos,          \* sides[id].pos
    reading,      \* sides[id].is_reading
    writing,      \* sides[id].is_writing
    \* the peers and the kernel
    sent,         \* how many bytes the peer of a side has sent
    inq,          \* receive queue of a side's socket
    fin, rst,     \* the peer of a side has sent its FIN, has reset
    handed,       \* every byte send() accepted on a side
    inflight      \* how many of them its peer has not taken yet

relayVars == <<status, cause, attached, size, buf, pos, reading, writing>>
netVars == <<sent, inq, fin, rst, handed, inflight>>
vars == <<status, cause, attached, size, buf, pos, reading, writing,
          sent, inq, fin, rst, handed, inflight>>

Sides == {0, 1}
Other(id) == 1 - id
Lesser(a, b) == IF a <= b THEN a ELSE b
Greater(a, b) == IF a >= b THEN a ELSE b

Kinds == {"none", "eof", "error", "setup"}
Byte == Sides \X (Nat \ {0})

\* What a side has sent once it has sent n bytes.
Stream(id, n) == [k \in 1 .. n |-> <<id, k>>]

\* buf[pos, len): read from this side, not yet sent to the other.
Pending(id) == SubSeq(buf[id], pos[id] + 1, Len(buf[id]))

-----------------------------------------------------------------------------

Init ==
    /\ status = "attaching"
    /\ cause = [kind |-> "none", side |-> 0]
    /\ attached = [id \in Sides |-> FALSE]
    /\ size = [id \in Sides |-> 0]
    /\ buf = [id \in Sides |-> <<>>]
    /\ pos = [id \in Sides |-> 0]
    /\ reading = [id \in Sides |-> FALSE]
    /\ writing = [id \in Sides |-> FALSE]
    /\ sent = [id \in Sides |-> 0]
    /\ inq = [id \in Sides |-> <<>>]
    /\ fin = [id \in Sides |-> FALSE]
    /\ rst = [id \in Sides |-> FALSE]
    /\ handed = [id \in Sides |-> <<>>]
    /\ inflight = [id \in Sides |-> 0]

(***************************************************************************)
(* The relay.                                                              *)
(***************************************************************************)

\* on_close: the owner frees the tunnel, and exit() with it both events,
\* both sockets and both buffers.
Close(kind, id) ==
    /\ status' = "closed"
    /\ cause' = [kind |-> kind, side |-> id]
    /\ attached' = [i \in Sides |-> FALSE]
    /\ buf' = [i \in Sides |-> <<>>]
    /\ pos' = [i \in Sides |-> 0]
    /\ reading' = [i \in Sides |-> FALSE]
    /\ writing' = [i \in Sides |-> FALSE]
    /\ UNCHANGED size

\* set_events for one side, when the buffers are b and the positions p: read
\* while its own buffer is empty, write while the other one is not.
BugWantsReadAlways(id, b) == TRUE
BugWantsReadBothEmpty(id, b) == b[id] = <<>> /\ b[Other(id)] = <<>>
WantsRead(id, b) == b[id] = <<>>

WantsWrite(id, b, p) == p[Other(id)] < Len(b[Other(id)])

BugSetEventsOneSide(b, p) ==
    /\ buf' = b
    /\ pos' = p
    /\ reading' = [reading EXCEPT ![0] = WantsRead(0, b)]
    /\ writing' = [writing EXCEPT ![0] = WantsWrite(0, b, p)]
    /\ UNCHANGED <<cause, attached, size>>

SetEvents(b, p) ==
    /\ buf' = b
    /\ pos' = p
    /\ reading' = [i \in Sides |-> WantsRead(i, b)]
    /\ writing' = [i \in Sides |-> WantsWrite(i, b, p)]
    /\ UNCHANGED <<cause, attached, size>>

\* update: set_events on both sides.  event_add and event_del may fail, and
\* are called only where a flag changes.
Update(b, p) ==
    \/ SetEvents(b, p) /\ UNCHANGED status
    \/ /\ \E i \in Sides : \/ reading[i] # WantsRead(i, b)
                           \/ writing[i] # WantsWrite(i, b, p)
       /\ Close("setup", 0)

\* The end of send_to, after n of the left bytes side o had read were sent.
BugAfterSendNotAdvanced(o, n, left, b, p) ==
    IF n = left THEN Update([b EXCEPT ![o] = <<>>], [p EXCEPT ![o] = 0]) ELSE Update(b, p)
BugAfterSendNotReset(o, n, left, b, p) == Update(b, [p EXCEPT ![o] = @ + n])
BugAfterSendDropsRest(o, n, left, b, p) ==
    Update([b EXCEPT ![o] = <<>>], [p EXCEPT ![o] = 0])
AfterSend(o, n, left, b, p) ==
    IF n = left
    THEN Update([b EXCEPT ![o] = <<>>], [p EXCEPT ![o] = 0])
    ELSE Update(b, [p EXCEPT ![o] = @ + n])

\* send_to: the loop of send() calls, until everything is sent, the kernel
\* has no more room (EAGAIN) or the socket is dead.
SendTo(id, b, p) ==
    LET o == Other(id)
        left == Len(b[o]) - p[o]
        n == Lesser(left, SndBuf - inflight[id])
    IN  \/ /\ left > 0 /\ rst[id]
           /\ Close("error", id)
           /\ UNCHANGED <<handed, inflight>>
        \/ /\ left = 0 \/ ~rst[id]
           /\ handed' = [handed EXCEPT ![id] = @ \o SubSeq(b[o], p[o] + 1, p[o] + n)]
           /\ inflight' = [inflight EXCEPT ![id] = @ + n]
           /\ AfterSend(o, n, left, b, p)

\* The size attach_side gives a buffer when k bytes were already read.
BugRoomFixed(k) == BufferSize
Room(k) == Greater(k, BufferSize)

\* attach_side: k bytes of this side were already in the evbuffer of its
\* bufferevent (none when a plain socket is attached).
Attach(id, k) ==
    /\ status = "attaching"
    /\ ~attached[id]
    /\ k \in 0 .. Len(inq[id])
    /\ attached' = [attached EXCEPT ![id] = TRUE]
    /\ size' = [size EXCEPT ![id] = Room(k)]
    /\ buf' = [buf EXCEPT ![id] = SubSeq(inq[id], 1, k)]
    /\ pos' = [pos EXCEPT ![id] = 0]
    /\ inq' = [inq EXCEPT ![id] = SubSeq(@, k + 1, Len(@))]
    /\ UNCHANGED <<status, cause, reading, writing, sent, fin, rst, handed, inflight>>

\* attach fails (malloc, event_new), or start's event_add does, or the
\* owner gives up before start: it closes the tunnel.
SetupFails ==
    /\ status = "attaching"
    /\ Close("setup", 0)
    /\ UNCHANGED netVars

Start ==
    /\ status = "attaching"
    /\ attached[0] /\ attached[1]
    /\ status' = "running"
    /\ SetEvents(buf, pos)
    /\ UNCHANGED netVars

Readable(id) == inq[id] # <<>> \/ fin[id] \/ rst[id]

\* on_read.  recv() with a length of 0 returns 0, as at the end of the
\* stream; on a socket that was reset it gives what was queued, the end of
\* a stream whose FIN came first, or the error.
OnReadData(id) ==
    LET n == Lesser(size[id], Len(inq[id]))
    IN  /\ status = "running" /\ reading[id]
        /\ n > 0
        /\ inq' = [inq EXCEPT ![id] = SubSeq(@, n + 1, Len(@))]
        /\ SendTo(Other(id), [buf EXCEPT ![id] = SubSeq(inq[id], 1, n)], [pos EXCEPT ![id] = 0])
        /\ UNCHANGED <<sent, fin, rst>>

OnReadEof(id) ==
    /\ status = "running" /\ reading[id]
    /\ Readable(id) /\ (rst[id] => fin[id])
    /\ Lesser(size[id], Len(inq[id])) = 0
    /\ Close("eof", id)
    /\ UNCHANGED netVars

OnReadError(id) ==
    /\ status = "running" /\ reading[id]
    /\ rst[id]
    /\ Close("error", id)
    /\ UNCHANGED netVars

OnRead(id) == OnReadData(id) \/ OnReadEof(id) \/ OnReadError(id)

OnWrite(id) ==
    /\ status = "running" /\ writing[id]
    /\ inflight[id] < SndBuf \/ rst[id]
    /\ SendTo(id, buf, pos)
    /\ UNCHANGED <<sent, inq, fin, rst>>

(***************************************************************************)
(* The peers.                                                              *)
(***************************************************************************)

PeerSend(id) ==
    /\ status # "closed"
    /\ ~fin[id] /\ ~rst[id]
    /\ sent[id] < MaxBytes
    /\ sent' = [sent EXCEPT ![id] = @ + 1]
    /\ inq' = [inq EXCEPT ![id] = Append(@, <<id, sent[id] + 1>>)]
    /\ UNCHANGED <<relayVars, fin, rst, handed, inflight>>

PeerFin(id) ==
    /\ status # "closed"
    /\ ~fin[id] /\ ~rst[id]
    /\ fin' = [fin EXCEPT ![id] = TRUE]
    /\ UNCHANGED <<relayVars, sent, inq, rst, handed, inflight>>

PeerReset(id) ==
    /\ status # "closed"
    /\ ~rst[id]
    /\ rst' = [rst EXCEPT ![id] = TRUE]
    /\ UNCHANGED <<relayVars, sent, inq, fin, handed, inflight>>

PeerDrain(id) ==
    /\ inflight[id] > 0
    /\ inflight' = [inflight EXCEPT ![id] = 0]
    /\ UNCHANGED <<relayVars, sent, inq, fin, rst, handed>>

Peer(id) == PeerSend(id) \/ PeerFin(id) \/ PeerReset(id) \/ PeerDrain(id)

-----------------------------------------------------------------------------

Next ==
    \/ SetupFails
    \/ Start
    \/ \E id \in Sides : \/ \E k \in 0 .. Len(inq[id]) : Attach(id, k)
                         \/ OnRead(id)
                         \/ OnWrite(id)
                         \/ Peer(id)

\* The event loop calls a handler whose event stays ready.
Fairness == \A id \in Sides : WF_vars(OnRead(id)) /\ WF_vars(OnWrite(id))

\* The peer of a side goes on taking what it is sent.
Takes(id) == WF_vars(PeerDrain(id))

Spec == Init /\ [][Next]_vars

FairSpec == Spec /\ Fairness

-----------------------------------------------------------------------------

\* The types of the variables; a buffer holds no more than its size.
TypeOK ==
    /\ status \in {"attaching", "running", "closed"}
    /\ cause \in [kind : Kinds, side : Sides]
    /\ attached \in [Sides -> BOOLEAN]
    /\ size \in [Sides -> Nat]
    /\ buf \in [Sides -> Seq(Byte)]
    /\ pos \in [Sides -> Nat]
    /\ reading \in [Sides -> BOOLEAN]
    /\ writing \in [Sides -> BOOLEAN]
    /\ sent \in [Sides -> Nat]
    /\ inq \in [Sides -> Seq(Byte)]
    /\ fin \in [Sides -> BOOLEAN]
    /\ rst \in [Sides -> BOOLEAN]
    /\ handed \in [Sides -> Seq(Byte)]
    /\ inflight \in [Sides -> 0 .. SndBuf]
    /\ \A id \in Sides : pos[id] <= Len(buf[id]) /\ (attached[id] => Len(buf[id]) <= size[id])

(***************************************************************************)
(* Correctness.                                                            *)
(***************************************************************************)

\* Until the tunnel is closed, what a side has sent is exactly what the
\* other side was handed, then what waits in the buffer, then what waits in
\* the kernel: send_to and on_read lose, repeat, reorder and misdirect
\* nothing, whatever the partial sends.
NothingLost ==
    status # "closed" =>
        \A id \in Sides :
            handed[Other(id)] \o Pending(id) \o inq[id] = Stream(id, sent[id])

\* At any time, closed or not, a side was handed the beginning of what the
\* other side sent.
InOrder ==
    \A id \in Sides :
        /\ Len(handed[Other(id)]) <= sent[id]
        /\ handed[Other(id)] = Stream(id, Len(handed[Other(id)]))

\* While the relay runs, each buffer is either empty and its side read, or
\* holds something to send and the other side waits for a write event.  No
\* third case: set_events never leaves a side without the event that
\* advances it, and never reads over bytes that still have to be sent.
NoStall ==
    status = "running" =>
        \A id \in Sides :
            /\ pos[id] < Len(buf[id]) \/ buf[id] = <<>>
            /\ reading[id] <=> buf[id] = <<>>
            /\ writing[Other(id)] <=> buf[id] # <<>>

\* on_close at a side's FIN comes after everything that side sent was
\* handed to the other one: the FIN is read only from an empty buffer.
EofDeliversEverything ==
    cause.kind = "eof" =>
        handed[Other(cause.side)] = Stream(cause.side, sent[cause.side])

\* ipm_relay.h, "any side reads a FIN or an error, close the whole tunnel":
\* a tunnel that reads the end of a stream has a peer that ended it.
ClosesOnlyAtFin ==
    cause.kind = "eof" => fin[cause.side]

\* A running relay passes on every byte, unless it closes, to a side that
\* goes on taking what it is sent; a side that does not holds up only its own
\* direction.
EveryByteHanded ==
    \A id \in Sides :
        Takes(Other(id)) =>
            \A n \in 1 .. MaxBytes :
                (status = "running" /\ sent[id] >= n)
                    ~> (Len(handed[Other(id)]) >= n \/ status = "closed")

\* A FIN closes the tunnel in the end, even one that arrives while its side
\* is not read because the other one is slow, and even if this one takes
\* nothing any more.
FinCloses ==
    \A id \in Sides :
        Takes(Other(id)) => ((status = "running" /\ fin[id]) ~> (status = "closed"))

-----------------------------------------------------------------------------

(***************************************************************************)
(* The relay implements a pair of pipes.                                   *)
(***************************************************************************)

AbsPhase == CASE status = "attaching" -> "setup"
              [] status = "running"   -> "up"
              [] status = "closed"    -> "down"

AbsWhy == CASE cause.kind = "none"  -> "none"
            [] cause.kind = "eof"   -> "end"
            [] cause.kind = "error" -> "break"
            [] cause.kind = "setup" -> "resources"

P == INSTANCE Pipes WITH
        phase <- AbsPhase,
        why <- AbsWhy,
        said  <- [id \in Sides |-> Stream(id, sent[id])],
        heard <- handed,
        ended <- fin,
        broken <- rst

\* The relay's steps are steps of the pipes; a pipe whose far end goes on
\* taking delivers, and each pipe takes the tunnel down at its end.
ImplementsPipes ==
    /\ P!Spec
    /\ \A id \in Sides : Takes(id) => P!Delivers(id)
    /\ \A id \in Sides : P!GoesDownAtEnd(id)
=============================================================================
