----------------------------- MODULE UdpBatch -----------------------------
(***************************************************************************)
(* ipm_udp_io, ipm_udp_recv and ipm_udp_batch: how a UDP socket's read     *)
(* callback takes the datagrams that have come and passes them on.  With   *)
(* -G the kernel may hand several datagrams over as one (GRO), they are    *)
(* cut apart, gathered again into groups and sent a group at a time (GSO); *)
(* without it they are taken and sent one by one.                          *)
(*                                                                         *)
(* The socket is one of two kinds.  On the control sockets (down) a        *)
(* datagram starts with a session number, which is taken off and says      *)
(* where the rest goes.  On the sockets of visitors and mapped hosts the   *)
(* session follows from the sender, its number is put in front, and all    *)
(* goes to the other program.                                              *)
(*                                                                         *)
(* A byte is <<the datagram it came in, its position there>>; a byte of a  *)
(* session number put in front is <<the session, its position>>.           *)
(***************************************************************************)
EXTENDS Integers, Sequences, FiniteSets

CONSTANTS
    Session,       \* the sessions there are
    NoSession,     \* no session takes the datagram, or it is a registration
    Peer,          \* the other program: the client's server, the agent's client
    SessionLen,    \* IPM_UDP_SESSION_LEN
    GsoMaxSegs,    \* IPM_UDP_GSO_MAX_SEGS
    GsoMaxBytes,   \* IPM_UDP_GSO_MAX_BYTES
    Incoming,      \* bound: the datagrams that come, by length and session
    MaxDatagrams   \* bound: how many come

ASSUME ConstantsAssumption ==
    /\ SessionLen \in Nat \ {0}
    /\ GsoMaxSegs \in Nat \ {0}
    /\ GsoMaxBytes \in Nat
    /\ MaxDatagrams \in Nat
    /\ Incoming \subseteq [len : Nat, session : Session \union {NoSession}]
    /\ NoSession \notin Session

VARIABLES
    status,     \* "starting", "running", "refused" to start, "exited" on an error
    wanted,     \* -G is given
    supported,  \* the kernel knows UDP_SEGMENT and UDP_GRO
    batch,      \* ipm_udp_io::batch
    down,       \* the kind of the socket
    arrived,    \* history: length and session of each datagram that came
    queue,      \* the socket's receive queue
    busy,       \* the read callback runs
    rcv,        \* its ipm_udp_recv
    out,        \* its ipm_udp_batch
    tx          \* history: the datagrams the kernel was asked to send

setup == <<wanted, supported, batch, down>>
vars == <<status, wanted, supported, batch, down, arrived, queue, busy, rcv, out, tx>>

Lesser(a, b) == IF a <= b THEN a ELSE b

\* The n-th datagram that came.
Datagram(n) == [k \in 1 .. arrived[n].len |-> <<n, k>>]

\* The number of session s, as ids[] and send_one put it in front.
Header(s) == [k \in 1 .. SessionLen |-> <<s, k>>]

\* b in segments of g bytes, the last one possibly shorter.
CutInto(b, g, n) == [j \in 1 .. n |-> SubSeq(b, (j - 1) * g + 1, Lesser(j * g, Len(b)))]
Cut(b, g) == CutInto(b, g, (Len(b) + g - 1) \div g)

NoRecv == [bytes |-> <<>>, seg |-> 0, off |-> 0, done |-> TRUE, session |-> NoSession, no |-> 1]

\* iov as packets, and load as the bytes the kernel gathers from it; nos is
\* history: the numbers of the datagrams they came in.
NoBatch == [to |-> Peer, withId |-> FALSE, seg |-> 0, iov |-> <<>>, load |-> <<>>, nos |-> <<>>]

Init ==
    /\ status = "starting"
    /\ wanted \in BOOLEAN
    /\ supported \in BOOLEAN
    /\ batch = FALSE
    /\ down \in BOOLEAN
    /\ arrived = <<>>
    /\ queue = <<>>
    /\ busy = FALSE
    /\ rcv = NoRecv
    /\ out = NoBatch
    /\ tx = <<>>

-----------------------------------------------------------------------------

(***************************************************************************)
(* set_batch, enable_gro and fatal.                                        *)
(***************************************************************************)

\* set_batch: the program does not start when -G is given to a kernel that
\* does not have it.
BugSetBatchTries ==
    /\ status = "starting"
    /\ batch' = wanted
    /\ status' = "running"
    /\ UNCHANGED <<wanted, supported, down, arrived, queue, busy, rcv, out, tx>>

SetBatch ==
    /\ status = "starting"
    /\ batch' = (wanted /\ supported)
    /\ status' = IF wanted /\ ~supported THEN "refused" ELSE "running"
    /\ UNCHANGED <<wanted, supported, down, arrived, queue, busy, rcv, out, tx>>

\* enable_gro fails on a new socket.
GroFails ==
    /\ status = "running" /\ ~busy
    /\ batch
    /\ status' = "exited"
    /\ UNCHANGED <<setup, arrived, queue, busy, rcv, out, tx>>

(***************************************************************************)
(* The kernel.  What comes during a callback could as well come after it.  *)
(***************************************************************************)

\* The length of the datagrams merged in q: all but the last have it.
Unit(q) == IF q.gso = 0 THEN Len(q.bytes) ELSE q.gso

\* Datagram d comes.
Comes(d) ==
    /\ status = "running" /\ ~busy
    /\ Len(arrived) < MaxDatagrams
    /\ arrived' = Append(arrived, d)
    /\ UNCHANGED <<status, setup, busy, rcv, out, tx>>

Arrive(d) ==
    LET n == Len(arrived) + 1
    IN  /\ Comes(d)
        /\ queue' = Append(queue, [bytes |-> [k \in 1 .. d.len |-> <<n, k>>], gso |-> 0, first |-> n])

\* It is merged with those before it: of the same sender (so of the same
\* session, unless they are the other program's), none of them shorter than
\* the first, and itself not longer.
ArriveMerged(d) ==
    LET n == Len(arrived) + 1
        q == queue[Len(queue)]
    IN  /\ Comes(d)
        /\ batch
        /\ queue # <<>>
        /\ down \/ d.session = arrived[n - 1].session
        /\ d.len > 0 /\ d.len <= Unit(q)
        /\ Len(q.bytes) % Unit(q) = 0
        /\ queue' = [queue EXCEPT ![Len(queue)] =
                        [bytes |-> q.bytes \o [k \in 1 .. d.len |-> <<n, k>>],
                         gso |-> Unit(q),
                         first |-> q.first]]

\* The datagrams one sendmsg of n packets makes, b all together: one of one;
\* with UDP_SEGMENT the kernel cuts several apart every g bytes, and a kernel
\* that does not know the option sends all as one.
OnWire(b, g, n) ==
    IF n = 0 THEN <<>> ELSE IF n = 1 \/ ~supported THEN <<b>> ELSE Cut(b, g)

(***************************************************************************)
(* The read callback.                                                      *)
(***************************************************************************)

\* ipm_udp_recv::read, and what the callback does before it cuts: on the
\* socket of visitors or of a mapped host it looks the session up, and
\* returns when there is none.
Read ==
    LET q == Head(queue)
        s == IF down THEN NoSession ELSE arrived[q.first].session
    IN  /\ status = "running" /\ ~busy
        /\ queue # <<>>
        /\ queue' = Tail(queue)
        /\ IF ~down /\ s = NoSession
           THEN UNCHANGED <<busy, rcv>>
           ELSE /\ busy' = TRUE
                /\ rcv' = [bytes |-> q.bytes,
                           seg |-> IF q.gso > 0 /\ q.gso < Len(q.bytes) THEN q.gso ELSE Len(q.bytes),
                           off |-> 0, done |-> FALSE, session |-> s, no |-> q.first]
        /\ UNCHANGED <<status, setup, arrived, out, tx>>

\* ipm_udp_recv::next: what it hands out, and itself afterwards.
DataLen == Lesser(Len(rcv.bytes) - rcv.off, rcv.seg)
Data == SubSeq(rcv.bytes, rcv.off + 1, rcv.off + DataLen)

Advanced ==
    [rcv EXCEPT !.off = @ + DataLen,
                !.done = rcv.off + DataLen >= Len(rcv.bytes),
                !.no = @ + 1]

\* The session of the datagram handed out.
DataSession ==
    IF ~down THEN rcv.session
    ELSE IF \A k \in 1 .. SessionLen : Data[k] = <<Data[1][1], k>>
         THEN arrived[Data[1][1]].session
         ELSE NoSession

\* Nothing is passed on of a datagram too short for a session number, or
\* whose number no session has.
Passed == (down => Len(Data) >= SessionLen) /\ DataSession # NoSession

\* The arguments of ipm_udp_batch::add, and the packet it makes of them.
Dest == IF down THEN DataSession ELSE Peer
Packet == IF down THEN SubSeq(Data, SessionLen + 1, Len(Data)) ELSE Header(DataSession) \o Data

\* can_append.
BugCanAppendAnyDest ==
    /\ Len(out.iov) < GsoMaxSegs
    /\ Len(Packet) <= out.seg
    /\ Len(out.load) % out.seg = 0
    /\ Len(out.load) + Len(Packet) <= GsoMaxBytes
BugCanAppendOneMore ==
    /\ Dest = out.to /\ out.withId = ~down
    /\ Len(out.iov) <= GsoMaxSegs
    /\ Len(Packet) <= out.seg
    /\ Len(out.load) % out.seg = 0
    /\ Len(out.load) + Len(Packet) <= GsoMaxBytes
CanAppend ==
    /\ Dest = out.to /\ out.withId = ~down
    /\ Len(out.iov) < GsoMaxSegs
    /\ Len(Packet) <= out.seg
    /\ Len(out.load) % out.seg = 0
    /\ Len(out.load) + Len(Packet) <= GsoMaxBytes

\* flush, as what it may append to tx.  The kernel takes a group, or drops
\* it for want of room (EAGAIN), as a whole, and nothing more is done; else
\* send_each tries its packets one by one.
Asked(w) == [j \in DOMAIN w |-> [no |-> out.nos[j], to |-> out.to, bytes |-> w[j]]]

BugFlushedNotEach == {Asked(OnWire(out.load, out.seg, Len(out.iov))), <<>>}
Flushed == {Asked(OnWire(out.load, out.seg, Len(out.iov))), Asked(out.iov)}

\* add, for a packet that starts a group.
Started ==
    [to |-> Dest, withId |-> ~down, seg |-> Len(Packet),
     iov |-> <<Packet>>, load |-> Packet, nos |-> <<rcv.no>>]

Appended ==
    [out EXCEPT !.iov = Append(@, Packet), !.load = @ \o Packet, !.nos = Append(@, rcv.no)]

\* An empty packet cannot be a segment; without -G every packet is alone.
Alone == ~batch \/ Packet = <<>>

MustFlush == Alone \/ (out.iov # <<>> /\ ~CanAppend)

\* One turn of the callback's loop.
Skip ==
    /\ ~Passed
    /\ UNCHANGED <<out, tx>>

BugAddAloneOvertakes ==
    /\ Passed /\ Alone
    /\ tx' = Append(tx, [no |-> rcv.no, to |-> Dest, bytes |-> Packet])
    /\ UNCHANGED out

AddAlone ==
    /\ Passed /\ Alone
    /\ \E f \in Flushed : tx' = tx \o f \o <<[no |-> rcv.no, to |-> Dest, bytes |-> Packet]>>
    /\ out' = NoBatch

AddAfterFlush ==
    /\ Passed /\ ~Alone
    /\ MustFlush
    /\ \E f \in Flushed : tx' = tx \o f
    /\ out' = Started

AddToGroup ==
    /\ Passed /\ ~Alone
    /\ ~MustFlush
    /\ out' = IF out.iov = <<>> THEN Started ELSE Appended
    /\ UNCHANGED tx

Turn ==
    /\ status = "running" /\ busy
    /\ ~rcv.done
    /\ Skip \/ AddAlone \/ AddAfterFlush \/ AddToGroup
    /\ rcv' = Advanced
    /\ UNCHANGED <<status, setup, arrived, queue, busy>>

\* The callback returns, and ~ipm_udp_batch flushes.
BugReturnForgets ==
    /\ status = "running" /\ busy
    /\ rcv.done
    /\ busy' = FALSE
    /\ out' = NoBatch
    /\ rcv' = NoRecv
    /\ UNCHANGED <<status, setup, arrived, queue, tx>>

Return ==
    /\ status = "running" /\ busy
    /\ rcv.done
    /\ busy' = FALSE
    /\ \E f \in Flushed : tx' = tx \o f
    /\ out' = NoBatch
    /\ rcv' = NoRecv
    /\ UNCHANGED <<status, setup, arrived, queue>>

\* A flush of several packets meets EIO: the network card cannot do it.
GsoFails ==
    /\ status = "running" /\ busy
    /\ Len(out.iov) > 1
    /\ IF rcv.done THEN TRUE ELSE Passed /\ MustFlush
    /\ status' = "exited"
    /\ UNCHANGED <<setup, arrived, queue, busy, rcv, out, tx>>

-----------------------------------------------------------------------------

Next ==
    \/ SetBatch
    \/ GroFails
    \/ \E d \in Incoming : Arrive(d) \/ ArriveMerged(d)
    \/ Read
    \/ Turn
    \/ Return
    \/ GsoFails

Spec == Init /\ [][Next]_vars

\* A socket that stays readable is read, and a callback runs to its end.
FairSpec == Spec /\ WF_vars(Read) /\ WF_vars(Turn) /\ WF_vars(Return)

-----------------------------------------------------------------------------

\* The types of the variables.
Byte == (Nat \union Session) \X Nat
TypeOK ==
    /\ status \in {"starting", "running", "refused", "exited"}
    /\ wanted \in BOOLEAN /\ supported \in BOOLEAN /\ batch \in BOOLEAN /\ down \in BOOLEAN
    /\ arrived \in Seq([len : Nat, session : Session \union {NoSession}])
    /\ queue \in Seq([bytes : Seq(Byte), gso : Nat, first : Nat \ {0}])
    /\ busy \in BOOLEAN
    /\ rcv \in [bytes : Seq(Byte), seg : Nat, off : Nat, done : BOOLEAN,
                session : Session \union {NoSession}, no : Nat \ {0}]
    /\ out \in [to : Session \union {Peer}, withId : BOOLEAN, seg : Nat,
                iov : Seq(Seq(Byte)), load : Seq(Byte), nos : Seq(Nat \ {0})]
    /\ tx \in Seq([no : Nat \ {0}, to : Session \union {Peer}, bytes : Seq(Byte)])

(***************************************************************************)
(* Correctness.                                                            *)
(***************************************************************************)

\* Datagram n has a session it goes to or comes from; to whom it goes, and
\* how.
Routed(n) ==
    /\ arrived[n].session # NoSession
    /\ down => arrived[n].len >= SessionLen
Goal(n) == IF down THEN arrived[n].session ELSE Peer
Result(n) ==
    IF down THEN SubSeq(Datagram(n), SessionLen + 1, arrived[n].len)
            ELSE Header(arrived[n].session) \o Datagram(n)

\* ipm_udp_io.h, "the format on the wire does not change at all": whatever
\* the kernel merged and the groups it is given, each datagram it makes of
\* them is byte for byte one that came, with its session number taken off or
\* put in front, and goes to its own destination.
SentAsCame ==
    \A i \in DOMAIN tx :
        /\ tx[i].to = Goal(tx[i].no)
        /\ tx[i].bytes = Result(tx[i].no)

\* How many of the datagrams were handed out by next().
Taken ==
    IF busy THEN rcv.no - 1
    ELSE IF queue # <<>> THEN Head(queue).first - 1 ELSE Len(arrived)

\* The datagrams that were tried, then those that are held.
Order == [i \in DOMAIN tx |-> tx[i].no] \o out.nos

\* Each datagram that goes to somebody is tried once and in its turn: none
\* is forgotten, sent twice, or overtaken by an empty one, by one with
\* another destination, or by one of a group that failed; and nothing is held
\* between two callbacks, when the buffer it is in is used again.
InOrderOnce ==
    /\ {Order[i] : i \in DOMAIN Order} = {n \in 1 .. Taken : Routed(n)}
    /\ \A i, j \in DOMAIN Order : i < j => Order[i] < Order[j]
    /\ ~busy => out.iov = <<>>

\* A group is one the kernel takes, and one that fits ids[] and iov[]: not
\* more than GsoMaxSegs packets and, when there are several, not more than
\* GsoMaxBytes bytes, none empty, all as long as the first but the last, which
\* may be shorter.
GroupFits ==
    /\ Len(out.iov) <= GsoMaxSegs
    /\ Len(out.iov) > 1 => Len(out.load) <= GsoMaxBytes
    /\ \A j \in DOMAIN out.iov :
          /\ Len(out.iov[j]) \in 1 .. out.seg
          /\ j < Len(out.iov) => Len(out.iov[j]) = out.seg

(***************************************************************************)
(* With -G and without it, the program passes datagrams on one by one.     *)
(***************************************************************************)

\* How many of the first n datagrams go to somebody, and which is the i-th.
Place(n) == Cardinality({m \in 1 .. n : Routed(m)})
RoutedNumber(i) == CHOOSE n \in 1 .. Len(arrived) : Routed(n) /\ Place(n) = i

Outcome(n) == [to |-> Goal(n), bytes |-> Result(n)]

MustGo == [i \in 1 .. Place(Len(arrived)) |-> Outcome(RoutedNumber(i))]
Attempted == [i \in DOMAIN tx |-> [to |-> tx[i].to, bytes |-> tx[i].bytes]]

F == INSTANCE UdpForwarding WITH come <- MustGo, tried <- Attempted, stopped <- status = "exited"

ImplementsForwarding == F!FairSpec
=============================================================================
