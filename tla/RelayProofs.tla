---------------------------- MODULE RelayProofs ----------------------------
(***************************************************************************)
(* Theorems about Relay, for every buffer size, every kernel buffer and    *)
(* every amount of data.                                                   *)
(***************************************************************************)
EXTENDS Relay, SequenceTheorems, TLAPS

USE DEF Sides, Other

-----------------------------------------------------------------------------

LEMMA LesserFacts ==
    ASSUME NEW a \in Int, NEW b \in Int
    PROVE  /\ Lesser(a, b) \in {a, b}
           /\ Lesser(a, b) <= a
           /\ Lesser(a, b) <= b
BY DEF Lesser

\* A slice of a sequence is a sequence of the same elements.
LEMMA SliceType ==
    ASSUME NEW S, NEW s \in Seq(S), NEW m \in Nat \ {0}, NEW n \in Nat, n <= Len(s)
    PROVE  /\ SubSeq(s, m, n) \in Seq(S)
           /\ Len(SubSeq(s, m, n)) = IF m <= n THEN n - m + 1 ELSE 0
<1>1. \A i \in m .. n : s[i] \in S
  BY ElementOfSeq
<1> QED BY <1>1, SubSeqProperties

\* Type correctness of the initial state.
LEMMA InitTypeOK == Init => TypeOK
BY ConstantsAssumption DEF Init, TypeOK, Kinds

\* Closing keeps the types.
LEMMA CloseTypeOK ==
    ASSUME TypeOK, NEW kind \in Kinds, NEW id \in Sides, Close(kind, id),
           sent' \in [Sides -> Nat], inq' \in [Sides -> Seq(Byte)],
           fin' \in [Sides -> BOOLEAN], rst' \in [Sides -> BOOLEAN],
           handed' \in [Sides -> Seq(Byte)], inflight' \in [Sides -> 0 .. SndBuf]
    PROVE  TypeOK'
BY DEF TypeOK, Close

\* What SendTo needs of the buffers b and the positions p it is given.
Buffers(b, p) ==
    /\ b \in [Sides -> Seq(Byte)]
    /\ p \in [Sides -> Nat]
    /\ \A i \in Sides : p[i] <= Len(b[i]) /\ (attached[i] => Len(b[i]) <= size[i])

\* Update keeps the types, whether or not event_add succeeds.
LEMMA UpdateTypeOK ==
    ASSUME TypeOK, NEW b, NEW p, Buffers(b, p), Update(b, p),
           sent' \in [Sides -> Nat], inq' \in [Sides -> Seq(Byte)],
           fin' \in [Sides -> BOOLEAN], rst' \in [Sides -> BOOLEAN],
           handed' \in [Sides -> Seq(Byte)], inflight' \in [Sides -> 0 .. SndBuf]
    PROVE  TypeOK'
<1>1. CASE SetEvents(b, p) /\ UNCHANGED status
  BY <1>1 DEF TypeOK, SetEvents, Buffers, WantsRead, WantsWrite
<1>2. CASE Close("setup", 0)
  BY <1>2, CloseTypeOK DEF Kinds
<1> QED BY <1>1, <1>2 DEF Update

\* SendTo keeps the types: it sends no more than is left in the buffer and
\* than the kernel has room for.
LEMMA SendToTypeOK ==
    ASSUME TypeOK, NEW id \in Sides, NEW b, NEW p, Buffers(b, p), SendTo(id, b, p),
           sent' \in [Sides -> Nat], inq' \in [Sides -> Seq(Byte)],
           fin' \in [Sides -> BOOLEAN], rst' \in [Sides -> BOOLEAN]
    PROVE  TypeOK'
<1> DEFINE o == Other(id)
           left == Len(b[o]) - p[o]
           n == Lesser(left, SndBuf - inflight[id])
<1>0. o \in Sides /\ b[o] \in Seq(Byte) /\ p[o] \in Nat /\ Len(b[o]) \in Nat /\ p[o] <= Len(b[o])
  BY LenProperties DEF Buffers
<1>1. /\ left \in Nat
      /\ n \in Nat
      /\ n <= left
      /\ inflight[id] + n \in 0 .. SndBuf
  <2>1. inflight[id] \in 0 .. SndBuf /\ SndBuf \in Nat
    BY ConstantsAssumption DEF TypeOK
  <2>2. left \in Nat
    BY <1>0
  <2> HIDE DEF left, o
  <2> QED BY <2>1, <2>2, SMTT(30) DEF Lesser
<1> HIDE DEF left, n, o
<1>2. CASE Close("error", id) /\ UNCHANGED <<handed, inflight>>
  BY <1>2, CloseTypeOK DEF Kinds, TypeOK
<1>3. CASE /\ handed' = [handed EXCEPT ![id] = @ \o SubSeq(b[o], p[o] + 1, p[o] + n)]
           /\ inflight' = [inflight EXCEPT ![id] = @ + n]
           /\ AfterSend(o, n, left, b, p)
  <2>1. SubSeq(b[o], p[o] + 1, p[o] + n) \in Seq(Byte)
    <3>1. p[o] + n <= Len(b[o])
      BY <1>0, <1>1, SMTT(30) DEF left
    <3>2. p[o] + 1 \in Nat \ {0} /\ p[o] + n \in Nat
      BY <1>0, <1>1, SMTT(30)
    <3> QED BY <1>0, <3>1, <3>2, SliceType
  <2>2. handed' \in [Sides -> Seq(Byte)] /\ inflight' \in [Sides -> 0 .. SndBuf]
    <3>1. handed[id] \o SubSeq(b[o], p[o] + 1, p[o] + n) \in Seq(Byte)
      BY <2>1, ConcatProperties DEF TypeOK
    <3> QED BY <1>1, <1>3, <3>1 DEF TypeOK
  <2>3. CASE n = left
    <3>1. Buffers([b EXCEPT ![o] = <<>>], [p EXCEPT ![o] = 0])
      <4>1. <<>> \in Seq(Byte) /\ Len(<<>>) = 0
        OBVIOUS
      <4>2. size \in [Sides -> Nat]
        BY DEF TypeOK
      <4> DEFINE bb == [b EXCEPT ![o] = <<>>]
                 pp == [p EXCEPT ![o] = 0]
      <4>3. bb \in [Sides -> Seq(Byte)] /\ pp \in [Sides -> Nat]
        BY <1>0, <4>1 DEF Buffers
      <4>4. bb[o] = <<>> /\ pp[o] = 0
        BY <1>0 DEF Buffers
      <4>5. \A i \in Sides : i # o => bb[i] = b[i] /\ pp[i] = p[i]
        BY <1>0 DEF Buffers
      <4> HIDE DEF bb, pp
      <4>6. \A i \in Sides : pp[i] <= Len(bb[i]) /\ (attached[i] => Len(bb[i]) <= size[i])
        <5> TAKE i \in Sides
        <5>1. CASE i = o
          BY <4>1, <4>2, <4>4, <5>1
        <5>2. CASE i # o
          BY <4>5, <5>2 DEF Buffers
        <5> QED BY <5>1, <5>2
      <4>7. Buffers(bb, pp)
        BY <4>3, <4>6 DEF Buffers
      <4> QED BY <4>7 DEF bb, pp
    <3> QED BY <1>3, <2>2, <2>3, <3>1, UpdateTypeOK DEF AfterSend
  <2>4. CASE n # left
    <3>1. Buffers(b, [p EXCEPT ![o] = @ + n])
      <4>1. p[o] + n \in Nat /\ p[o] + n <= Len(b[o])
        BY <1>0, <1>1, SMTT(30) DEF left
      <4> DEFINE pp == [p EXCEPT ![o] = @ + n]
      <4>2. pp \in [Sides -> Nat] /\ pp[o] = p[o] + n
        BY <1>0, <4>1 DEF Buffers
      <4>3. \A i \in Sides : i # o => pp[i] = p[i]
        BY <1>0 DEF Buffers
      <4> HIDE DEF pp
      <4>4. Buffers(b, pp)
        BY <1>0, <4>1, <4>2, <4>3 DEF Buffers
      <4> QED BY <4>4 DEF pp
    <3> QED BY <1>3, <2>2, <2>4, <3>1, UpdateTypeOK DEF AfterSend
  <2> QED BY <2>3, <2>4
<1> QED BY <1>2, <1>3 DEF SendTo, n, left, o

\* Type correctness of the recv in front of a SendTo.
LEMMA ReadBuffers ==
    ASSUME TypeOK, NEW id \in Sides, NEW n \in Nat, n <= size[id], n <= Len(inq[id])
    PROVE  Buffers([buf EXCEPT ![id] = SubSeq(inq[id], 1, n)], [pos EXCEPT ![id] = 0])
<1> DEFINE got == SubSeq(inq[id], 1, n)
           bb == [buf EXCEPT ![id] = got]
           pp == [pos EXCEPT ![id] = 0]
<1>1. inq[id] \in Seq(Byte) /\ size[id] \in Nat
  BY DEF TypeOK
<1>2. got \in Seq(Byte) /\ Len(got) = n
  BY <1>1, SliceType, 1 \in Nat \ {0}
<1> HIDE DEF got
<1>3. bb \in [Sides -> Seq(Byte)] /\ pp \in [Sides -> Nat] /\ bb[id] = got /\ pp[id] = 0
  BY <1>2 DEF TypeOK
<1>4. \A i \in Sides : i # id => bb[i] = buf[i] /\ pp[i] = pos[i]
  BY DEF TypeOK
<1> HIDE DEF bb, pp
<1>5. \A i \in Sides : pp[i] <= Len(bb[i]) /\ (attached[i] => Len(bb[i]) <= size[i])
  <2> TAKE i \in Sides
  <2>1. CASE i = id
    BY <1>2, <1>3, <2>1
  <2>2. CASE i # id
    BY <1>4, <2>2 DEF TypeOK
  <2> QED BY <2>1, <2>2
<1>6. Buffers(bb, pp)
  BY <1>3, <1>5 DEF Buffers
<1> QED BY <1>6 DEF bb, pp, got

\* Each step keeps the types.
LEMMA NextTypeOK == TypeOK /\ [Next]_vars => TypeOK'
<1> SUFFICES ASSUME TypeOK, [Next]_vars
             PROVE  TypeOK'
  OBVIOUS
<1>1. CASE SetupFails
  BY <1>1, CloseTypeOK DEF SetupFails, netVars, Kinds, TypeOK
<1>2. CASE Start
  <2>1. Buffers(buf, pos)
    BY DEF Buffers, TypeOK
  <2> QED BY <1>2, <2>1 DEF Start, SetEvents, WantsRead, WantsWrite, TypeOK, netVars, Buffers
<1>3. ASSUME NEW id \in Sides, NEW k \in 0 .. Len(inq[id]), Attach(id, k)
      PROVE  TypeOK'
  <2> DEFINE got == SubSeq(inq[id], 1, k)
             rest == SubSeq(inq[id], k + 1, Len(inq[id]))
  <2>0. inq[id] \in Seq(Byte) /\ Len(inq[id]) \in Nat /\ k \in Nat /\ k <= Len(inq[id])
    BY LenProperties, SMTT(30) DEF TypeOK
  <2>1. got \in Seq(Byte) /\ Len(got) = k
    BY <2>0, SliceType, 1 \in Nat \ {0}
  <2>2. rest \in Seq(Byte)
    <3>1. k + 1 \in Nat \ {0}
      BY <2>0
    <3> QED BY <2>0, <3>1, SliceType
  <2> HIDE DEF got, rest
  <2>3. Room(k) \in Nat /\ k <= Room(k)
    BY <2>0, ConstantsAssumption DEF Room, Greater
  <2>4. /\ attached' = [attached EXCEPT ![id] = TRUE]
        /\ size' = [size EXCEPT ![id] = Room(k)]
        /\ buf' = [buf EXCEPT ![id] = got]
        /\ pos' = [pos EXCEPT ![id] = 0]
        /\ inq' = [inq EXCEPT ![id] = rest]
        /\ UNCHANGED <<status, cause, reading, writing, sent, fin, rst, handed, inflight>>
    BY <1>3 DEF Attach, got, rest
  <2>5. \A i \in Sides : pos'[i] <= Len(buf'[i]) /\ (attached'[i] => Len(buf'[i]) <= size'[i])
    <3> TAKE i \in Sides
    <3>1. CASE i = id
      BY <2>0, <2>1, <2>3, <2>4, <3>1, SMTT(30) DEF TypeOK
    <3>2. CASE i # id
      BY <2>4, <3>2 DEF TypeOK
    <3> QED BY <3>1, <3>2
  <2> QED BY <2>1, <2>2, <2>3, <2>4, <2>5 DEF TypeOK
<1>4. ASSUME NEW id \in Sides, OnReadData(id)
      PROVE  TypeOK'
  <2> DEFINE n == Lesser(size[id], Len(inq[id]))
             b == [buf EXCEPT ![id] = SubSeq(inq[id], 1, n)]
             p == [pos EXCEPT ![id] = 0]
  <2>0. inq[id] \in Seq(Byte) /\ Len(inq[id]) \in Nat /\ size[id] \in Nat
    BY LenProperties DEF TypeOK
  <2>1. n \in Nat /\ n <= size[id] /\ n <= Len(inq[id])
    BY <2>0 DEF Lesser
  <2>2. /\ SendTo(Other(id), b, p)
        /\ inq' = [inq EXCEPT ![id] = SubSeq(@, n + 1, Len(@))]
        /\ UNCHANGED <<sent, fin, rst>>
    BY <1>4 DEF OnReadData
  <2> HIDE DEF n
  <2>3. Buffers(b, p)
    BY <2>1, ReadBuffers
  <2>4. SubSeq(inq[id], n + 1, Len(inq[id])) \in Seq(Byte)
    <3>1. n + 1 \in Nat \ {0}
      BY <2>1
    <3> QED BY <2>0, <3>1, SliceType
  <2>5. /\ inq' \in [Sides -> Seq(Byte)] /\ sent' \in [Sides -> Nat]
        /\ fin' \in [Sides -> BOOLEAN] /\ rst' \in [Sides -> BOOLEAN]
    BY <2>2, <2>4 DEF TypeOK
  <2> HIDE DEF b, p
  <2>6. Other(id) \in Sides
    OBVIOUS
  <2> QED BY <2>2, <2>3, <2>5, <2>6, SendToTypeOK
<1>5. ASSUME NEW id \in Sides, OnReadEof(id) \/ OnReadError(id)
      PROVE  TypeOK'
  BY <1>5, CloseTypeOK DEF OnReadEof, OnReadError, netVars, Kinds, TypeOK
<1>6. ASSUME NEW id \in Sides, OnWrite(id)
      PROVE  TypeOK'
  <2>1. Buffers(buf, pos)
    BY DEF Buffers, TypeOK
  <2> QED BY <1>6, <2>1, SendToTypeOK DEF OnWrite, TypeOK
<1>7. ASSUME NEW id \in Sides, Peer(id)
      PROVE  TypeOK'
  <2>1. CASE PeerSend(id)
    <3> DEFINE more == Append(inq[id], <<id, sent[id] + 1>>)
    <3>1. /\ inq \in [Sides -> Seq(Byte)] /\ sent \in [Sides -> Nat]
          /\ sent[id] \in Nat /\ inq[id] \in Seq(Byte)
      BY DEF TypeOK
    <3>2. <<id, sent[id] + 1>> \in Byte
      BY <3>1 DEF Byte
    <3>3. more \in Seq(Byte)
      BY <3>1, <3>2, AppendProperties
    <3>4. inq' = [inq EXCEPT ![id] = more] /\ sent' = [sent EXCEPT ![id] = @ + 1]
      BY <2>1 DEF PeerSend
    <3> HIDE DEF more
    <3>5. inq' \in [Sides -> Seq(Byte)]
      BY <3>1, <3>3, <3>4
    <3>6. sent' \in [Sides -> Nat]
      BY <3>1, <3>4
    <3> QED BY <2>1, <3>5, <3>6 DEF PeerSend, relayVars, TypeOK
  <2>2. CASE PeerFin(id) \/ PeerReset(id)
    BY <2>2 DEF PeerFin, PeerReset, relayVars, TypeOK
  <2>3. CASE PeerDrain(id)
    BY <2>3, ConstantsAssumption, SMTT(30) DEF PeerDrain, relayVars, TypeOK
  <2> QED BY <1>7, <2>1, <2>2, <2>3 DEF Peer
<1>8. CASE UNCHANGED vars
  BY <1>8 DEF vars, TypeOK
<1> QED BY <1>1, <1>2, <1>3, <1>4, <1>5, <1>6, <1>7, <1>8 DEF Next, OnRead

\* The types of the relay's state: in particular no buffer ever holds more
\* than its size, and no send position passes the data.
THEOREM TypeCorrect == Spec => []TypeOK
<1>1. Init => TypeOK
  BY InitTypeOK
<1>2. TypeOK /\ [Next]_vars => TypeOK'
  BY NextTypeOK
<1> QED BY <1>1, <1>2, PTL DEF Spec

-----------------------------------------------------------------------------

(***************************************************************************)
(* Sequences.                                                              *)
(***************************************************************************)

\* Where a part is attached makes no difference.
LEMMA Regroup ==
    \A h, x, y \in Seq(Byte) : (h \o x) \o y = h \o (x \o y)
<1> TAKE h, x, y \in Seq(Byte)
<1> QED BY ConcatAssociative

\* Moving the first n bytes of s[p+1 ..] to the end of h keeps the whole.
LEMMA Moved ==
    \A h, s, q \in Seq(Byte) : \A p, n \in Nat : p + n <= Len(s) =>
        ((h \o SubSeq(s, p + 1, p + n)) \o SubSeq(s, p + n + 1, Len(s))) \o q
            = (h \o SubSeq(s, p + 1, Len(s))) \o q
<1> SUFFICES ASSUME NEW h \in Seq(Byte), NEW s \in Seq(Byte), NEW q \in Seq(Byte),
                    NEW p \in Nat, NEW n \in Nat, p + n <= Len(s)
             PROVE  ((h \o SubSeq(s, p + 1, p + n)) \o SubSeq(s, p + n + 1, Len(s))) \o q
                      = (h \o SubSeq(s, p + 1, Len(s))) \o q
  OBVIOUS
<1> DEFINE x == SubSeq(s, p + 1, p + n)
           y == SubSeq(s, p + n + 1, Len(s))
           z == SubSeq(s, p + 1, Len(s))
<1>0. Len(s) \in Nat
  BY LenProperties
<1>1. /\ p + 1 \in 1 .. Len(s) + 1
      /\ p + n \in (p + 1) - 1 .. Len(s)
      /\ Len(s) \in p + n .. Len(s)
      /\ p + 1 \in Nat \ {0} /\ p + n + 1 \in Nat \ {0} /\ p + n \in Nat
  BY <1>0
<1>2. x \o y = z
  BY <1>1, ConcatAdjacentSubSeq
<1>3. x \in Seq(Byte) /\ y \in Seq(Byte) /\ z \in Seq(Byte)
  BY <1>0, <1>1, SliceType
<1> HIDE DEF x, y, z
<1>4. (h \o x) \o y = h \o (x \o y)
  BY <1>3, Regroup, ZenonT(30)
<1>5. (h \o x) \o y = h \o z
  BY <1>2, <1>4, Zenon
<1> QED BY <1>5, Zenon DEF x, y, z

\* A sequence is its first n elements and the rest.
LEMMA Split ==
    ASSUME NEW S, NEW q \in Seq(S), NEW n \in Nat, n <= Len(q)
    PROVE  SubSeq(q, 1, n) \o SubSeq(q, n + 1, Len(q)) = q
<1>0. Len(q) \in Nat
  BY LenProperties
<1>1. 1 \in 1 .. Len(q) + 1 /\ n \in 1 - 1 .. Len(q) /\ Len(q) \in n .. Len(q)
  BY <1>0
<1>2. SubSeq(q, 1, n) \o SubSeq(q, n + 1, Len(q)) = SubSeq(q, 1, Len(q))
  BY <1>1, ConcatAdjacentSubSeq
<1> QED BY <1>2, SubSeqFull

\* What a side has sent is a sequence of bytes.
LEMMA StreamType ==
    ASSUME NEW id \in Sides, NEW n \in Nat
    PROVE  /\ Stream(id, n) \in Seq(Byte)
           /\ Len(Stream(id, n)) = n
           /\ \A k \in 1 .. n : Stream(id, n)[k] = <<id, k>>
<1>1. Stream(id, n) \in [1 .. n -> Byte]
  BY DEF Stream, Byte
<1>2. Stream(id, n) \in Seq(Byte)
  BY <1>1, SeqDef
<1> QED BY <1>1, <1>2, LenProperties DEF Stream

\* The beginning of what was sent is what was sent first.
LEMMA PrefixOfStream ==
    ASSUME NEW id \in Sides, NEW n \in Nat, NEW h \in Seq(Byte), NEW r \in Seq(Byte),
           h \o r = Stream(id, n)
    PROVE  Len(h) <= n /\ h = Stream(id, Len(h))
<1>0. Len(h) \in Nat /\ Len(r) \in Nat
  BY LenProperties
<1>1. Len(h \o r) = Len(h) + Len(r) /\ \A k \in 1 .. Len(h) : (h \o r)[k] = h[k]
  BY <1>0, ConcatProperties
<1>2. Len(h) + Len(r) = n
  BY <1>1, StreamType
<1>3. Len(h) <= n
  BY <1>0, <1>2
<1>4. \A k \in 1 .. Len(h) : h[k] = <<id, k>>
  <2> TAKE k \in 1 .. Len(h)
  <2>1. (h \o r)[k] = h[k] /\ k \in 1 .. n
    BY <1>0, <1>1, <1>3
  <2> QED BY <2>1, StreamType, ZenonT(30)
<1>5. Len(Stream(id, Len(h))) = Len(h) /\ Stream(id, Len(h)) \in Seq(Byte)
  BY <1>0, StreamType
<1>6. \A k \in 1 .. Len(h) : Stream(id, Len(h))[k] = <<id, k>>
  BY <1>0, StreamType
<1> QED BY <1>3, <1>4, <1>5, <1>6, SeqEqual

-----------------------------------------------------------------------------

(***************************************************************************)
(* The inductive invariant.                                                *)
(***************************************************************************)

\* A buffer is empty or has something left to send.
Shape == status # "closed" => \A id \in Sides : buf[id] = <<>> \/ pos[id] < Len(buf[id])

\* Before start nothing was sent; a running relay has both sides attached;
\* only a closed one has a cause.
Phases ==
    /\ status = "attaching" => \A id \in Sides : pos[id] = 0
    /\ status = "running" => \A id \in Sides : attached[id]
    /\ cause.kind = "eof" => status = "closed"
    /\ status # "closed" => \A id \in Sides : attached[id] => size[id] >= BufferSize

\* A side that is not attached yet has no buffer.
Unattached == status = "attaching" => \A id \in Sides : ~attached[id] => buf[id] = <<>>

IInv ==
    /\ Shape
    /\ Unattached
    /\ Phases
    /\ NoStall
    /\ NothingLost
    /\ InOrder
    /\ EofDeliversEverything
    /\ ClosesOnlyAtFin

\* The flags agree with the buffers, as set_events leaves them.
FlagsAgree ==
    \A i \in Sides : /\ reading[i] <=> buf[i] = <<>>
                     /\ writing[i] <=> pos[Other(i)] < Len(buf[Other(i)])

\* What a SendTo(id, b, p) does: it hands over some n bytes of the other
\* side's buffer, then either closes, not at a FIN, or leaves the rest of
\* the buffer, and the flags in agreement.
SendToEffect(id, o, b, p, n) ==
    /\ handed'[id] = handed[id] \o SubSeq(b[o], p[o] + 1, p[o] + n)
    /\ handed'[o] = handed[o]
    /\ \/ status' = "closed" /\ cause'.kind \in {"error", "setup"}
       \/ /\ UNCHANGED <<status, cause, attached, size>>
          /\ FlagsAgree'
          /\ buf'[id] = b[id] /\ pos'[id] = p[id]
          /\ buf'[o] = <<>> \/ pos'[o] < Len(buf'[o])
          /\ SubSeq(buf'[o], pos'[o] + 1, Len(buf'[o])) = SubSeq(b[o], p[o] + n + 1, Len(b[o]))

\* Update closes, not at a FIN, or installs the buffers and their flags.
LEMMA UpdateDoes ==
    ASSUME TypeOK, NEW b, NEW p, Update(b, p)
    PROVE  \/ status' = "closed" /\ cause'.kind = "setup"
           \/ buf' = b /\ pos' = p /\ FlagsAgree' /\ UNCHANGED <<status, cause, attached, size>>
<1>1. CASE SetEvents(b, p) /\ UNCHANGED status
  <2>1. FlagsAgree'
    BY <1>1 DEF SetEvents, WantsRead, WantsWrite, FlagsAgree
  <2> QED BY <1>1, <2>1 DEF SetEvents
<1>2. CASE Close("setup", 0)
  BY <1>2 DEF Close
<1> QED BY <1>1, <1>2 DEF Update

LEMMA SendToDoes ==
    ASSUME TypeOK, NEW id \in Sides, NEW o \in Sides, o = Other(id), NEW b, NEW p,
           Buffers(b, p), SendTo(id, b, p)
    PROVE  \E n \in Nat : n <= Len(b[o]) - p[o] /\ SendToEffect(id, o, b, p, n)
<1> DEFINE left == Len(b[o]) - p[o]
           n == Lesser(left, SndBuf - inflight[id])
<1>0. b[o] \in Seq(Byte) /\ p[o] \in Nat /\ Len(b[o]) \in Nat /\ p[o] <= Len(b[o]) /\ left \in Nat
  BY LenProperties DEF Buffers
<1>1. n \in Nat /\ n <= left
  <2>1. SndBuf - inflight[id] \in Nat
    BY ConstantsAssumption, SMTT(30) DEF TypeOK
  <2> HIDE DEF left
  <2> QED BY <1>0, <2>1 DEF Lesser
<1>2. CASE Close("error", id) /\ UNCHANGED <<handed, inflight>>
  <2>1. SubSeq(b[o], p[o] + 1, p[o] + 0) = <<>>
    BY <1>0, SubSeqEmpty
  <2>2. handed[id] \in Seq(Byte)
    BY DEF TypeOK
  <2>3. handed[id] \o <<>> = handed[id]
    BY <2>2, ConcatEmptySeq
  <2>4. handed'[id] = handed[id] \o SubSeq(b[o], p[o] + 1, p[o] + 0) /\ handed'[o] = handed[o]
    BY <1>2, <2>1, <2>3, Zenon
  <2>5. SendToEffect(id, o, b, p, 0)
    BY <1>2, <2>4 DEF SendToEffect, Close
  <2> QED BY <1>0, <2>5
<1>3. CASE /\ handed' = [handed EXCEPT ![id] = @ \o SubSeq(b[o], p[o] + 1, p[o] + n)]
           /\ AfterSend(o, n, left, b, p)
  <2> DEFINE x == SubSeq(b[o], p[o] + 1, p[o] + n)
  <2>0. handed'[id] = handed[id] \o SubSeq(b[o], p[o] + 1, p[o] + n) /\ handed'[o] = handed[o]
    <3>1. handed' = [handed EXCEPT ![id] = @ \o x] /\ handed \in [Sides -> Seq(Byte)] /\ id # o
      BY <1>3 DEF TypeOK
    <3> HIDE DEF x, n, left
    <3>2. handed'[id] = handed[id] \o x /\ handed'[o] = handed[o]
      BY <3>1
    <3> QED BY <3>2 DEF x
  <2>1. CASE n = left
    <3> DEFINE bb == [b EXCEPT ![o] = <<>>]
               pp == [p EXCEPT ![o] = 0]
    <3>1. bb[o] = <<>> /\ pp[o] = 0 /\ bb[id] = b[id] /\ pp[id] = p[id]
      BY DEF Buffers
    <3>2. Update(bb, pp)
      BY <1>3, <2>1 DEF AfterSend
    <3> HIDE DEF bb, pp, n
    <3>3. CASE status' = "closed" /\ cause'.kind = "setup"
      BY <1>1, <2>0, <3>3 DEF SendToEffect
    <3>4. CASE buf' = bb /\ pos' = pp /\ FlagsAgree' /\ UNCHANGED <<status, cause, attached, size>>
      <4>1. SubSeq(b[o], p[o] + n + 1, Len(b[o])) = <<>>
        BY <1>0, <1>1, <2>1, SubSeqEmpty
      <4>2. SubSeq(buf'[o], pos'[o] + 1, Len(buf'[o])) = <<>>
        <5>1. buf'[o] = <<>> /\ pos'[o] = 0 /\ Len(<<>>) = 0
          BY <3>1, <3>4
        <5>2. SubSeq(<<>>, 0 + 1, 0) = <<>>
          BY SubSeqEmpty
        <5> QED BY <5>1, <5>2, Zenon
      <4>3. SendToEffect(id, o, b, p, n)
        BY <2>0, <3>1, <3>4, <4>1, <4>2, Zenon DEF SendToEffect
      <4> QED BY <1>1, <4>3
    <3> QED BY <3>2, <3>3, <3>4, UpdateDoes
  <2>2. CASE n # left
    <3> DEFINE pp == [p EXCEPT ![o] = @ + n]
    <3>1. pp[o] = p[o] + n /\ pp[id] = p[id] /\ pp[o] < Len(b[o])
      BY <1>0, <1>1, <2>2 DEF Buffers
    <3>2. Update(b, pp)
      BY <1>3, <2>2 DEF AfterSend
    <3> HIDE DEF pp, n
    <3>3. CASE status' = "closed" /\ cause'.kind = "setup"
      BY <1>1, <2>0, <3>3 DEF SendToEffect
    <3>4. CASE buf' = b /\ pos' = pp /\ FlagsAgree' /\ UNCHANGED <<status, cause, attached, size>>
      <4>1. SendToEffect(id, o, b, p, n)
        BY <2>0, <3>1, <3>4 DEF SendToEffect
      <4> QED BY <1>1, <4>1
    <3> QED BY <3>2, <3>3, <3>4, UpdateDoes
  <2> QED BY <2>1, <2>2
<1> QED BY <1>2, <1>3 DEF SendTo

\* The next byte extends what was sent.
LEMMA StreamGrows ==
    ASSUME NEW id \in Sides, NEW n \in Nat
    PROVE  Stream(id, n + 1) = Append(Stream(id, n), <<id, n + 1>>)
<1> DEFINE s == Stream(id, n)
           t == Stream(id, n + 1)
           u == Append(s, <<id, n + 1>>)
<1>1. /\ s \in Seq(Byte) /\ Len(s) = n /\ \A k \in 1 .. n : s[k] = <<id, k>>
      /\ t \in Seq(Byte) /\ Len(t) = n + 1 /\ \A k \in 1 .. n + 1 : t[k] = <<id, k>>
  <2>1. n + 1 \in Nat
    OBVIOUS
  <2> QED BY <2>1, StreamType
<1>2. <<id, n + 1>> \in Byte
  BY DEF Byte
<1> HIDE DEF s, t
<1>3. /\ u \in Seq(Byte) /\ Len(u) = n + 1 /\ u[n + 1] = <<id, n + 1>>
      /\ \A k \in 1 .. n : u[k] = s[k]
  BY <1>1, <1>2, AppendProperties
<1> HIDE DEF u
<1>4. \A k \in 1 .. n + 1 : t[k] = u[k]
  <2> TAKE k \in 1 .. n + 1
  <2>1. CASE k = n + 1
    BY <1>1, <1>3, <2>1
  <2>2. CASE k \in 1 .. n
    BY <1>1, <1>3, <2>2
  <2> QED BY <2>1, <2>2
<1>5. t = u
  BY <1>1, <1>3, <1>4, SeqEqual
<1> QED BY <1>5 DEF s, t, u

\* Appending to the last part appends to the whole.
LEMMA AppendToPart ==
    \A h, q \in Seq(Byte) : \A e \in Byte : h \o Append(q, e) = Append(h \o q, e)
<1> TAKE h, q \in Seq(Byte)
<1> TAKE e \in Byte
<1>1. /\ h \o q \in Seq(Byte) /\ <<e>> \in Seq(Byte)
  BY ConcatProperties
<1>2. Append(q, e) = q \o <<e>> /\ Append(h \o q, e) = (h \o q) \o <<e>>
  BY <1>1, AppendIsConcat
<1>3. (h \o q) \o <<e>> = h \o (q \o <<e>>)
  BY <1>1, Regroup, Zenon
<1> QED BY <1>2, <1>3, Zenon

\* What is handed over out of a whole is a beginning of it.
LEMMA InOrderFromWhole ==
    \A id \in Sides : \A n \in Nat : \A h, x, q \in Seq(Byte) :
        (h \o x) \o q = Stream(id, n) => Len(h) <= n /\ h = Stream(id, Len(h))
<1> TAKE id \in Sides
<1> TAKE n \in Nat
<1> TAKE h, x, q \in Seq(Byte)
<1>1. (h \o x) \o q = h \o (x \o q)
  BY Regroup, Zenon
<1>2. x \o q \in Seq(Byte)
  BY ConcatProperties
<1>3. ASSUME h \o (x \o q) = Stream(id, n)
      PROVE  Len(h) <= n /\ h = Stream(id, Len(h))
  BY <1>2, <1>3, PrefixOfStream, Zenon
<1> QED BY <1>1, <1>3, Zenon

\* What was handed over, what is left in a buffer and what is queued make
\* up what side o has sent.
WholeOf(o, h, b, p, q, n) ==
    (h \o SubSeq(b[o], p[o] + 1, Len(b[o]))) \o q = Stream(o, n)

\* A SendTo from buffers that together with what was handed over make up
\* what was sent keeps the invariant.
LEMMA SendToKeeps ==
    ASSUME TypeOK, TypeOK', IInv, status = "running",
           NEW id \in Sides, NEW o \in Sides, o = Other(id), NEW b, NEW p,
           Buffers(b, p), SendTo(id, b, p), UNCHANGED <<sent, fin>>,
           b[id] = buf[id], p[id] = pos[id], inq'[id] = inq[id],
           WholeOf(o, handed[id], b, p, inq'[o], sent[o])
    PROVE  IInv'
<1>1. PICK n \in Nat : n <= Len(b[o]) - p[o] /\ SendToEffect(id, o, b, p, n)
  BY SendToDoes
<1> DEFINE x == SubSeq(b[o], p[o] + 1, p[o] + n)
           y == SubSeq(b[o], p[o] + n + 1, Len(b[o]))
           z == SubSeq(b[o], p[o] + 1, Len(b[o]))
<1>2. /\ b[o] \in Seq(Byte) /\ p[o] \in Nat /\ Len(b[o]) \in Nat /\ p[o] <= Len(b[o])
      /\ p[o] + n <= Len(b[o])
  BY <1>1, LenProperties DEF Buffers
<1>3. /\ handed[id] \in Seq(Byte) /\ inq'[o] \in Seq(Byte) /\ sent[o] \in Nat
      /\ handed'[id] \in Seq(Byte)
  BY DEF TypeOK
<1>4. y \in Seq(Byte)
  <2>1. p[o] + n + 1 \in Nat \ {0}
    BY <1>2
  <2> QED BY <1>2, <2>1, SliceType
<1>5. handed'[id] = handed[id] \o x /\ handed'[o] = handed[o]
  BY <1>1, Zenon DEF SendToEffect, x
<1>6. (handed'[id] \o y) \o inq'[o] = Stream(o, sent[o])
  <2>0. \A k, m \in Nat : k + m <= Len(b[o]) =>
          ((handed[id] \o SubSeq(b[o], k + 1, k + m)) \o SubSeq(b[o], k + m + 1, Len(b[o]))) \o inq'[o]
              = (handed[id] \o SubSeq(b[o], k + 1, Len(b[o]))) \o inq'[o]
    <3>1. \A h, q \in Seq(Byte) : \A k, m \in Nat : k + m <= Len(b[o]) =>
              ((h \o SubSeq(b[o], k + 1, k + m)) \o SubSeq(b[o], k + m + 1, Len(b[o]))) \o q
                  = (h \o SubSeq(b[o], k + 1, Len(b[o]))) \o q
      BY <1>2, Moved, Zenon
    <3>2. \A q \in Seq(Byte) : \A k, m \in Nat : k + m <= Len(b[o]) =>
              ((handed[id] \o SubSeq(b[o], k + 1, k + m)) \o SubSeq(b[o], k + m + 1, Len(b[o]))) \o q
                  = (handed[id] \o SubSeq(b[o], k + 1, Len(b[o]))) \o q
      BY <1>3, <3>1, Zenon
    <3> QED BY <1>3, <3>2, Zenon
  <2>1. ((handed[id] \o x) \o y) \o inq'[o] = (handed[id] \o z) \o inq'[o]
    BY <1>2, <2>0, Zenon
  <2> QED BY <1>5, <2>1, Zenon DEF WholeOf, z
<1> HIDE DEF x, y, z
<1>7. InOrder'
  <2>1. Len(handed'[id]) <= sent[o] /\ handed'[id] = Stream(o, Len(handed'[id]))
    BY ONLY <1>3, <1>4, <1>6, InOrderFromWhole, o \in Sides, ZenonT(30)
  <2>2. Len(handed'[o]) <= sent[id] /\ handed'[o] = Stream(id, Len(handed'[o]))
    BY <1>5 DEF IInv, InOrder
  <2> QED BY <2>1, <2>2 DEF InOrder
<1>8. CASE status' = "closed" /\ cause'.kind \in {"error", "setup"}
  BY <1>7, <1>8 DEF IInv, Shape, Unattached, Phases, NoStall, NothingLost, EofDeliversEverything, ClosesOnlyAtFin
<1>9. CASE /\ UNCHANGED <<status, cause, attached, size>>
           /\ FlagsAgree'
           /\ buf'[id] = b[id] /\ pos'[id] = p[id]
           /\ buf'[o] = <<>> \/ pos'[o] < Len(buf'[o])
           /\ SubSeq(buf'[o], pos'[o] + 1, Len(buf'[o])) = SubSeq(b[o], p[o] + n + 1, Len(b[o]))
  <2>1. Shape'
    BY <1>9 DEF IInv, Shape
  <2>2. Phases' /\ Unattached'
    BY <1>9 DEF IInv, Phases, Unattached
  <2>3. NoStall'
    <3>1. \A i \in Sides : pos'[i] \in Nat /\ buf'[i] \in Seq(Byte) /\ pos'[i] <= Len(buf'[i])
      BY DEF TypeOK
    <3>2. \A i \in Sides : buf'[i] = <<>> \/ pos'[i] < Len(buf'[i])
      BY <1>9, <2>1 DEF Shape
    <3>3. \A i \in Sides : buf'[i] = <<>> => ~(pos'[i] < Len(buf'[i]))
      <4> TAKE i \in Sides
      <4>1. Len(<<>>) = 0
        OBVIOUS
      <4> QED BY <3>1, <4>1
    <3>4. \A i \in Sides : reading'[i] <=> buf'[i] = <<>>
      BY <1>9 DEF FlagsAgree
    <3>5. \A i \in Sides : writing'[Other(i)] <=> buf'[i] # <<>>
      BY <1>9, <3>2, <3>3 DEF FlagsAgree
    <3> QED BY <3>2, <3>4, <3>5 DEF NoStall
  <2>4. NothingLost'
    <3>1. (handed'[id] \o Pending(o)') \o inq'[o] = Stream(o, sent[o])
      BY <1>6, <1>9, Zenon DEF Pending, y
    <3>2. Pending(id)' = Pending(id)
      BY <1>9 DEF Pending
    <3>3. (handed[o] \o Pending(id)) \o inq[id] = Stream(id, sent[id])
      BY DEF IInv, NothingLost
    <3>4. (handed'[o] \o Pending(id)') \o inq'[id] = Stream(id, sent[id])
      BY <1>5, <3>2, <3>3, Zenon
    <3>5. \A i \in Sides : i = o \/ i = id
      OBVIOUS
    <3>6. id = Other(o)
      OBVIOUS
    <3> QED BY <3>1, <3>4, <3>5, <3>6, Zenon DEF NothingLost
  <2>5. EofDeliversEverything' /\ ClosesOnlyAtFin'
    BY <1>9 DEF IInv, Phases, EofDeliversEverything, ClosesOnlyAtFin
  <2> QED BY <1>7, <2>1, <2>2, <2>3, <2>4, <2>5 DEF IInv
<1> QED BY <1>1, <1>8, <1>9 DEF SendToEffect

\* Steps that change neither the buffers' content nor what is sent or
\* handed over keep NothingLost and InOrder; the peers' steps are such.
LEMMA PeerKeeps ==
    ASSUME TypeOK, TypeOK', IInv, NEW id \in Sides, Peer(id)
    PROVE  IInv'
<1>1. CASE PeerSend(id)
  <2> DEFINE new == <<id, sent[id] + 1>>
             more == Append(inq[id], new)
  <2>0. /\ UNCHANGED <<status, cause, attached, size, buf, pos, reading, writing, handed, fin>>
        /\ status # "closed"
        /\ inq' = [inq EXCEPT ![id] = more]
        /\ sent' = [sent EXCEPT ![id] = @ + 1]
    BY <1>1 DEF PeerSend, relayVars
  <2>1. /\ inq \in [Sides -> Seq(Byte)] /\ sent \in [Sides -> Nat]
        /\ handed \in [Sides -> Seq(Byte)] /\ buf \in [Sides -> Seq(Byte)]
        /\ pos \in [Sides -> Nat]
    BY DEF TypeOK
  <2> HIDE DEF more
  <2>2. inq'[id] = more /\ sent'[id] = sent[id] + 1
    BY <2>0, <2>1
  <2>3. \A i \in Sides : i # id => inq'[i] = inq[i] /\ sent'[i] = sent[i]
    BY <2>0, <2>1
  <2>4. InOrder'
    <3>1. \A i \in Sides : sent[i] \in Nat /\ sent'[i] \in Nat /\ sent[i] <= sent'[i]
      BY <2>0, <2>1
    <3>2. \A i \in Sides : Len(handed[Other(i)]) \in Nat
      BY <2>1, LenProperties
    <3>3. \A i \in Sides : Len(handed'[Other(i)]) <= sent'[i]
      BY <2>0, <3>1, <3>2 DEF IInv, InOrder
    <3> QED BY <2>0, <3>3 DEF IInv, InOrder
  <2>5. NothingLost'
    <3> DEFINE h == handed[Other(id)] \o Pending(id)
    <3>1. handed[Other(id)] \in Seq(Byte) /\ Pending(id) \in Seq(Byte)
      <4>1. pos[id] + 1 \in Nat \ {0} /\ Len(buf[id]) \in Nat /\ buf[id] \in Seq(Byte)
        BY <2>1, LenProperties
      <4> QED BY <2>1, <4>1, SliceType, SMTT(30) DEF Pending
    <3>2. h \in Seq(Byte) /\ inq[id] \in Seq(Byte) /\ new \in Byte /\ sent[id] \in Nat
      BY <2>1, <3>1, ConcatProperties, SMTT(30) DEF Byte
    <3>3. h \o inq[id] = Stream(id, sent[id])
      BY <2>0, Zenon DEF IInv, NothingLost
    <3>4. Stream(id, sent[id] + 1) = Append(Stream(id, sent[id]), new)
      BY <3>2, StreamGrows
    <3> HIDE DEF h
    <3>5. h \o more = Append(h \o inq[id], new)
      BY <3>2, AppendToPart, Zenon DEF more
    <3>6. h \o more = Stream(id, sent[id] + 1)
      BY <3>3, <3>4, <3>5, Zenon
    <3>7. (handed'[Other(id)] \o Pending(id)') \o inq'[id] = Stream(id, sent'[id])
      BY <2>0, <2>2, <3>6, Zenon DEF h, Pending
    <3>8. \A i \in Sides : i # id =>
              (handed'[Other(i)] \o Pending(i)') \o inq'[i] = Stream(i, sent'[i])
      BY <2>0, <2>3, Zenon DEF IInv, NothingLost, Pending
    <3> QED BY <3>7, <3>8, Zenon DEF NothingLost
  <2> QED BY <2>0, <2>4, <2>5
          DEF IInv, Shape, Unattached, Phases, NoStall, EofDeliversEverything, ClosesOnlyAtFin
<1>2. CASE PeerFin(id) \/ PeerReset(id) \/ PeerDrain(id)
  <2>1. /\ UNCHANGED <<status, cause, attached, size, buf, pos, reading, writing, handed, sent, inq>>
        /\ \A i \in Sides : fin[i] => fin'[i]
    BY <1>2 DEF PeerFin, PeerReset, PeerDrain, relayVars, TypeOK
  <2>2. NothingLost' /\ InOrder'
    BY <2>1, Zenon DEF IInv, NothingLost, InOrder, Pending
  <2>3. Shape' /\ Unattached' /\ Phases' /\ NoStall' /\ EofDeliversEverything'
    BY <2>1 DEF IInv, Shape, Unattached, Phases, NoStall, EofDeliversEverything
  <2>4. ClosesOnlyAtFin'
    BY <2>1 DEF IInv, ClosesOnlyAtFin, TypeOK
  <2> QED BY <2>2, <2>3, <2>4 DEF IInv
<1> QED BY <1>1, <1>2 DEF Peer

\* Closing without handing anything over, at a FIN only after all was
\* handed over, keeps the invariant.
LEMMA CloseKeeps ==
    ASSUME TypeOK, IInv, NEW kind, NEW id \in Sides, Close(kind, id), UNCHANGED netVars,
           kind = "eof" => fin[id] /\ handed[Other(id)] = Stream(id, sent[id])
    PROVE  IInv'
<1>1. /\ status' = "closed" /\ cause' = [kind |-> kind, side |-> id]
      /\ UNCHANGED <<sent, inq, fin, rst, handed, inflight>>
  BY DEF Close, netVars
<1>2. InOrder'
  BY <1>1, Zenon DEF IInv, InOrder
<1>3. EofDeliversEverything' /\ ClosesOnlyAtFin'
  BY <1>1 DEF EofDeliversEverything, ClosesOnlyAtFin
<1> QED BY <1>1, <1>2, <1>3 DEF IInv, Shape, Unattached, Phases, NoStall, NothingLost

\* Attaching moves bytes that were read before from the queue to the buffer.
LEMMA AttachKeeps ==
    ASSUME TypeOK, TypeOK', IInv, NEW id \in Sides, NEW k \in 0 .. Len(inq[id]), Attach(id, k)
    PROVE  IInv'
<1>0. inq[id] \in Seq(Byte) /\ Len(inq[id]) \in Nat /\ k \in Nat /\ k <= Len(inq[id])
  <2>1. inq[id] \in Seq(Byte)
    BY DEF TypeOK
  <2>2. Len(inq[id]) \in Nat
    BY <2>1, LenProperties
  <2> QED BY <2>1, <2>2
<1> DEFINE got == SubSeq(inq[id], 1, k)
           rest == SubSeq(inq[id], k + 1, Len(inq[id]))
<1>1. got \in Seq(Byte) /\ Len(got) = k
  BY <1>0, SliceType, 1 \in Nat \ {0}
<1>2. got \o rest = inq[id]
  BY <1>0, Split
<1> HIDE DEF got, rest
<1>3. /\ status = "attaching" /\ ~attached[id]
      /\ UNCHANGED <<status, cause, sent, fin, handed>>
      /\ attached' = [attached EXCEPT ![id] = TRUE]
      /\ size' = [size EXCEPT ![id] = Room(k)]
      /\ buf' = [buf EXCEPT ![id] = got]
      /\ pos' = [pos EXCEPT ![id] = 0]
      /\ inq' = [inq EXCEPT ![id] = rest]
  BY DEF Attach, got, rest
<1>4. /\ buf'[id] = got /\ pos'[id] = 0 /\ inq'[id] = rest /\ size'[id] = Room(k)
      /\ \A i \in Sides : i # id => /\ buf'[i] = buf[i] /\ pos'[i] = pos[i] /\ inq'[i] = inq[i]
                                    /\ size'[i] = size[i] /\ attached'[i] = attached[i]
  BY <1>3 DEF TypeOK
<1>5. Shape'
  <2>1. got = <<>> \/ 0 < Len(got)
    BY <1>1, EmptySeq
  <2>2. \A i \in Sides : buf'[i] = <<>> \/ pos'[i] < Len(buf'[i])
    BY <1>3, <1>4, <2>1 DEF IInv, Shape
  <2> QED BY <2>2 DEF Shape
<1>6. Phases'
  <2>1. Room(k) >= BufferSize
    BY <1>0, ConstantsAssumption DEF Room, Greater
  <2>2. \A i \in Sides : attached'[i] => size'[i] >= BufferSize
    BY <1>3, <1>4, <2>1 DEF IInv, Phases
  <2> QED BY <1>3, <1>4, <2>2 DEF IInv, Phases
<1>10. Unattached'
  BY <1>3, <1>4 DEF IInv, Unattached, TypeOK
<1>7. NothingLost'
  <2> DEFINE h == handed[Other(id)]
  <2>1. h \in Seq(Byte) /\ rest \in Seq(Byte)
    <3>1. k + 1 \in Nat \ {0}
      BY <1>0
    <3>2. rest \in Seq(Byte)
      BY <1>0, <3>1, SliceType DEF rest
    <3>3. Other(id) \in Sides
      OBVIOUS
    <3>4. handed[Other(id)] \in Seq(Byte)
      BY <3>3 DEF TypeOK
    <3> QED BY <3>2, <3>4
  <2>2. Pending(id) = <<>>
    <3>1. buf[id] = <<>> /\ pos[id] = 0
      BY <1>3 DEF IInv, Phases, Unattached
    <3>2. SubSeq(<<>>, 0 + 1, 0) = <<>> /\ Len(<<>>) = 0
      BY SubSeqEmpty
    <3> QED BY <3>1, <3>2, Zenon DEF Pending
  <2>3. Pending(id)' = got
    <3>1. SubSeq(got, 0 + 1, Len(got)) = got
      BY <1>1, SubSeqFull
    <3> QED BY <1>4, <3>1, Zenon DEF Pending
  <2>4. (h \o Pending(id)) \o inq[id] = Stream(id, sent[id])
    BY <1>3 DEF IInv, NothingLost
  <2> HIDE DEF h
  <2>5. h \o <<>> = h
    BY <2>1, ConcatEmptySeq
  <2>6. h \o inq[id] = Stream(id, sent[id])
    BY <2>2, <2>4, <2>5, Zenon
  <2>7. (h \o got) \o rest = h \o (got \o rest)
    BY <1>1, <2>1, Regroup, Zenon
  <2>8. (handed'[Other(id)] \o Pending(id)') \o inq'[id] = Stream(id, sent'[id])
    BY <1>2, <1>3, <1>4, <2>3, <2>6, <2>7, Zenon DEF h
  <2>9. \A i \in Sides : i # id =>
            (handed'[Other(i)] \o Pending(i)') \o inq'[i] = Stream(i, sent'[i])
    <3> TAKE i \in Sides
    <3>1. (handed[Other(i)] \o Pending(i)) \o inq[i] = Stream(i, sent[i])
      BY <1>3 DEF IInv, NothingLost
    <3> QED BY <1>3, <1>4, <3>1, Zenon DEF Pending
  <2> QED BY <2>8, <2>9, Zenon DEF NothingLost
<1>8. InOrder'
  BY <1>3, Zenon DEF IInv, InOrder
<1>9. NoStall' /\ EofDeliversEverything' /\ ClosesOnlyAtFin'
  BY <1>3 DEF IInv, NoStall, EofDeliversEverything, ClosesOnlyAtFin
<1> QED BY <1>5, <1>6, <1>10, <1>7, <1>8, <1>9 DEF IInv

\* Start changes only the flags, which then agree with the buffers.
LEMMA StartKeeps ==
    ASSUME TypeOK, TypeOK', IInv, Start
    PROVE  IInv'
<1>1. /\ status = "attaching" /\ status' = "running" /\ attached[0] /\ attached[1]
      /\ UNCHANGED <<cause, attached, size, buf, pos, sent, inq, fin, rst, handed, inflight>>
  BY DEF Start, SetEvents, netVars
<1>2. \A i \in Sides : /\ reading'[i] <=> buf[i] = <<>>
                       /\ writing'[Other(i)] <=> pos[i] < Len(buf[i])
  <2>1. /\ reading' = [i \in Sides |-> buf[i] = <<>>]
        /\ writing' = [i \in Sides |-> pos[Other(i)] < Len(buf[Other(i)])]
    BY DEF Start, SetEvents, WantsRead, WantsWrite
  <2> TAKE i \in Sides
  <2>2. Other(i) \in Sides /\ Other(Other(i)) = i
    OBVIOUS
  <2> HIDE DEF Other
  <2> QED BY <2>1, <2>2
<1>3. \A i \in Sides : buf[i] = <<>> => ~(pos[i] < Len(buf[i]))
  <2> TAKE i \in Sides
  <2>1. Len(<<>>) = 0 /\ pos[i] \in Nat
    BY DEF TypeOK
  <2> QED BY <2>1
<1>4. \A i \in Sides : buf[i] = <<>> \/ pos[i] < Len(buf[i])
  BY <1>1 DEF IInv, Shape
<1>5. NoStall'
  BY <1>1, <1>2, <1>3, <1>4 DEF NoStall
<1>6. NothingLost' /\ InOrder'
  BY <1>1, Zenon DEF IInv, NothingLost, InOrder, Pending
<1>7. Shape' /\ Unattached' /\ Phases' /\ EofDeliversEverything' /\ ClosesOnlyAtFin'
  BY <1>1, <1>4 DEF IInv, Shape, Unattached, Phases, EofDeliversEverything, ClosesOnlyAtFin
<1> QED BY <1>5, <1>6, <1>7 DEF IInv

\* A read hands what it takes from the queue to SendTo.
LEMMA ReadKeeps ==
    ASSUME TypeOK, TypeOK', IInv, NEW r \in Sides, OnReadData(r)
    PROVE  IInv'
<1>0. inq[r] \in Seq(Byte) /\ Len(inq[r]) \in Nat /\ size[r] \in Nat
  <2>1. inq[r] \in Seq(Byte) /\ size[r] \in Nat
    BY DEF TypeOK
  <2> QED BY <2>1, LenProperties
<1> DEFINE id == Other(r)
           n == Lesser(size[r], Len(inq[r]))
           got == SubSeq(inq[r], 1, n)
           rest == SubSeq(inq[r], n + 1, Len(inq[r]))
           b == [buf EXCEPT ![r] = got]
           p == [pos EXCEPT ![r] = 0]
<1>1. n \in Nat /\ n <= size[r] /\ n <= Len(inq[r])
  BY <1>0, LesserFacts
<1>2. /\ status = "running" /\ reading[r]
      /\ inq' = [inq EXCEPT ![r] = rest]
      /\ SendTo(id, b, p)
      /\ UNCHANGED <<sent, fin, rst>>
  BY DEF OnReadData
<1> HIDE DEF n
<1>3. Buffers(b, p)
  BY <1>1, ReadBuffers
<1>4. got \in Seq(Byte) /\ rest \in Seq(Byte) /\ got \o rest = inq[r]
  <2>1. n + 1 \in Nat \ {0} /\ 1 \in Nat \ {0}
    BY <1>1
  <2>2. got \in Seq(Byte) /\ rest \in Seq(Byte)
    BY <1>0, <1>1, <2>1, SliceType
  <2> QED BY <1>0, <1>1, <2>2, Split
<1> HIDE DEF got, rest
<1>5. /\ b[r] = got /\ p[r] = 0 /\ inq'[r] = rest
      /\ b[id] = buf[id] /\ p[id] = pos[id] /\ inq'[id] = inq[id]
      /\ id \in Sides /\ r = Other(id)
  BY <1>2 DEF TypeOK
<1>6. handed[id] \in Seq(Byte)
  BY <1>5 DEF TypeOK
<1>7. WholeOf(r, handed[id], b, p, inq'[r], sent[r])
  <2>1. Pending(r) = <<>>
    <3>1. buf[r] = <<>>
      BY <1>2 DEF IInv, NoStall
    <3>2. pos[r] = 0
      <4>1. pos[r] \in Nat /\ pos[r] <= Len(buf[r]) /\ Len(<<>>) = 0
        BY DEF TypeOK
      <4> QED BY <3>1, <4>1
    <3>3. SubSeq(<<>>, 0 + 1, 0) = <<>> /\ Len(<<>>) = 0
      BY SubSeqEmpty
    <3> QED BY <3>1, <3>2, <3>3, Zenon DEF Pending
  <2>2. (handed[id] \o Pending(r)) \o inq[r] = Stream(r, sent[r])
    BY <1>2 DEF IInv, NothingLost
  <2> HIDE DEF id, b, p
  <2>3. handed[id] \o <<>> = handed[id]
    BY <1>6, ConcatEmptySeq
  <2>4. handed[id] \o inq[r] = Stream(r, sent[r])
    BY <2>1, <2>2, <2>3, Zenon
  <2>5. (handed[id] \o got) \o rest = handed[id] \o (got \o rest)
    BY <1>4, <1>6, Regroup, Zenon
  <2>6. SubSeq(b[r], p[r] + 1, Len(b[r])) = got
    <3>1. SubSeq(got, 0 + 1, Len(got)) = got
      BY <1>4, SubSeqFull
    <3> QED BY <1>5, <3>1, Zenon
  <2> QED BY <1>4, <1>5, <2>4, <2>5, <2>6, Zenon DEF WholeOf
<1> HIDE DEF id, b, p
<1> QED BY <1>2, <1>3, <1>5, <1>7, SendToKeeps

LEMMA WriteKeeps ==
    ASSUME TypeOK, TypeOK', IInv, NEW id \in Sides, OnWrite(id)
    PROVE  IInv'
<1>1. Buffers(buf, pos)
  BY DEF Buffers, TypeOK
<1>2. status = "running" /\ SendTo(id, buf, pos) /\ UNCHANGED <<sent, inq, fin, rst>>
  BY DEF OnWrite
<1>3. Other(id) \in Sides /\ id = Other(Other(id))
  OBVIOUS
<1>4. (handed[id] \o Pending(Other(id))) \o inq[Other(id)] = Stream(Other(id), sent[Other(id)])
  BY <1>2, <1>3, Zenon DEF IInv, NothingLost
<1>5. WholeOf(Other(id), handed[id], buf, pos, inq'[Other(id)], sent[Other(id)])
  BY <1>2, <1>4, Zenon DEF WholeOf, Pending
<1> QED BY <1>1, <1>2, <1>3, <1>5, SendToKeeps

\* A FIN is read from an empty queue into an empty buffer, so everything
\* that side sent was handed over.  The buffer must have room for a byte.
LEMMA EofKeeps ==
    ASSUME BufferSize > 0, TypeOK, IInv, NEW id \in Sides, OnReadEof(id)
    PROVE  IInv'
<1>0. /\ status = "running" /\ reading[id]
      /\ inq[id] # <<>> \/ fin[id] \/ rst[id]
      /\ rst[id] => fin[id]
      /\ Lesser(size[id], Len(inq[id])) = 0
      /\ Close("eof", id) /\ UNCHANGED netVars
  BY DEF OnReadEof, Readable
<1>1. size[id] \in Nat /\ size[id] > 0
  BY <1>0, ConstantsAssumption, SMTT(30) DEF IInv, Phases, TypeOK
<1>2. inq[id] \in Seq(Byte) /\ Len(inq[id]) \in Nat
  BY LenProperties DEF TypeOK
<1>3. Len(inq[id]) = 0
  BY <1>0, <1>1, <1>2 DEF Lesser
<1>4. inq[id] = <<>>
  BY <1>2, <1>3, EmptySeq
<1>5. fin[id]
  BY <1>0, <1>4
<1>6. handed[Other(id)] = Stream(id, sent[id])
  <2>1. buf[id] = <<>>
    BY <1>0 DEF IInv, NoStall
  <2>2. pos[id] = 0
    <3>1. pos[id] \in Nat /\ pos[id] <= Len(buf[id]) /\ Len(<<>>) = 0
      BY DEF TypeOK
    <3> QED BY <2>1, <3>1
  <2>3. SubSeq(<<>>, 0 + 1, 0) = <<>> /\ Len(<<>>) = 0
    BY SubSeqEmpty
  <2>4. Pending(id) = <<>>
    BY <2>1, <2>2, <2>3, Zenon DEF Pending
  <2>5. handed[Other(id)] \in Seq(Byte)
    <3>1. Other(id) \in Sides
      OBVIOUS
    <3> QED BY <3>1 DEF TypeOK
  <2>6. handed[Other(id)] \o <<>> = handed[Other(id)]
    BY <2>5, ConcatEmptySeq
  <2>7. (handed[Other(id)] \o Pending(id)) \o inq[id] = Stream(id, sent[id])
    BY <1>0 DEF IInv, NothingLost
  <2> QED BY <1>4, <2>4, <2>6, <2>7, Zenon
<1> QED BY <1>0, <1>5, <1>6, CloseKeeps

\* The invariant holds at first and is kept by every step.
LEMMA InitIInv == Init => IInv
<1> SUFFICES ASSUME Init PROVE IInv
  OBVIOUS
<1>1. Shape /\ Unattached /\ Phases /\ NoStall
  BY DEF Init, Shape, Unattached, Phases, NoStall
<1>2. \A id \in Sides : Stream(id, 0) = <<>>
  <2> TAKE id \in Sides
  <2>1. Stream(id, 0) \in Seq(Byte) /\ Len(Stream(id, 0)) = 0
    BY StreamType
  <2> QED BY <2>1, EmptySeq
<1>3. \A id \in Sides : /\ handed[Other(id)] = <<>> /\ buf[id] = <<>> /\ pos[id] = 0
                        /\ inq[id] = <<>> /\ sent[id] = 0
  BY DEF Init
<1>4. SubSeq(<<>>, 0 + 1, 0) = <<>> /\ Len(<<>>) = 0 /\ (<<>> \o <<>>) \o <<>> = <<>>
  BY SubSeqEmpty
<1>5. \A id \in Sides : Pending(id) = <<>>
  BY <1>3, <1>4, Zenon DEF Pending
<1>6. NothingLost
  BY <1>2, <1>3, <1>4, <1>5, Zenon DEF NothingLost
<1>7. InOrder
  <2>1. 0 <= 0
    OBVIOUS
  <2> QED BY <1>2, <1>3, <1>4, <2>1, Zenon DEF InOrder
<1>8. EofDeliversEverything /\ ClosesOnlyAtFin
  BY DEF Init, EofDeliversEverything, ClosesOnlyAtFin
<1> QED BY <1>1, <1>6, <1>7, <1>8 DEF IInv

LEMMA NextIInv == BufferSize > 0 /\ TypeOK /\ TypeOK' /\ IInv /\ [Next]_vars => IInv'
<1> SUFFICES ASSUME BufferSize > 0, TypeOK, TypeOK', IInv, [Next]_vars
             PROVE  IInv'
  OBVIOUS
<1>1. CASE SetupFails
  <2>1. 0 \in Sides /\ "setup" # "eof"
    OBVIOUS
  <2> QED BY <1>1, <2>1, CloseKeeps DEF SetupFails
<1>2. CASE Start
  BY <1>2, StartKeeps
<1>3. ASSUME NEW id \in Sides, NEW k \in 0 .. Len(inq[id]), Attach(id, k)
      PROVE  IInv'
  BY <1>3, AttachKeeps
<1>4. ASSUME NEW id \in Sides, OnRead(id)
      PROVE  IInv'
  <2>1. CASE OnReadData(id)
    BY <2>1, ReadKeeps
  <2>2. CASE OnReadEof(id)
    BY <2>2, EofKeeps
  <2>3. CASE OnReadError(id)
    <3>1. "error" # "eof"
      OBVIOUS
    <3> QED BY <2>3, <3>1, CloseKeeps DEF OnReadError
  <2> QED BY <1>4, <2>1, <2>2, <2>3 DEF OnRead
<1>5. ASSUME NEW id \in Sides, OnWrite(id)
      PROVE  IInv'
  BY <1>5, WriteKeeps
<1>6. ASSUME NEW id \in Sides, Peer(id)
      PROVE  IInv'
  BY <1>6, PeerKeeps
<1>7. CASE UNCHANGED vars
  <2>1. Shape' /\ Unattached' /\ Phases' /\ NoStall' /\ EofDeliversEverything' /\ ClosesOnlyAtFin'
    BY <1>7 DEF vars, IInv, Shape, Unattached, Phases, NoStall, EofDeliversEverything, ClosesOnlyAtFin
  <2>2. NothingLost' /\ InOrder'
    BY <1>7, Zenon DEF vars, IInv, NothingLost, InOrder, Pending
  <2> QED BY <2>1, <2>2 DEF IInv
<1> QED BY <1>1, <1>2, <1>3, <1>4, <1>5, <1>6, <1>7 DEF Next

\* The inductive invariant holds throughout, when a buffer has room for a
\* byte.
LEMMA Invariance ==
    ASSUME BufferSize > 0
    PROVE  Spec => [](TypeOK /\ IInv)
<1>1. Init => TypeOK /\ IInv
  BY InitTypeOK, InitIInv
<1>2. (TypeOK /\ IInv) /\ [Next]_vars => (TypeOK /\ IInv)'
  BY NextTypeOK, NextIInv
<1> QED BY <1>1, <1>2, PTL DEF Spec

\* The relay loses, repeats, reorders and misdirects no byte, for every
\* size of its buffers and of the kernel's, and any amount of data.
THEOREM ConservesBytes ==
    ASSUME BufferSize > 0
    PROVE  Spec => []NothingLost
<1>1. IInv => NothingLost
  BY DEF IInv
<1> QED BY <1>1, Invariance, PTL

\* A running relay always has the events that advance it, and reads a side
\* only into an empty buffer.
THEOREM NeverStalls ==
    ASSUME BufferSize > 0
    PROVE  Spec => []NoStall
<1>1. IInv => NoStall
  BY DEF IInv
<1> QED BY <1>1, Invariance, PTL

\* A tunnel that closes at a FIN has handed over all that side sent, and
\* the FIN is a real one.
THEOREM EofIsTheEnd ==
    ASSUME BufferSize > 0
    PROVE  Spec => [](EofDeliversEverything /\ ClosesOnlyAtFin)
<1>1. IInv => EofDeliversEverything /\ ClosesOnlyAtFin
  BY DEF IInv
<1> QED BY <1>1, Invariance, PTL

-----------------------------------------------------------------------------

(***************************************************************************)
(* The relay implements a pair of pipes.                                   *)
(***************************************************************************)

\* What the peers have said, as the pipes have it.
Said == [id \in Sides |-> Stream(id, sent[id])]

\* The phase and the reason of the pipes.
LEMMA Abstracted ==
    ASSUME TypeOK
    PROVE  /\ AbsPhase = "setup" <=> status = "attaching"
           /\ AbsPhase = "up" <=> status = "running"
           /\ AbsPhase = "down" <=> status = "closed"
           /\ cause.kind = "eof" => AbsWhy = "end"
           /\ cause.kind = "error" => AbsWhy = "break"
           /\ cause.kind = "setup" => AbsWhy = "resources"
BY DEF TypeOK, AbsPhase, AbsWhy

LEMMA AbstractedNext ==
    ASSUME TypeOK'
    PROVE  /\ AbsPhase' = "up" <=> status' = "running"
           /\ AbsPhase' = "down" <=> status' = "closed"
           /\ cause'.kind = "eof" => AbsWhy' = "end"
           /\ cause'.kind = "error" => AbsWhy' = "break"
           /\ cause'.kind = "setup" => AbsWhy' = "resources"
BY DEF TypeOK, AbsPhase, AbsWhy

\* What is unchanged in the relay is unchanged in the pipes.
LEMMA SameState ==
    /\ UNCHANGED status => UNCHANGED AbsPhase
    /\ UNCHANGED cause => UNCHANGED AbsWhy
    /\ UNCHANGED sent => UNCHANGED Said
<1>1. UNCHANGED status => UNCHANGED AbsPhase
  BY DEF AbsPhase
<1>2. UNCHANGED cause => UNCHANGED AbsWhy
  BY DEF AbsWhy
<1>3. UNCHANGED sent => UNCHANGED Said
  BY Zenon DEF Said
<1> QED BY <1>1, <1>2, <1>3

\* Closing for a reason takes the pipes down for it.
LEMMA ClosesPipes ==
    ASSUME TypeOK, TypeOK', status # "closed", NEW kind \in Kinds, NEW id \in Sides,
           Close(kind, id), UNCHANGED <<sent, handed, fin, rst>>
    PROVE  /\ kind = "setup" => P!Down("resources")
           /\ kind = "error" => P!Down("break")
           /\ kind = "eof" => P!Down("end")
<1>1. status' = "closed" /\ cause'.kind = kind
  BY DEF Close
<1>2. AbsPhase # "down" /\ AbsPhase' = "down"
  BY <1>1, Abstracted, AbstractedNext
<1>3. /\ kind = "setup" => AbsWhy' = "resources"
      /\ kind = "error" => AbsWhy' = "break"
      /\ kind = "eof" => AbsWhy' = "end"
  BY <1>1, AbstractedNext
<1>4. Said' = Said
  BY SameState
<1> QED BY <1>2, <1>3, <1>4 DEF P!Down, Said

\* A peer's sending says one byte more.
LEMMA SendSays ==
    ASSUME TypeOK, NEW id \in Sides, PeerSend(id)
    PROVE  Said' = [Said EXCEPT ![id] = Append(@, <<id, Len(@) + 1>>)] /\ Len(Said[id]) < MaxBytes
<1>1. /\ sent[id] < MaxBytes /\ sent' = [sent EXCEPT ![id] = @ + 1]
      /\ sent \in [Sides -> Nat]
  BY DEF PeerSend, TypeOK
<1>2. sent'[id] = sent[id] + 1 /\ \A i \in Sides : i # id => sent'[i] = sent[i]
  BY <1>1
<1>3. Said[id] = Stream(id, sent[id]) /\ Len(Said[id]) = sent[id]
  BY <1>1, StreamType DEF Said
<1>4. Said'[id] = Append(Said[id], <<id, Len(Said[id]) + 1>>)
  <2>1. Stream(id, sent[id] + 1) = Append(Stream(id, sent[id]), <<id, sent[id] + 1>>)
    BY <1>1, StreamGrows
  <2>2. Said'[id] = Stream(id, sent'[id])
    BY DEF Said
  <2> QED BY <1>2, <1>3, <2>1, <2>2, Zenon
<1>5. \A i \in Sides : i # id => Said'[i] = Said[i]
  BY <1>2, Zenon DEF Said
<1>6. Said = [i \in Sides |-> Said[i]] /\ Said' = [i \in Sides |-> Said'[i]]
  BY DEF Said
<1> HIDE DEF Said
<1>7. Said' = [i \in Sides |-> IF i = id THEN Append(Said[id], <<id, Len(Said[id]) + 1>>) ELSE Said[i]]
  BY <1>4, <1>5, <1>6
<1> QED BY <1>1, <1>3, <1>6, <1>7

\* The first m of n bytes are what a side says first.
LEMMA StreamPrefix ==
    ASSUME NEW id \in Sides, NEW n \in Nat, NEW k \in Nat, k <= n
    PROVE  SubSeq(Stream(id, n), 1, k) = Stream(id, k)
<1> DEFINE s == Stream(id, n)
           t == Stream(id, k)
           u == SubSeq(s, 1, k)
<1>1. /\ s \in Seq(Byte) /\ Len(s) = n /\ \A i \in 1 .. n : s[i] = <<id, i>>
      /\ t \in Seq(Byte) /\ Len(t) = k /\ \A i \in 1 .. k : t[i] = <<id, i>>
  BY StreamType
<1> HIDE DEF s, t
<1>2. u \in Seq(Byte) /\ Len(u) = k
  BY <1>1, SliceType, 1 \in Nat \ {0}
<1>3. \A i \in 1 .. k : u[i] = s[i]
  <2>1. \A i \in 1 .. n : s[i] \in Byte
    BY <1>1, ElementOfSeq
  <2> QED BY <1>1, <2>1, SubSeqProperties
<1> HIDE DEF u
<1>4. \A i \in 1 .. k : u[i] = t[i]
  <2>1. 1 .. k \subseteq 1 .. n
    OBVIOUS
  <2> QED BY <1>1, <1>3, <2>1
<1>5. u = t
  BY <1>1, <1>2, <1>4, SeqEqual
<1> QED BY <1>5 DEF s, t, u

\* A SendTo delivers, or takes the pipes down at a break or for want of
\* resources, or both; or nothing that the pipes know of changes.
LEMMA SendToDelivers ==
    ASSUME TypeOK, TypeOK', IInv', status = "running",
           NEW id \in Sides, NEW b, NEW p, Buffers(b, p), SendTo(id, b, p),
           UNCHANGED <<sent, fin, rst>>
    PROVE  P!Next \/ UNCHANGED P!vars
<1> DEFINE o == Other(id)
<1>0. o \in Sides /\ id \in Sides
  OBVIOUS
<1>1. CASE rst[id] /\ Close("error", id) /\ UNCHANGED <<handed, inflight>>
  <2>1. P!Down("break")
    BY <1>1, ClosesPipes DEF Kinds
  <2>2. P!DownAtBreak(id)
    BY <1>1, <2>1, Abstracted DEF P!DownAtBreak
  <2> QED BY <2>2 DEF P!Next, P!Sides
<1>2. ASSUME ~(rst[id] /\ Close("error", id) /\ UNCHANGED <<handed, inflight>>)
      PROVE  P!Next \/ UNCHANGED P!vars
  <2> DEFINE left == Len(b[o]) - p[o]
             n == Lesser(left, SndBuf - inflight[id])
             x == SubSeq(b[o], p[o] + 1, p[o] + n)
  <2>1. /\ handed' = [handed EXCEPT ![id] = @ \o x]
        /\ AfterSend(o, n, left, b, p)
    BY <1>2 DEF SendTo
  <2>2. x \in Seq(Byte)
    <3>1. b[o] \in Seq(Byte) /\ p[o] \in Nat /\ Len(b[o]) \in Nat /\ p[o] <= Len(b[o])
      BY <1>0, LenProperties DEF Buffers
    <3>2. left \in Nat /\ SndBuf - inflight[id] \in Nat
      <4>1. left \in Nat
        BY <3>1
      <4>2. inflight[id] \in 0 .. SndBuf /\ SndBuf \in Nat
        BY ConstantsAssumption DEF TypeOK
      <4> HIDE DEF left
      <4> QED BY <4>1, <4>2
    <3> HIDE DEF left
    <3>3. n \in Nat /\ n <= left
      BY <3>2 DEF Lesser
    <3>4. p[o] + 1 \in Nat \ {0} /\ p[o] + n \in Nat /\ p[o] + n <= Len(b[o])
      BY <3>1, <3>3 DEF left
    <3> QED BY <3>1, <3>4, SliceType
  <2>3. \/ UNCHANGED <<status, cause>>
        \/ Close("setup", 0)
    BY <2>1 DEF AfterSend, Update, SetEvents
  <2> HIDE DEF x, n, left
  <2>4. /\ handed'[id] = handed[id] \o x /\ Len(handed'[id]) = Len(handed[id]) + Len(x)
        /\ Len(handed[id]) \in Nat /\ Len(x) \in Nat /\ handed[id] \in Seq(Byte)
        /\ handed' = [handed EXCEPT ![id] = handed'[id]]
    <3>1. handed[id] \in Seq(Byte) /\ handed \in [Sides -> Seq(Byte)]
      BY DEF TypeOK
    <3>2. handed'[id] = handed[id] \o x /\ handed' = [handed EXCEPT ![id] = handed'[id]]
      BY <2>1, <3>1
    <3>3. Len(handed[id] \o x) = Len(handed[id]) + Len(x)
      BY <2>2, <3>1, ConcatProperties
    <3> QED BY <2>2, <3>1, <3>2, <3>3, LenProperties
  <2>5. \/ UNCHANGED <<AbsPhase, AbsWhy>>
        \/ AbsPhase' = "down" /\ AbsWhy' = "resources"
    BY <2>3, AbstractedNext, SameState DEF Close
  <2>6. Said' = Said
    BY SameState
  <2>7. CASE x = <<>>
    <3>1. handed' = handed
      <4>1. handed[id] \o <<>> = handed[id]
        BY <2>4, ConcatEmptySeq
      <4>2. handed'[id] = handed[id]
        BY <2>4, <2>7, <4>1, Zenon
      <4>3. handed \in [Sides -> Seq(Byte)]
        BY DEF TypeOK
      <4>4. [handed EXCEPT ![id] = handed[id]] = handed
        BY <4>3
      <4> QED BY <2>4, <4>2, <4>4, Zenon
    <3>2. CASE UNCHANGED <<AbsPhase, AbsWhy>>
      BY <2>6, <3>1, <3>2 DEF P!vars, Said
    <3>3. CASE AbsPhase' = "down" /\ AbsWhy' = "resources"
      <4>1. P!Down("resources")
        BY <2>6, <3>1, <3>3, Abstracted DEF P!Down, Said
      <4> QED BY <4>1 DEF P!Next
    <3> QED BY <2>5, <3>2, <3>3
  <2>8. CASE x # <<>>
    <3>1. Len(x) > 0
      BY <2>2, <2>4, <2>8, EmptySeq
    <3>2. /\ sent[o] \in Nat /\ Said[o] = Stream(o, sent[o]) /\ Len(Said[o]) = sent[o]
      <4>1. sent[o] \in Nat
        BY <1>0 DEF TypeOK
      <4> QED BY <1>0, <4>1, StreamType DEF Said
    <3>3. Len(handed'[id]) <= sent[o] /\ handed'[id] = Stream(o, Len(handed'[id]))
      <4>1. Other(o) = id
        OBVIOUS
      <4>2. InOrder'
        BY DEF IInv
      <4> QED BY <1>0, <4>1, <4>2 DEF InOrder
    <3> DEFINE m == Len(handed'[id])
    <3>4. m \in Len(handed[id]) + 1 .. Len(Said[o])
      BY <2>4, <3>1, <3>2, <3>3
    <3>5. handed'[id] = SubSeq(Said[o], 1, m)
      <4>1. m \in Nat
        BY <2>4
      <4>2. SubSeq(Stream(o, sent[o]), 1, m) = Stream(o, m)
        BY <1>0, <3>2, <3>3, <4>1, StreamPrefix
      <4> QED BY <3>2, <3>3, <4>2, Zenon
    <3>6. \E k \in Len(handed[id]) + 1 .. Len(Said[o]) :
             handed' = [handed EXCEPT ![id] = SubSeq(Said[o], 1, k)]
      <4>1. handed' = [handed EXCEPT ![id] = SubSeq(Said[o], 1, m)]
        BY <2>4, <3>5, Zenon
      <4> QED BY <3>4, <4>1, Zenon
    <3>7. P!Deliver(id)
      <4>1. AbsPhase = "up"
        BY Abstracted
      <4> QED BY <2>5, <2>6, <3>6, <4>1, Zenon DEF P!Deliver, P!Other, Said
    <3> QED BY <3>7 DEF P!Next, P!Sides
  <2> QED BY <2>7, <2>8
<1> QED BY <1>1, <1>2

\* Every step of the relay is a step of the pipes or leaves them alone.
LEMMA NextPipes ==
    ASSUME BufferSize > 0, TypeOK, TypeOK', IInv, IInv', [Next]_vars
    PROVE  P!Next \/ UNCHANGED P!vars
<1>1. CASE SetupFails
  <2>1. P!Down("resources")
    BY <1>1, ClosesPipes DEF SetupFails, netVars, Kinds
  <2> QED BY <2>1 DEF P!Next
<1>2. CASE Start
  <2>1. /\ status = "attaching" /\ status' = "running"
        /\ UNCHANGED <<cause, sent, handed, fin, rst>>
    BY <1>2 DEF Start, SetEvents, netVars
  <2>2. P!Open
    BY <2>1, Abstracted, AbstractedNext, SameState DEF P!Open, Said
  <2> QED BY <2>2 DEF P!Next
<1>3. ASSUME NEW id \in Sides, NEW k \in 0 .. Len(inq[id]), Attach(id, k)
      PROVE  UNCHANGED P!vars
  <2>1. UNCHANGED <<status, cause, sent, handed, fin, rst>>
    BY <1>3 DEF Attach
  <2> QED BY <2>1, SameState DEF P!vars, Said
<1>4. ASSUME NEW id \in Sides, OnReadData(id)
      PROVE  P!Next \/ UNCHANGED P!vars
  <2> DEFINE n == Lesser(size[id], Len(inq[id]))
             b == [buf EXCEPT ![id] = SubSeq(inq[id], 1, n)]
             p == [pos EXCEPT ![id] = 0]
  <2>1. n \in Nat /\ n <= size[id] /\ n <= Len(inq[id])
    <3>1. inq[id] \in Seq(Byte) /\ size[id] \in Nat
      BY DEF TypeOK
    <3>2. Len(inq[id]) \in Nat
      BY <3>1, LenProperties
    <3> QED BY <3>1, <3>2, LesserFacts
  <2>2. status = "running" /\ SendTo(Other(id), b, p) /\ UNCHANGED <<sent, fin, rst>>
    BY <1>4 DEF OnReadData
  <2> HIDE DEF n
  <2>3. Buffers(b, p)
    BY <2>1, ReadBuffers
  <2>4. Other(id) \in Sides
    OBVIOUS
  <2> HIDE DEF b, p
  <2> QED BY <2>2, <2>3, <2>4, SendToDelivers
<1>5. ASSUME NEW id \in Sides, OnReadEof(id)
      PROVE  P!Next
  <2>1. status = "running" /\ Close("eof", id) /\ UNCHANGED netVars
    BY <1>5 DEF OnReadEof
  <2>2. P!Down("end")
    BY <2>1, ClosesPipes DEF netVars, Kinds
  <2>3. fin[id] /\ handed[Other(id)] = Said[id]
    <3>1. cause' = [kind |-> "eof", side |-> id]
      BY <2>1 DEF Close
    <3>2. fin'[id] /\ handed'[Other(id)] = Stream(id, sent'[id])
      BY <3>1 DEF IInv, EofDeliversEverything, ClosesOnlyAtFin
    <3> QED BY <2>1, <3>2, Zenon DEF netVars, Said
  <2>4. AbsPhase = "up"
    BY <2>1, Abstracted
  <2>5. P!DownAtEnd(id)
    BY <2>2, <2>3, <2>4, Zenon DEF P!DownAtEnd, P!Other, Said
  <2> QED BY <2>5 DEF P!Next, P!Sides
<1>6. ASSUME NEW id \in Sides, OnReadError(id)
      PROVE  P!Next
  <2>1. status = "running" /\ rst[id] /\ Close("error", id) /\ UNCHANGED netVars
    BY <1>6 DEF OnReadError
  <2>2. P!Down("break")
    BY <2>1, ClosesPipes DEF netVars, Kinds
  <2>3. P!DownAtBreak(id)
    BY <2>1, <2>2, Abstracted DEF P!DownAtBreak
  <2> QED BY <2>3 DEF P!Next, P!Sides
<1>7. ASSUME NEW id \in Sides, OnWrite(id)
      PROVE  P!Next \/ UNCHANGED P!vars
  <2>1. Buffers(buf, pos)
    BY DEF Buffers, TypeOK
  <2> QED BY <1>7, <2>1, SendToDelivers DEF OnWrite
<1>8. ASSUME NEW id \in Sides, Peer(id)
      PROVE  P!Next \/ UNCHANGED P!vars
  <2>1. CASE PeerSend(id)
    <3>1. /\ status # "closed" /\ ~fin[id] /\ ~rst[id]
          /\ UNCHANGED <<status, cause, handed, fin, rst>>
      BY <2>1 DEF PeerSend, relayVars
    <3>2. /\ Said' = [Said EXCEPT ![id] = Append(@, <<id, Len(@) + 1>>)]
          /\ Len(Said[id]) < MaxBytes
      BY <2>1, SendSays
    <3>3. AbsPhase # "down" /\ UNCHANGED <<AbsPhase, AbsWhy>>
      BY <3>1, Abstracted, SameState
    <3>4. P!Say(id)
      BY <3>1, <3>2, <3>3, Zenon DEF P!Say, Said
    <3> QED BY <3>4 DEF P!Next, P!Sides
  <2>2. CASE PeerFin(id)
    <3>1. P!End(id)
      BY <2>2, Abstracted, SameState DEF PeerFin, relayVars, P!End, Said
    <3> QED BY <3>1 DEF P!Next, P!Sides
  <2>3. CASE PeerReset(id)
    <3>1. P!Break(id)
      BY <2>3, Abstracted, SameState DEF PeerReset, relayVars, P!Break, Said
    <3> QED BY <3>1 DEF P!Next, P!Sides
  <2>4. CASE PeerDrain(id)
    BY <2>4, SameState DEF PeerDrain, relayVars, P!vars, Said
  <2> QED BY <1>8, <2>1, <2>2, <2>3, <2>4 DEF Peer
<1>9. CASE UNCHANGED vars
  BY <1>9, SameState DEF vars, P!vars, Said
<1> QED BY <1>1, <1>2, <1>3, <1>4, <1>5, <1>6, <1>7, <1>8, <1>9 DEF Next, OnRead

\* At first nothing was said or heard.
LEMMA InitPipes == Init => P!Init
<1> SUFFICES ASSUME Init PROVE P!Init
  OBVIOUS
<1>1. \A id \in Sides : Stream(id, sent[id]) = <<>>
  <2> TAKE id \in Sides
  <2>1. Stream(id, 0) \in Seq(Byte) /\ Len(Stream(id, 0)) = 0
    BY StreamType
  <2> QED BY <2>1, EmptySeq DEF Init
<1>2. Said = [id \in Sides |-> <<>>]
  BY <1>1 DEF Said
<1> QED BY <1>2 DEF Init, P!Init, P!Sides, AbsPhase, AbsWhy, Said

\* The relay is a pair of pipes: whatever its buffers, events, partial sends
\* and failures, all that its peers can see of it is two streams, of which the
\* other side hears longer and longer beginnings, and one end.
THEOREM IsAPairOfPipes ==
    ASSUME BufferSize > 0
    PROVE  Spec => P!Spec
<1>1. Init => P!Init
  BY InitPipes
<1>2. TypeOK /\ TypeOK' /\ IInv /\ IInv' /\ [Next]_vars => [P!Next]_(P!vars)
  BY NextPipes
<1>3. Spec => [](TypeOK /\ IInv)
  BY Invariance
<1> QED BY <1>1, <1>2, <1>3, PTL DEF Spec, P!Spec

=============================================================================
