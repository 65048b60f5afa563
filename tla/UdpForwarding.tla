--------------------------- MODULE UdpForwarding ---------------------------
(***************************************************************************)
(* What passing datagrams on promises: they are tried one after the other, *)
(* in the order they came, each as it must go out and to whom; the kernel  *)
(* may refuse any of them.  Nothing is left over, repeated or overtaken.   *)
(***************************************************************************)
EXTENDS Integers, Sequences

VARIABLES
    come,     \* what must go out, in the order it came: to whom, and the bytes
    tried,    \* what the kernel was asked to send, as single datagrams
    stopped   \* the program has ended

vars == <<come, tried, stopped>>

Init ==
    /\ come = <<>>
    /\ tried = <<>>
    /\ stopped = FALSE

Come ==
    /\ Len(come') = Len(come) + 1
    /\ SubSeq(come', 1, Len(come)) = come
    /\ UNCHANGED <<tried, stopped>>

\* The next k are tried.
Try ==
    /\ ~stopped
    /\ \E k \in 1 .. Len(come) - Len(tried) :
          tried' = tried \o SubSeq(come, Len(tried) + 1, Len(tried) + k)
    /\ UNCHANGED <<come, stopped>>

Stop ==
    /\ ~stopped
    /\ stopped' = TRUE
    /\ UNCHANGED <<come, tried>>

Next == Come \/ Try \/ Stop

Spec == Init /\ [][Next]_vars

\* Unless the program ends, everything is tried.
FairSpec == Spec /\ WF_vars(Try)
=============================================================================
