------------------------------- MODULE Pipes -------------------------------
(***************************************************************************)
(* What a tunnel promises the two peers it joins: two pipes, one each way, *)
(* that deliver in order, and end together.                                *)
(***************************************************************************)
EXTENDS Integers, Sequences

CONSTANT MaxBytes   \* bound: bytes a peer says

VARIABLES
    phase,    \* "setup", "up", "down"
    why,      \* what took it down: "none" (yet), "end", "break", "resources"
    said,     \* what the peer of a side has said
    heard,    \* what the peer of a side was given
    ended,    \* the peer of a side has said all it will
    broken    \* the peer of a side is gone

vars == <<phase, why, said, heard, ended, broken>>

Sides == {0, 1}
Other(id) == 1 - id

Init ==
    /\ phase = "setup"
    /\ why = "none"
    /\ said = [id \in Sides |-> <<>>]
    /\ heard = [id \in Sides |-> <<>>]
    /\ ended = [id \in Sides |-> FALSE]
    /\ broken = [id \in Sides |-> FALSE]

Say(id) ==
    /\ phase # "down"
    /\ ~ended[id] /\ ~broken[id]
    /\ Len(said[id]) < MaxBytes
    /\ said' = [said EXCEPT ![id] = Append(@, <<id, Len(@) + 1>>)]
    /\ UNCHANGED <<phase, why, heard, ended, broken>>

End(id) ==
    /\ phase # "down"
    /\ ~ended[id] /\ ~broken[id]
    /\ ended' = [ended EXCEPT ![id] = TRUE]
    /\ UNCHANGED <<phase, why, said, heard, broken>>

Break(id) ==
    /\ phase # "down"
    /\ ~broken[id]
    /\ broken' = [broken EXCEPT ![id] = TRUE]
    /\ UNCHANGED <<phase, why, said, heard, ended>>

Open ==
    /\ phase = "setup"
    /\ phase' = "up"
    /\ UNCHANGED <<why, said, heard, ended, broken>>

\* Some more of what one peer said reaches the other.  The last of it may
\* reach it in the step that takes the tunnel down for want of resources.
Deliver(id) ==
    /\ phase = "up"
    /\ \E n \in Len(heard[id]) + 1 .. Len(said[Other(id)]) :
          heard' = [heard EXCEPT ![id] = SubSeq(said[Other(id)], 1, n)]
    /\ \/ UNCHANGED <<phase, why>>
       \/ phase' = "down" /\ why' = "resources"
    /\ UNCHANGED <<said, ended, broken>>

\* A tunnel goes down when one peer has ended and was heard to the end,
\* when one is gone, or for want of resources (or before it is up).
Down(reason) ==
    /\ phase # "down"
    /\ phase' = "down"
    /\ why' = reason
    /\ UNCHANGED <<said, heard, ended, broken>>

DownAtEnd(id) ==
    /\ phase = "up"
    /\ ended[id] /\ heard[Other(id)] = said[id]
    /\ Down("end")

DownAtBreak(id) ==
    /\ phase = "up"
    /\ broken[id]
    /\ Down("break")

Next ==
    \/ Open
    \/ Down("resources")
    \/ \E id \in Sides : \/ Say(id) \/ End(id) \/ Break(id)
                         \/ Deliver(id) \/ DownAtEnd(id) \/ DownAtBreak(id)

Spec == Init /\ [][Next]_vars

\* Whatever is said is heard, on one side; and a peer that has ended, and was
\* heard to the end, takes the tunnel down.
Delivers(id) == WF_vars(Deliver(id))
GoesDownAtEnd(id) == WF_vars(DownAtEnd(id))
=============================================================================
