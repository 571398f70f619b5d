---------------------------- MODULE PacketQueue ----------------------------
(***************************************************************************)
(* What the receiving side of a protocol engine promises to the threads    *)
(* that process the radio's packets: per stream a bounded first-in first-  *)
(* out queue.  A packet that does not fit is lost; nothing is invented,    *)
(* repeated, reordered or changed while it is being processed.  A restart  *)
(* of the protocol may void the promise, another one renews it.            *)
(***************************************************************************)
EXTENDS Naturals, Sequences

CONSTANTS Streams, Packets, Room, None

VARIABLES valid, queue, current

vars == <<valid, queue, current>>

Nothing == /\ queue = [s \in Streams |-> << >>]
           /\ current = [s \in Streams |-> None]

Init == valid = TRUE /\ Nothing

Arrive(s, p) == /\ valid
                /\ Len(queue[s]) < Room[s]
                /\ queue' = [queue EXCEPT ![s] = Append(@, p)]
                /\ UNCHANGED <<valid, current>>

Take(s) == /\ current[s] = None /\ queue[s] # << >>
           /\ current' = [current EXCEPT ![s] = Head(queue[s])]
           /\ queue' = [queue EXCEPT ![s] = Tail(@)]
           /\ UNCHANGED valid

Done(s) == /\ current[s] # None
           /\ current' = [current EXCEPT ![s] = None]
           /\ UNCHANGED <<valid, queue>>

\* A restart that finds packets waiting or at work.
Void == valid /\ valid' = FALSE /\ Nothing'

\* A restart that finds everything at rest.
Renew == ~valid /\ valid' = TRUE /\ UNCHANGED <<queue, current>>

Next == \/ Void \/ Renew
        \/ \E s \in Streams : Take(s) \/ Done(s) \/ \E p \in Packets : Arrive(s, p)

Spec == Init /\ [][Next]_vars

\* Every packet in a queue is processed.
Fairness == \A s \in Streams : WF_vars(Take(s)) /\ WF_vars(Done(s))
=============================================================================
