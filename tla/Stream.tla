------------------------------- MODULE Stream -------------------------------
(***************************************************************************)
(* What a data-transport connection promises to the code above it: every   *)
(* message the producer sends is handed to the consumer behind each input  *)
(* port exactly once, intact and in the order of the sends, and at most    *)
(* Capacity messages are outstanding for a port at any time.               *)
(*                                                                         *)
(* The modules that model the transport's mechanisms (Circuit) implement   *)
(* this one under a refinement mapping.                                    *)
(***************************************************************************)
EXTENDS Naturals, Sequences

CONSTANTS
  InPorts,     \* the input ports of the connection
  Messages,    \* what a producer can send
  Capacity     \* the buffers of the connection, output and input together

VARIABLES
  sent,        \* the messages sent, oldest first
  got          \* got[p]: the messages handed to the consumer of p, oldest first

streamVars == <<sent, got>>

Init ==
  /\ sent = <<>>
  /\ got = [p \in InPorts |-> <<>>]

\* The producer sends m.  A slot is needed at every port.
Send(m) ==
  /\ \A p \in InPorts : Len(sent) - Len(got[p]) < Capacity
  /\ sent' = Append(sent, m)
  /\ UNCHANGED got

\* The consumer of p is handed the oldest message it has not seen.
Deliver(p) ==
  /\ Len(got[p]) < Len(sent)
  /\ got' = [got EXCEPT ![p] = Append(@, sent[Len(@) + 1])]
  /\ UNCHANGED sent

Next == \/ \E m \in Messages : Send(m)
        \/ \E p \in InPorts : Deliver(p)

\* The safety half: order, integrity, no duplicate, bounded occupancy.
Safe == Init /\ [][Next]_streamVars

\* The whole promise: nothing sent stays undelivered.
Spec == Safe /\ \A p \in InPorts : WF_streamVars(Deliver(p))
=============================================================================
