----------------------------- MODULE MCPipeline -----------------------------
(* Instances of Pipeline for TLC. *)
EXTENDS Pipeline

\* A narrow link between wider ones: input buffers sent on have to wait.
Bufs == <<3, 2, 3>>

\* The workers that live with the container: one that sends its input buffers
\* has a run condition without the output port.
Careful == {k \in Kind : k.sendsInput => ~k.polls}

\* A worker that waits for an output buffer, and sends its input buffer.
Polling == {[polls |-> TRUE, sendsInput |-> TRUE]}
=============================================================================
