----------------------------- MODULE MCRCCWorker -----------------------------
(* RCCWorker for TLC: the methods a worker has, and its run conditions. *)
EXTENDS RCCWorker

NoPorts == {}
InPort == {"in"}
OutPort == {"out"}

\* Like the test workers of the repository: no release method.
NoRelease == {"initialize", "start", "stop", "test", "run"}
WithRelease == NoRelease \cup {"release"}

AllReady == {InPort \cup OutPort}
InputReady == {InPort}
EitherReady == {{"in"}, {"out"}}
TimeoutOnly == {}
=============================================================================
