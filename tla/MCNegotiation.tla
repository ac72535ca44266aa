---------------------------- MODULE MCNegotiation ----------------------------
(* Negotiation for TLC: what a direct connection may ask of the provider. *)
EXTENDS Negotiation

NoFlowControl == RealRole \ {"ActiveFlowControl"}
Anything == RealRole
=============================================================================
