----------------------------- MODULE MCDispatch -----------------------------
(* Dispatch for TLC: three applications, one more than a pass visits; the   *)
(* first has two workers, the second one, the third none.                   *)
EXTENDS Dispatch

CONSTANTS a1, a2, a3, w1, w2, w3, c1

OwnerOf == w1 :> a1 @@ w2 :> a1 @@ w3 :> a2
=============================================================================
