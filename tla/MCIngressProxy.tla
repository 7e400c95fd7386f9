--------------------------- MODULE MCIngressProxy ---------------------------
(* Instances of IngressProxy for TLC.                                       *)
EXTENDS IngressProxy, TLC

CONSTANTS r1, r2, u1

\* An upgraded and a plain request of one user draw on one counter.
OneUser == r1 :> u1 @@ r2 :> u1

\* The database fails while it charges the plain response.
PlainResponse == {<<r2, "down">>}
=============================================================================
