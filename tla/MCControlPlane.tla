--------------------------- MODULE MCControlPlane ---------------------------
(* Instances of ControlPlane for TLC.                                       *)
EXTENDS ControlPlane, TLC

CONSTANTS u1, u2, d1, d2

\* d1 and d2 have different owners: isolation and foreign requests.
OwnerTwo == d1 :> u1 @@ d2 :> u2

\* d1 and d2 both belong to u1: loops over several domains of one session.
OwnerOne == d1 :> u1 @@ d2 :> u1

RequestAll   == {{}}
RequestTwo   == {{}, {d2}}
RequestSub   == {{}, {d1}}
=============================================================================
