--------------------------- MODULE MCClientProxy ---------------------------
(* Instances of ClientProxy for TLC.                                        *)
EXTENDS ClientProxy

CONSTANTS s1, s2
=============================================================================
