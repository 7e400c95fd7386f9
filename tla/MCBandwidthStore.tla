-------------------------- MODULE MCBandwidthStore --------------------------
(* Instances of BandwidthStore for TLC.                                     *)
EXTENDS BandwidthStore, TLC

Symmetry == Permutations(Caller)
=============================================================================
