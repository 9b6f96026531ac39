------------------------------- MODULE MCLive -------------------------------
(* Instances of LivePage for TLC.  The agents are interchangeable.         *)
EXTENDS LivePage

WorkerSymmetry == Permutations(Workers)
=============================================================================
