---------------------------- MODULE MCJobDispatch ----------------------------
(***************************************************************************)
(* Instances of JobDispatch for TLC.  The agents are model values and the  *)
(* calls of an instance a set of names, both given in its .cfg.            *)
(***************************************************************************)
EXTENDS JobDispatch, TLC

\* The threads are alike, and no property names one.
ThreadSymmetry == Permutations(Thread)
==============================================================================
