---------------------------- MODULE MCViewPipeline ----------------------------
(***************************************************************************)
(* Finite instances of the view pipeline and the pool, for TLC.            *)
(***************************************************************************)
EXTENDS SharedPool

CONSTANT p1

OnFirst == [v \in Readings |-> p1]
=============================================================================
