------------------------------ MODULE MCCapsule ------------------------------
(***************************************************************************)
(* A capsule for TLC: three versions of the executor, of which one is      *)
(* defective, and two targets.                                             *)
(***************************************************************************)
EXTENDS Capsule
==============================================================================
