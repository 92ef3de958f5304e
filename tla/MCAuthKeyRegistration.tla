----------------------- MODULE MCAuthKeyRegistration ------------------------
(***************************************************************************)
(* AuthKeyRegistration for TLC.  Requests, machines and node keys are      *)
(* interchangeable.                                                        *)
(***************************************************************************)
EXTENDS AuthKeyRegistration, TLC

Symmetry == Permutations(Requests) \cup Permutations(Machines) \cup Permutations(NodeKeys)
=============================================================================
