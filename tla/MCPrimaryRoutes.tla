-------------------------- MODULE MCPrimaryRoutes --------------------------
(***************************************************************************)
(* PrimaryRoutes for TLC.  Callers are interchangeable; node ids are       *)
(* ordered and are not.                                                    *)
(***************************************************************************)
EXTENDS PrimaryRoutes, TLC

Symmetry == Permutations(Callers)
=============================================================================
