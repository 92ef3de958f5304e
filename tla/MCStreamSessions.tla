-------------------------- MODULE MCStreamSessions --------------------------
(***************************************************************************)
(* StreamSessions for TLC.  Streams, timers and epochs are interchangeable *)
(* in the safety runs.                                                     *)
(***************************************************************************)
EXTENDS StreamSessions, TLC

Symmetry == Permutations(Conns) \cup Permutations(Gens) \cup Permutations(Epochs)
=============================================================================
