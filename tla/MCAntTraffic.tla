---------------------------- MODULE MCAntTraffic ----------------------------
(***************************************************************************)
(* A topology for checking AntTraffic.                                     *)
(***************************************************************************)
EXTENDS AntTraffic

(* A cycle 0-1-2 with a leaf 3 behind node 2. *)
Tailed == {{0, 1}, {1, 2}, {0, 2}, {2, 3}}

=============================================================================
