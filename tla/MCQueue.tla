------------------------------- MODULE MCQueue -------------------------------
(***************************************************************************)
(* Constants for checking DropTail and PriQueue.                           *)
(***************************************************************************)
EXTENDS PriQueue

(* Packets go to two next hops in turn. *)
Alternate == [i \in 1 .. MaxArrivals |-> IF i % 2 = 0 THEN "x" ELSE "y"]

=============================================================================
