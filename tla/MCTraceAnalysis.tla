-------------------------- MODULE MCTraceAnalysis --------------------------
(***************************************************************************)
(* Constants for checking TraceAnalysis.                                   *)
(***************************************************************************)
EXTENDS TraceAnalysis

(* Sizes that tell every set of packets from every other. *)
Powers == [p \in Packet |-> 2 ^ p]

Types == [p \in Packet |-> IF p = 1 THEN "cbr" ELSE "tcp"]

(* A frame, a query and an ant. *)
Three == {[type |-> "s", level |-> "MAC", ptype |-> "MAC"],
          [type |-> "r", level |-> "MAC", ptype |-> "ARP"],
          [type |-> "r", level |-> "RTR", ptype |-> "Ant"]}
NoOthers == {}

=============================================================================
