---------------------------- MODULE MCPacketInfo ----------------------------
(***************************************************************************)
(* Constants for checking PacketInfo.                                      *)
(***************************************************************************)
EXTENDS PacketInfo, TLC

CONSTANTS c1, c2, c3

(* Of four built-in types the table classifies two; each classifier knows
   one further type, the first two the same one, but differently.           *)
KnownTypes == [t \in Types |-> IF t = 0 THEN "DATApkt" ELSE IF t = 1 THEN "ROUTING"
                               ELSE "UNCLASSIFIED"]
Opinions == (c1 :> [t \in Types |-> IF t = 2 THEN "ROUTING" ELSE "UNCLASSIFIED"])
         @@ (c2 :> [t \in Types |-> IF t = 2 THEN "DATApkt" ELSE "UNCLASSIFIED"])
         @@ (c3 :> [t \in Types |-> IF t >= Builtin THEN "ROUTING" ELSE "UNCLASSIFIED"])

=============================================================================
