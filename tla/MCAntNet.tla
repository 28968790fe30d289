------------------------------ MODULE MCAntNet ------------------------------
(***************************************************************************)
(* Topologies and constants for checking AntNet.                           *)
(***************************************************************************)
EXTENDS AntNetProperties, TLC

(* A cycle 0-1-2 with a leaf 3 behind node 2, and a line. *)
Tailed   == <<<<0, 1>>, <<1, 2>>, <<0, 2>>, <<2, 3>>>>
Line     == <<<<0, 1>>, <<1, 2>>, <<2, 3>>>>

Ends(script) == {{script[i][1], script[i][2]} : i \in 1 .. Len(script)}
TailedLink == Ends(Tailed)
LineLink   == Ends(Line)
NoScript   == <<>>

Half     == [n \in Node |-> Unit \div 2]

(* Either end launches one ant. *)
OneEnd   == [n \in Node |-> IF n \in {0, NodeCount - 1} THEN 1 ELSE 0]

Buffers == Permutations(Packet)

=============================================================================
