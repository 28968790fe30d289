----------------------------- MODULE MCAntLinks -----------------------------
(***************************************************************************)
(* A topology and constants for checking AntLinks.                         *)
(***************************************************************************)
EXTENDS AntLinks

(* A line 0 - 3 - 1 - 2.  With three destinations an ant of node 0 to node 1
   can be home before its time-to-live runs out, one to node 2 cannot.      *)
Line     == <<<<0, 3>>, <<3, 1>>, <<1, 2>>>>
LineLink == {{Line[i][1], Line[i][2]} : i \in 1 .. Len(Line)}

Half     == [n \in Node |-> Unit \div 2]

(* Node 0 launches three ants, which meet each other going out and home. *)
Three    == [n \in Node |-> IF n = 0 THEN 3 ELSE 0]

=============================================================================
