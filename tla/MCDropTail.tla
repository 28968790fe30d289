----------------------------- MODULE MCDropTail -----------------------------
(***************************************************************************)
(* DropTail with the constants its configurations give.                    *)
(***************************************************************************)
EXTENDS DropTail

=============================================================================
