---------------------------- MODULE MCPacketPool ----------------------------
(***************************************************************************)
(* Symmetry for checking PacketPool.                                       *)
(***************************************************************************)
EXTENDS PacketPool, TLC

Names == Permutations(Packet) \union Permutations(Object)

=============================================================================
