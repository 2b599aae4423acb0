---------------------------- MODULE MCVbootBoot ----------------------------
(* VbootBoot on every board configuration, with and without KERNEL_LEGACY.  *)
EXTENDS VbootBoot

VerifiedOnly == {b \in BoardConfig : ~b.legacy}
LegacyBoards == {b \in BoardConfig : b.legacy}
=============================================================================
