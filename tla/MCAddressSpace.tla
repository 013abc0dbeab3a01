--------------------------- MODULE MCAddressSpace ---------------------------
(***************************************************************************)
(* AddressSpace for TLC.  Nothing orders the processes, so they may be      *)
(* exchanged for one another.                                               *)
(***************************************************************************)
EXTENDS AddressSpace, TLC

Symmetry == Permutations(Spaces)
=============================================================================
