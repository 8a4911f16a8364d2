----------------------------- MODULE MCHostRefs -----------------------------
(***************************************************************************)
(* Addresses are interchangeable: only their reuse matters.                *)
(***************************************************************************)
EXTENDS HostRefs, TLC

AddrSymmetry == Permutations(Addrs)

=============================================================================
