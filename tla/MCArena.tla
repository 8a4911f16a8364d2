------------------------------ MODULE MCArena ------------------------------
(***************************************************************************)
(* A heap of a few hundred bytes and an 8-bit word for TLC.                *)
(***************************************************************************)
EXTENDS Arena

CONSTANT MaxLive, MaxChunks, MaxEnv

MCAddrs == {8, 16, 24, 40, 72, 104, 120}
Bounded ==
    /\ Cardinality(live) <= MaxLive
    /\ Len(chain) <= MaxChunks
    /\ Cardinality(env) <= MaxEnv

=============================================================================
