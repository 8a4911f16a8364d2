----------------------------- MODULE UnknownSet -----------------------------
(***************************************************************************)
(* UnknownSet (runtime/cel_3vl.h): the attribute ids that an unknown value *)
(* depends on, an array in sorted, deduplicated order.                     *)
(***************************************************************************)
EXTENDS Naturals, Sequences

AttributeId == Nat   \* (uint32_t)

Sorted(s) == \A m, n \in 1 .. Len(s) : m < n => s[m] < s[n]
IdsOf(s) == {s[n] : n \in 1 .. Len(s)}

=============================================================================
