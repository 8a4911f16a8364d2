---------------------------- MODULE UnknownMerge ----------------------------
(***************************************************************************)
(* How cel_unknown_merge (runtime/cel_3vl.c) unites two UnknownSets: the   *)
(* merge walk over two sorted arrays of attribute ids into a buffer taken  *)
(* from the arena before the walk, one action per loop iteration.  A result*)
(* is the operand of a later merge, as it is in `x && y && z`.             *)
(***************************************************************************)
EXTENDS UnknownSet

CONSTANT Inputs   \* the id arrays the host mints

ASSUME UnknownMergeAssumption ==
    Inputs \subseteq {s \in Seq(AttributeId) : Sorted(s)}

VARIABLES
    ids_a, ids_b,   \* the operands' id arrays
    i, j,           \* how many ids of each have been read
    dst,            \* what has been written to the buffer
    room,           \* how many ids the buffer holds
    pc

mergeVars == <<ids_a, ids_b, i, j, dst, room, pc>>

\* Mutant: the buffer has room for the longer operand only.
RoomForLonger(x, y) == IF Len(x) > Len(y) THEN Len(x) ELSE Len(y)

\* merge_unknown_descriptors: max_total ids, at least one.
Room(x, y) == IF Len(x) + Len(y) = 0 THEN 1 ELSE Len(x) + Len(y)

Start(x, y) ==
    /\ ids_a' = x /\ ids_b' = y /\ i' = 0 /\ j' = 0 /\ dst' = <<>>
    /\ room' = Room(x, y)
    /\ pc' = "walk"

MergeInit ==
    /\ ids_a \in Inputs /\ ids_b = <<>> /\ dst = ids_a
    /\ i = 0 /\ j = 0 /\ room = Room(ids_a, ids_b)
    /\ pc = "done"

\* The accumulated set meets another operand, on either side.
MergeWith(x) ==
    /\ pc = "done"
    /\ Start(dst, x) \/ Start(x, dst)

\* One id goes to dst; u and v say which operands advance.
Take(id, u, v) ==
    /\ dst' = Append(dst, id)
    /\ i' = i + u
    /\ j' = j + v
    /\ UNCHANGED <<ids_a, ids_b, room, pc>>

Both == pc = "walk" /\ i < Len(ids_a) /\ j < Len(ids_b)

TakeLeft  == Both /\ ids_a[i + 1] < ids_b[j + 1] /\ Take(ids_a[i + 1], 1, 0)
TakeRight == Both /\ ids_a[i + 1] > ids_b[j + 1] /\ Take(ids_b[j + 1], 0, 1)

\* Mutant: an id that both operands have is read from one of them only.
TakeEqualFromLeft == Both /\ ids_a[i + 1] = ids_b[j + 1] /\ Take(ids_a[i + 1], 1, 0)

\* Mutant: the walk stays where it is on an id both operands have.
TakeEqualStays == Both /\ ids_a[i + 1] = ids_b[j + 1] /\ UNCHANGED mergeVars

TakeEqual == Both /\ ids_a[i + 1] = ids_b[j + 1] /\ Take(ids_a[i + 1], 1, 1)

\* The rest of whichever operand is left.
DrainLeft  == pc = "walk" /\ j = Len(ids_b) /\ i < Len(ids_a) /\ Take(ids_a[i + 1], 1, 0)
DrainRight == pc = "walk" /\ i = Len(ids_a) /\ j < Len(ids_b) /\ Take(ids_b[j + 1], 0, 1)

Finish ==
    /\ pc = "walk" /\ i = Len(ids_a) /\ j = Len(ids_b)
    /\ pc' = "done"
    /\ UNCHANGED <<ids_a, ids_b, i, j, dst, room>>

Step == TakeLeft \/ TakeRight \/ TakeEqual \/ DrainLeft \/ DrainRight \/ Finish
MergeNext == Step \/ \E x \in Inputs : MergeWith(x)

\* The walk is sequential code: it goes on until it returns.
MergeSpec == MergeInit /\ [][MergeNext]_mergeVars /\ WF_mergeVars(Step)

-----------------------------------------------------------------------------
\* A merge returns the sorted, deduplicated union of its operands: the wire
\* shape cel_3vl.h promises every consumer of an UnknownSet.
MergedIsUnion ==
    pc = "done" => Sorted(dst) /\ IdsOf(dst) = IdsOf(ids_a) \cup IdsOf(ids_b)

\* The walk never writes past the buffer it was given.
WithinBuffer == Len(dst) <= room

\* Every merge returns.
MergeEnds == pc = "walk" ~> pc = "done"

=============================================================================
