----------------------------- MODULE StaticMemory -----------------------------
(***************************************************************************)
(* Constant list and map literals packed at compile time                   *)
(* (static_memory_builder.cc, the constant visitors of layout_pass.cc).    *)
(* The packed header, run and index must be what the runtime would have    *)
(* built; the geometry and the placement of the index are written a second *)
(* time here, as they are in the code, and the packed block is read with   *)
(* the runtime's geometry.                                                 *)
(***************************************************************************)
EXTENDS MapTable

IndexCtrlTotalBytes(n) == n + (GroupWidth - 1)
IndexAlignUp4(n) == ((n + 3) \div 4) * 4
IndexSlotArrayOffset(n) == IndexAlignUp4(IndexCtrlTotalBytes(n))
IndexBlockBytes(n) == IndexSlotArrayOffset(n) + n * 4

\* A slot number takes four bytes of the block; it is kept at the first.
SlotAt(n, s) == IndexSlotArrayOffset(n) + 4 * s

\* What the probe loop sees of the block.
Seen(block, n) ==
    [ctrl |-> [b \in 0 .. IndexCtrlTotalBytes(n) - 1 |-> block[b]],
     slots |-> [s \in 0 .. n - 1 |-> block[SlotAt(n, s)]]]

\* The slot the probe loop stops at, none for a duplicate key.
BakedSlot(r, n) == IF r.hits # {} THEN {} ELSE {(r.seq + Lowest(r.empties)) % n}

\* Mutant: the control byte is not cloned.
PlaceBakedWithoutClone(staged, block, n, i, hash) ==
    LET h == hash[cel_map_key_hash(staged[i].k)]
        w == BakedSlot(LastRound(staged, Seen(block, n), n, staged[i].k, h), n)
    IN  {[block EXCEPT ![s] = h.h2, ![SlotAt(n, s)] = i] : s \in w}

\* The block with entry i placed, or none for a duplicate key.
PlaceBakedEntry(staged, block, n, i, hash) ==
    LET h == hash[cel_map_key_hash(staged[i].k)]
        w == BakedSlot(LastRound(staged, Seen(block, n), n, staged[i].k, h), n)
        clone(s) == IF s < GroupWidth - 1 THEN s + n ELSE s
    IN  {[block EXCEPT ![s] = h.h2, ![clone(s)] = h.h2, ![SlotAt(n, s)] = i] : s \in w}

BakeIndexBlock(staged, n, hash) ==
    FoldLeft(LAMBDA acc, i : UNION {PlaceBakedEntry(staged, block, n, i, hash) : block \in acc},
             {[b \in 0 .. IndexBlockBytes(n) - 1 |-> IF b < IndexCtrlTotalBytes(n) THEN Empty ELSE 0]},
             [i \in 1 .. Len(staged) |-> i])

\* The block as cel_map_index.c finds its parts.
AppendBakedIndex(block, n) ==
    [ctrl |-> [b \in 0 .. ctrl_total_bytes(n) - 1 |-> block[b]],
     slots |-> [s \in 0 .. n - 1 |-> block[index_block_bytes(n) - 4 * (n - s)]]]

\* stages: the arena the compiler stages keys in has room for them.
StagePlacementKey(key, stages) == key.kind \in {"string", "bytes"} => stages

\* The index to pack, NoIndex for a small map; {} to leave the map to the
\* generated code.
StageAndDecideIndex(entries, stages, hash) ==
    LET n == Len(entries)
        slots == cel_map_index_num_slots(n)
    IN  IF n <= 1 THEN {NoIndex}
        ELSE IF \E i \in 1 .. n : ~StagePlacementKey(entries[i].k, stages) THEN {}
        ELSE IF n >= Threshold
          THEN {AppendBakedIndex(block, slots) : block \in BakeIndexBlock(entries, slots, hash)}
        ELSE IF \E i, j \in 1 .. n : i < j /\ cel_map_key_eq(entries[i].k, entries[j].k) THEN {}
        ELSE {NoIndex}

\* The packed map, or none.
MaterializeMap(entries, stages, hash) ==
    {[kind |-> "map", e |-> entries, cap |-> Len(entries), ix |-> ix] :
       ix \in StageAndDecideIndex(entries, stages, hash)}

MaterializeList(elements) == [kind |-> "list", e |-> elements, cap |-> Len(elements)]

\* Literals only, whatever the kind of a key; no optional entries.
IsConstMaterializable(v) == v.kind \in {"null", "bool", "int", "uint", "double", "string", "bytes"}
===============================================================================
