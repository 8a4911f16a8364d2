------------------------------- MODULE MapTable -------------------------------
(***************************************************************************)
(* The arena map (cel_runtime.c) and its hash index (cel_map_index.c,      *)
(* cel_map_hash.h) as operators on the header record                       *)
(*                                                                         *)
(*    [kind |-> "map", e |-> entries, cap |-> capacity, ix |-> index]      *)
(*                                                                         *)
(* Arena offsets are abstracted away: the entries are the header's run,    *)
(* the index is its control bytes and slots or NoIndex.  A group has       *)
(* GroupWidth control bytes (8 in the code) and the load factor is         *)
(* (GroupWidth - 1) / GroupWidth, as 7/8 is for 8.                         *)
(***************************************************************************)
EXTENDS Numeric

CONSTANTS
    GroupWidth,     \* kGroupWidth
    Threshold       \* kCelMapIndexThreshold

ASSUME MapTableAssumption == GroupWidth \in Nat /\ GroupWidth >= 2 /\ Threshold \in Nat

Unknown == [kind |-> "unknown"]
AString(s) == [kind |-> "string", s |-> s]
Poisoned(v) == v.kind \in {"error", "unknown"}

is_valid_map_key_kind(k) == k.kind \in {"bool", "int", "uint", "string"}

cel_map_key_eq(a, b) ==
    IF Numeric(a) /\ Numeric(b) THEN cel_numeric_key_eq(a, b) ELSE a.kind = b.kind /\ a = b

\* What cel_mix64 and cel_hash_bytes are given; kinds other than numbers are
\* salted apart.
cel_map_key_hash(k) ==
    CASE Numeric(k)        -> NumericKeyHash(k)
      [] k.kind = "bool"   -> <<"bool", k.b>>
      [] k.kind = "string" -> <<"string", k.s>>

-----------------------------------------------------------------------------
(* The index. *)

NoIndex == [ctrl |-> <<>>, slots |-> <<>>]
Empty == -1     \* kEmpty: no h2 has its value

cel_map_index_num_slots(count) ==
    LET needed == (count * GroupWidth + GroupWidth - 2) \div (GroupWidth - 1) IN
    CHOOSE s \in {GroupWidth * 2^e : e \in 0 .. count} :
        s >= needed /\ (s = GroupWidth \/ s \div 2 < needed)

ctrl_total_bytes(n) == n + GroupWidth - 1
index_block_bytes(n) == ((ctrl_total_bytes(n) + 3) \div 4) * 4 + 4 * n

Lanes == 0 .. GroupWidth - 1
cel_group_load(ctrl, seq) == [l \in Lanes |-> ctrl[seq + l]]

\* The borrow of the SWAR subtraction runs from a matching lane into a next
\* lane that differs from h2 in the lowest bit only: a false match.
group_match(g, h2) ==
    LET m[l \in Lanes] ==
            g[l] = h2 \/ (g[l] = 1 - h2 /\ l > 0 /\ m[l - 1])
    IN  {l \in Lanes : m[l]}

group_match_empty(g) == {l \in Lanes : g[l] = Empty}

\* The start of the j-th group probed: steps of one group, two groups, ...
ProbeStart(h1, n, j) == (h1 + GroupWidth * ((j * (j + 1)) \div 2)) % n

\* One round of the probe loop for a key, over the index x of the entries e.
Round(e, x, n, key, h, j) ==
    LET seq == ProbeStart(h.h1, n, j)
        g == cel_group_load(x.ctrl, seq)
        slot(l) == (seq + l) % n
    IN  [hits |-> {l \in group_match(g, h.h2) :
                     cel_map_key_eq(e[x.slots[slot(l)]].k, key)},
         empties |-> group_match_empty(g), seq |-> seq]

Lowest(S) == CHOOSE l \in S : \A m \in S : l <= m

\* The round in which the loop stops, or one without a match or an empty slot
\* if it never does: the rounds repeat after n / GroupWidth of them.
FirstStop(rounds) ==
    LET stops == {j \in DOMAIN rounds : rounds[j].hits \cup rounds[j].empties # {}}
    IN  rounds[IF stops = {} THEN 0 ELSE Lowest(stops)]
LastRound(e, x, n, key, h) == FirstStop([j \in 0 .. n - 1 |-> Round(e, x, n, key, h, j)])

NotFound == 0
Hangs == -1
FirstOf(S) == IF S = {} THEN NotFound ELSE Lowest(S)

\* The entry a lookup's last round of an index of n slots gives.
FoundIn(x, n, r) ==
    IF r.hits # {} THEN x.slots[(r.seq + Lowest(r.hits)) % n]
    ELSE IF r.empties # {} THEN NotFound ELSE Hangs

\* Mutant: the probe gives up after its first group.
FindInFirstGroup(m, key, hash) ==
    LET n == cel_map_index_num_slots(Len(m.e)) IN
    FoundIn(m.ix, n, [Round(m.e, m.ix, n, key, hash[cel_map_key_hash(key)], 0)
                        EXCEPT !.empties = Lanes])

\* hash maps each token to the pair of cel_h1 and cel_h2.
cel_map_index_find(m, key, hash) ==
    LET n == cel_map_index_num_slots(Len(m.e)) IN
    FoundIn(m.ix, n, LastRound(m.e, m.ix, n, key, hash[cel_map_key_hash(key)]))

\* Slot s takes entry i; the control bytes of the first group are mirrored
\* behind the last.
Occupy(x, n, s, h2, i) ==
    [ctrl |-> [b \in DOMAIN x.ctrl |->
                 IF b = s \/ (s < GroupWidth - 1 /\ b = s + n) THEN h2 ELSE x.ctrl[b]],
     slots |-> [x.slots EXCEPT ![s] = i]]

Placed(x, n, i, h, r) ==
    IF r.hits # {} THEN [dup |-> TRUE, ix |-> x]
    ELSE [dup |-> FALSE, ix |-> Occupy(x, n, (r.seq + Lowest(r.empties)) % n, h.h2, i)]

PlaceHashed(e, x, n, i, h) == Placed(x, n, i, h, LastRound(e, x, n, e[i].k, h))
index_place_entry(e, x, n, i, hash) == PlaceHashed(e, x, n, i, hash[cel_map_key_hash(e[i].k)])

\* The index of the entries, built in their order; dup when two keys agree.
PlaceAll(e, n, hash) ==
    FoldLeft(LAMBDA acc, i : IF acc.dup THEN acc ELSE index_place_entry(e, acc.ix, n, i, hash),
             [dup |-> FALSE, ix |-> [ctrl |-> [b \in 0 .. ctrl_total_bytes(n) - 1 |-> Empty],
                                     slots |-> [s \in 0 .. n - 1 |-> 0]]],
             [i \in 1 .. Len(e) |-> i])

-----------------------------------------------------------------------------
(* The map.  An arena of room bytes is threaded through: every operation    *)
(* returns what becomes of the slot and of the room.                        *)

Align8(n) == ((n + 7) \div 8) * 8
HeaderBytes == 16
EntryBytes == 48
CellBytes == 24
StateBytes == 16
OptionalBytes == 32

Fits(room, bytes) == Align8(bytes) <= room
Left(room, bytes) == room - Align8(bytes)

Overflow == AnErr("overflow")

\* cel_map_create and cel_list_create: header first, then the run.
Create(kind, room, cap, stride) ==
    IF ~Fits(room, HeaderBytes) THEN [v |-> Overflow, room |-> room]
    ELSE LET r == Left(room, HeaderBytes) IN
         IF cap > 0 /\ ~Fits(r, stride * cap) THEN [v |-> Overflow, room |-> r]
         ELSE [v |-> IF kind = "map"
                       THEN [kind |-> kind, e |-> <<>>, cap |-> cap, ix |-> NoIndex]
                       ELSE [kind |-> kind, e |-> <<>>, cap |-> cap],
               room |-> IF cap > 0 THEN Left(r, stride * cap) ELSE r]

cel_map_create(room, cap) == Create("map", room, cap, EntryBytes)

Entry(k, v) == [k |-> k, v |-> v]
Position(e, key) == {i \in 1 .. Len(e) : cel_map_key_eq(e[i].k, key)}

\* What an insert writes over the map before it looks at the entries.
Refusal(k, v) ==
    IF Poisoned(k) THEN {k} ELSE IF Poisoned(v) THEN {v}
    ELSE IF ~is_valid_map_key_kind(k) THEN {AnErr("type_mismatch")} ELSE {}

\* A literal's insert: keys are unique, the capacity is the entry count.
cel_map_insert(m, k, v) ==
    IF m.kind # "map" THEN m
    ELSE IF Refusal(k, v) # {} THEN CHOOSE p \in Refusal(k, v) : TRUE
    ELSE IF Position(m.e, k) # {} THEN AnErr("duplicate_key")
    ELSE IF Len(m.e) >= m.cap THEN Overflow
    ELSE [m EXCEPT !.e = Append(@, Entry(k, v))]

NewCapacity(m) == IF m.cap # 0 THEN 2 * m.cap ELSE 4

\* The run is copied to one of twice the capacity and the index is dropped.
arena_map_grow_one(m, room) ==
    IF Fits(room, EntryBytes * NewCapacity(m))
      THEN [m |-> [m EXCEPT !.cap = NewCapacity(m), !.ix = NoIndex], ok |-> TRUE,
            room |-> Left(room, EntryBytes * NewCapacity(m))]
      ELSE [m |-> m, ok |-> FALSE, room |-> room]

Trap == [kind |-> "trap"]

\* A comprehension's insert: the last write of a key wins.
map_insert_at_kernel(m, k, v, grow, room) ==
    LET at == Position(m.e, k)
        bigger == arena_map_grow_one(m, room)
    IN  IF Refusal(k, v) # {} THEN [v |-> CHOOSE p \in Refusal(k, v) : TRUE, room |-> room]
        ELSE IF at # {} THEN [v |-> [m EXCEPT !.e[Lowest(at)].v = v], room |-> room]
        ELSE IF Len(m.e) < m.cap
               THEN [v |-> [m EXCEPT !.e = Append(@, Entry(k, v))], room |-> room]
        ELSE IF ~grow THEN [v |-> Trap, room |-> room]
        ELSE IF ~bigger.ok THEN [v |-> Overflow, room |-> room]
        ELSE [v |-> [bigger.m EXCEPT !.e = Append(@, Entry(k, v))], room |-> bigger.room]

\* The entries of another map, until one of them poisons the accumulator.
MergeEntries(m, es, room) ==
    LET after[i \in 0 .. Len(es)] ==
            IF i = 0 THEN [v |-> m, room |-> room]
            ELSE LET a == after[i - 1] IN
                 IF a.v.kind # "map" THEN a
                 ELSE map_insert_at_kernel(a.v, es[i].k, es[i].v, TRUE, a.room)
    IN  after[Len(es)]

\* cel_map_index_build.  Out of room, the map stays without an index.
cel_map_index_build(m, room, hash) ==
    LET n == cel_map_index_num_slots(Len(m.e))
        Indexed(built) == IF built.dup THEN AnErr("duplicate_key") ELSE [m EXCEPT !.ix = built.ix]
    IN  IF m.kind # "map" \/ Len(m.e) < Threshold THEN [v |-> m, room |-> room]
        ELSE IF ~Fits(room, index_block_bytes(n))
               THEN [v |-> [m EXCEPT !.ix = NoIndex], room |-> room]
        ELSE [v |-> Indexed(PlaceAll(m.e, n, hash)), room |-> Left(room, index_block_bytes(n))]

\* The entry lookups and memberships read: through the index or by a scan.
FindEntry(m, key, hash) ==
    IF m.ix # NoIndex THEN cel_map_index_find(m, key, hash)
    ELSE FirstOf(Position(m.e, key))

Hanging == [kind |-> "hang"]
ValueAt(m, i) ==
    CASE i = Hangs -> Hanging [] i = NotFound -> AnErr("no_such_key") [] OTHER -> m.e[i].v
IsAt(i) == IF i = Hangs THEN Hanging ELSE ABool(i # NotFound)

cel_map_lookup_arena(m, key, hash) ==
    IF Poisoned(key) THEN key ELSE IF Poisoned(m) THEN m
    ELSE ValueAt(m, FindEntry(m, key, hash))

\* The key is no error or unknown here; absorb_3vl_binary is in ThreeValued.
cel_map_in_arena(m, key, hash) ==
    IF Poisoned(m) THEN m ELSE IsAt(FindEntry(m, key, hash))
=============================================================================
