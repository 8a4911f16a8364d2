----------------------------- MODULE Collections -----------------------------
(***************************************************************************)
(* Building and using one collection, the way the generated code does it   *)
(* (expr_lower.cc, expr_lower_comprehension.cc): a literal creates the map *)
(* or list and inserts its entries, unless it is constant and was packed   *)
(* when the program was compiled; a comprehension opens a walk over its source   *)
(* (an arena or a host collection), creates the accumulator with the       *)
(* source's count and inserts, appends or merges once per element; the     *)
(* index is built last and then the collection is read.  The arena has     *)
(* room bytes left, so any allocation on the way may fail.                 *)
(***************************************************************************)
EXTENDS StaticMemory

CONSTANTS
    Keys,       \* what key expressions evaluate to
    Queries,    \* the keys looked up afterwards
    Vals,       \* what value expressions evaluate to
    Preds,      \* what predicates evaluate to
    Sources,    \* the ranges of comprehensions
    Merged,     \* what the entry expressions of transformMapEntry evaluate to
    Rooms,      \* the bytes the arena may have left
    Hashes,     \* the functions the mixer may be, from tokens to h1 and h2
    Constants,  \* the entries of constant map literals
    MaxLiteral  \* entries of a literal

\* What a comprehension ranges over and what it merges has a length.
ASSUME CollectionsAssumption ==
    /\ MaxLiteral \in Nat /\ Rooms \subseteq Nat
    /\ \A s \in Sources : Poisoned(s) \/ (s.kind \in {"list", "map"} /\ Len(s.e) \in Nat)
    /\ \A m \in Merged : m.kind = "map" => Len(m.e) \in Nat

VARIABLES
    phase,  \* start, fill, loop, closed, read, trapped
    mode,   \* literal, optlit, listlit, insert, merge or append
    baked,  \* the entries or elements of the constant literal in use
    todo,   \* the entries a literal still inserts
    view,   \* the walk: its elements, the cursor, the source, what was lost
    acc,    \* the slot the collection is built in
    room,   \* bytes left in the arena
    hash,   \* the mixer
    answer  \* the last question and what was read

vars == <<phase, mode, baked, todo, view, acc, room, hash, answer>>

Null == [kind |-> "null"]
Modes == {"literal", "optlit", "listlit", "insert", "merge", "append"}
NoView == [e |-> <<>>, cur |-> 0, src |-> Null, lost |-> FALSE]
NoAnswer == [q |-> "none", n |-> 0]

Init ==
    /\ phase = "start" /\ mode \in Modes /\ baked = <<>> /\ todo = 0
    /\ view = NoView
    /\ acc = Null /\ room \in Rooms /\ hash = <<>> /\ answer = NoAnswer

-----------------------------------------------------------------------------
(* Optional values (cel_optional.c). *)

None == [kind |-> "optional", present |-> FALSE, inner |-> Null]
Some(v) == [kind |-> "optional", present |-> TRUE, inner |-> v]

is_zero_value(v) ==
    CASE v.kind = "null" -> TRUE
      [] Numeric(v) -> v.n = 0
      [] v.kind = "bool" -> ~v.b
      [] v.kind = "string" -> v.s = ""
      [] v.kind \in {"map", "list"} -> v.e = <<>>
      [] v.kind = "optional" -> ~v.present \/ (Numeric(v.inner) /\ v.inner.n = 0)
      [] OTHER -> FALSE

\* optional.ofNonZeroValue, on a cell when there is room.
cel_optional_of_non_zero(v, r) ==
    IF Poisoned(v) THEN v
    ELSE IF ~Fits(r, OptionalBytes) THEN Overflow
    ELSE IF is_zero_value(v) THEN None ELSE Some(v)

\* Mutant: an index past the end is not taken for an absent element.
FinalizeKeysOnly(v) ==
    IF v = AnErr("no_such_key") THEN None ELSE IF Poisoned(v) THEN v ELSE Some(v)

\* An absent key or index becomes none; other errors stay.
finalize_lookup_result(v) ==
    IF v.kind = "error" /\ v.err \in {"no_such_key", "index_out_of_bounds", "field_not_found"}
      THEN None ELSE IF Poisoned(v) THEN v ELSE Some(v)

\* cel_select_optional_field_at_vv on an arena map or list; found is what
\* the underlying lookup writes into the cell.
SelectOptional(found, r) ==
    IF Fits(r, OptionalBytes) THEN finalize_lookup_result(found) ELSE Overflow

cel_optional_or_value(opt, dflt) ==
    IF Poisoned(opt) THEN opt ELSE IF opt.present THEN opt.inner ELSE dflt

-----------------------------------------------------------------------------
(* Literals. *)

StartLiteral(n) ==
    LET c == IF mode = "listlit" THEN Create("list", room, n, CellBytes) ELSE cel_map_create(room, n) IN
    /\ phase = "start" /\ mode \in {"literal", "optlit", "listlit"}
    /\ acc' = c.v /\ room' = c.room
    /\ phase' = "fill" /\ todo' = n
    /\ UNCHANGED <<mode, baked, view, hash, answer>>

\* One entry is done: r is what became of the slot.
Filled(r) ==
    /\ phase = "fill" /\ todo > 0
    /\ acc' = r /\ todo' = todo - 1
    /\ phase' = IF r.kind = "trap" THEN "trapped" ELSE phase
    /\ UNCHANGED <<mode, baked, view, hash, answer>>

InsertEntry(k, v) ==
    /\ mode \in {"literal", "optlit"} /\ Filled(cel_map_insert(acc, k, v)) /\ UNCHANGED room

cel_list_append_at(l, v, r) ==
    IF Poisoned(v) THEN [v |-> v, room |-> r]
    ELSE IF Len(l.e) >= l.cap THEN [v |-> Trap, room |-> r]
    ELSE [v |-> [l EXCEPT !.e = Append(@, v)], room |-> r]

AppendElement(v) ==
    /\ mode = "listlit"
    /\ Filled(IF acc.kind # "list" THEN acc ELSE cel_list_append_at(acc, v, room).v)
    /\ UNCHANGED room

\* absorb_optional_predicate: what an entry of {?k: x} or [?x] makes of the
\* slot, where x is optional.ofNonZeroValue(v) and full the slot with v in it.
IfPresent(kind, v, full) ==
    LET opt == cel_optional_of_non_zero(v, room) IN
    /\ room' = IF opt.kind = "optional" THEN Left(room, OptionalBytes) ELSE room
    /\ Filled(IF acc.kind # kind THEN acc
              ELSE IF Poisoned(opt) THEN opt
              ELSE IF opt.present THEN full ELSE acc)

\* cel_map_insert_at_if_present.  Its insert is the comprehensions': it
\* overwrites.
InsertIfPresent(k, v) ==
    mode = "optlit" /\ IfPresent("map", v, map_insert_at_kernel(acc, k, v, FALSE, room).v)

\* cel_list_append_at_if_present.
AppendIfPresent(v) ==
    mode = "listlit" /\ IfPresent("list", v, cel_list_append_at(acc, v, room).v)

\* ConstAggregateVisitor: a literal of literals was packed; the generated
\* code only names it.
UseConstantMap(es, stages, h) ==
    /\ phase = "start" /\ mode = "literal"
    /\ \A i \in 1 .. Len(es) : IsConstMaterializable(es[i].k) /\ IsConstMaterializable(es[i].v)
    /\ acc' \in MaterializeMap(es, stages, h)
    /\ phase' = "closed" /\ baked' = es /\ hash' = IF acc'.ix = NoIndex THEN hash ELSE h
    /\ UNCHANGED <<mode, todo, view, room, answer>>

UseConstantList(vs) ==
    /\ phase = "start" /\ mode = "listlit"
    /\ \A i \in 1 .. Len(vs) : IsConstMaterializable(vs[i])
    /\ acc' = MaterializeList(vs)
    /\ phase' = "closed" /\ baked' = vs
    /\ UNCHANGED <<mode, todo, view, room, hash, answer>>

-----------------------------------------------------------------------------
(* Walks. *)

OomView(src) == [e |-> <<Overflow>>, cur |-> 0, src |-> src, lost |-> TRUE]
EmptyView(src) == [e |-> <<>>, cur |-> 0, src |-> src, lost |-> src.e # <<>>]
WholeView(src) == [e |-> src.e, cur |-> 0, src |-> src, lost |-> FALSE]

\* CelListIterOpenImpl: out of room for the elements it falls back to an
\* empty list, out of room for that list's header the call fails.
CelListIterOpen(src, r) ==
    LET n == CellBytes * Len(src.e)
        after == IF ~Fits(r, HeaderBytes) THEN r ELSE Left(r, HeaderBytes)
    IN  IF src.e # <<>> /\ Fits(r, HeaderBytes) /\ Fits(after, n)
          THEN {[view |-> WholeView(src), room |-> Left(after, n)]}
        ELSE IF Fits(after, HeaderBytes) \/ (src.e = <<>> /\ Fits(r, HeaderBytes))
          THEN {[view |-> EmptyView(src),
                 room |-> IF src.e = <<>> THEN after ELSE Left(after, HeaderBytes)]}
        ELSE {}

\* cel_list_arena_view: an arena list is walked in place.  The one-element
\* view of vend_poison_list_view is then in the emergency block.
cel_list_arena_view(src, r) ==
    IF src.origin = "arena" THEN {[view |-> WholeView(src), room |-> r]}
    ELSE IF ~Fits(r, CellBytes)
      THEN {[view |-> OomView(src), room |-> r]}
    ELSE CelListIterOpen(src, Left(r, CellBytes))

\* Mutant: only arena maps are counted.
CountArenaOnly(src, r) ==
    IF src.origin = "arena" THEN [n |-> Len(src.e), room |-> r] ELSE [n |-> 0, room |-> r]

\* cel_map_count: the capacity of the accumulator; 0 when the host cannot be
\* asked.
cel_map_count(src, r) ==
    IF src.origin = "arena" THEN [n |-> Len(src.e), room |-> r]
    ELSE IF Fits(r, CellBytes) THEN [n |-> Len(src.e), room |-> Left(r, CellBytes)]
    ELSE [n |-> 0, room |-> r]

\* CelMapIterOpenImpl: a snapshot of the entries, or an empty state.
CelMapIterOpen(src, r) ==
    IF src.e # <<>> /\ Fits(r, EntryBytes * Len(src.e))
      THEN [view |-> WholeView(src), room |-> Left(r, EntryBytes * Len(src.e))]
      ELSE [view |-> EmptyView(src), room |-> r]

cel_map_iter_init(src, r) ==
    IF src.origin = "arena" /\ src.e = <<>> THEN [view |-> EmptyView(src), room |-> r]
    ELSE IF ~Fits(r, StateBytes)
      THEN [view |-> OomView(src), room |-> r]
    ELSE IF src.origin = "arena"
      THEN [view |-> WholeView(src), room |-> Left(r, StateBytes)]
    ELSE CelMapIterOpen(src, Left(r, StateBytes))

CreateAcc(r, n) ==
    IF mode = "append" THEN Create("list", r, n, CellBytes) ELSE cel_map_create(r, n)

\* A list is opened before the accumulator is sized, a map after.
OpenWalk(src) ==
    IF src.kind = "list"
      THEN {[view |-> o.view, made |-> CreateAcc(o.room, Len(o.view.e))] :
              o \in cel_list_arena_view(src, room)}
      ELSE LET c == cel_map_count(src, room)
               made == CreateAcc(c.room, c.n)
               o == cel_map_iter_init(src, made.room)
           IN  {[view |-> o.view, made |-> [v |-> made.v, room |-> o.room]]}

\* Mutant: the range is not tested for an error or an unknown.
StartWalkUnguarded(src) ==
    /\ phase = "start" /\ mode \in {"insert", "merge", "append"}
    /\ LET s == IF Poisoned(src) THEN [kind |-> "list", origin |-> "arena", e |-> <<>>] ELSE src IN
       \E o \in OpenWalk(s) :
            /\ view' = [o.view EXCEPT !.src = src] /\ acc' = o.made.v /\ room' = o.made.room
            /\ phase' = "loop"
    /\ UNCHANGED <<mode, baked, todo, hash, answer>>

\* EmitRangeAbsorptionGuard: a poisoned range is the result.
StartWalk(src) ==
    /\ phase = "start" /\ mode \in {"insert", "merge", "append"}
    /\ \/ /\ Poisoned(src)
          /\ acc' = src /\ view' = [NoView EXCEPT !.src = src] /\ room' = room
          /\ phase' = "closed"
       \/ /\ ~Poisoned(src)
          /\ \E o \in OpenWalk(src) :
               /\ view' = o.view /\ acc' = o.made.v /\ room' = o.made.room
               /\ phase' = "loop"
       \/ /\ ~Poisoned(src) /\ OpenWalk(src) = {}
          /\ acc' = [kind |-> "status"] /\ view' = OomView(src) /\ room' = room
          /\ phase' = "trapped"
    /\ UNCHANGED <<mode, baked, todo, hash, answer>>

Walking == phase = "loop" /\ view.cur < Len(view.e)

\* An expression of the body: it reads the element, which is an error in a
\* walk that found no room, or it does not.
Body(v) == IF view.lost THEN {v, Overflow} ELSE {v}

Advance(r) ==
    /\ view' = [view EXCEPT !.cur = @ + 1]
    /\ acc' = r.v /\ room' = r.room
    /\ phase' = IF r.v.kind = "trap" THEN "trapped" ELSE phase
    /\ UNCHANGED <<mode, baked, todo, hash, answer>>

Kept(r) == [v |-> r, room |-> room]

\* What a predicate makes of an accumulator; the _if_bool kernels.
Gate(p, step) ==
    IF Poisoned(p) THEN Kept(p)
    ELSE IF p.kind # "bool" THEN Kept(AnErr("type_mismatch"))
    ELSE IF p.b THEN step ELSE Kept(acc)

\* transformMap: cel_map_insert_at and cel_map_insert_at_if_bool.
VisitInsert(p, k, v) ==
    /\ Walking /\ mode = "insert"
    /\ \E pb \in Body(p), kb \in Body(k), vb \in Body(v) :
         Advance(IF acc.kind # "map" THEN Kept(acc)
                 ELSE Gate(pb, map_insert_at_kernel(acc, kb, vb, FALSE, room)))

\* cel_map_merge_at: the entries of an arena map, or of a walk over a host map.
cel_map_merge_at(m, entry, r) ==
    LET o == cel_map_iter_init(entry, r) IN
    IF Poisoned(entry) THEN [v |-> entry, room |-> r]
    ELSE IF entry.kind # "map" THEN [v |-> AnErr("type_mismatch"), room |-> r]
    ELSE IF entry.origin = "arena" THEN MergeEntries(m, entry.e, r)
    ELSE IF o.view.e = <<>> THEN [v |-> m, room |-> o.room]
    ELSE IF ~Fits(o.room, 2 * CellBytes) THEN [v |-> Overflow, room |-> o.room]
    ELSE MergeEntries(m, IF o.view.lost THEN <<Entry(Overflow, Overflow)>> ELSE o.view.e,
                      Left(o.room, 2 * CellBytes))

VisitMerge(p, entry) ==
    /\ Walking /\ mode = "merge"
    /\ \E pb \in Body(p), eb \in Body(entry) :
         Advance(IF acc.kind # "map" THEN Kept(acc)
                 ELSE Gate(pb, cel_map_merge_at(acc, eb, room)))

\* map, filter and transformList.
VisitAppend(p, v) ==
    /\ Walking /\ mode = "append"
    /\ \E pb \in Body(p), vb \in Body(v) :
         Advance(IF acc.kind # "list" THEN Kept(acc)
                 ELSE Gate(pb, cel_list_append_at(acc, vb, room)))

-----------------------------------------------------------------------------
(* Completion and reading. *)

Complete ==
    \/ phase = "fill" /\ todo = 0
    \/ phase = "loop" /\ view.cur = Len(view.e)

BuildIndex(h) ==
    /\ Complete /\ mode \notin {"append", "listlit"}
    /\ \E b \in {cel_map_index_build(acc, room, h)} :
         /\ acc' = b.v /\ room' = b.room
         /\ hash' = IF b.room = room THEN hash ELSE h
    /\ phase' = "closed"
    /\ UNCHANGED <<mode, baked, todo, view, answer>>

CloseList ==
    /\ Complete /\ mode \in {"append", "listlit"} /\ phase' = "closed"
    /\ UNCHANGED <<mode, baked, todo, view, acc, room, hash, answer>>

\* The number a key denotes, whatever its kind, or the key itself; a double
\* that is no integer names nothing.
NameOf(k) ==
    IF k.kind = "double" THEN IF Known(k) /\ k.n % 2 = 0 THEN <<"num", k.n \div 2>> ELSE <<"nothing", k.n>>
    ELSE IF Numeric(k) THEN <<"num", k.n>> ELSE <<k.kind, k>>

Reply(v) ==
    IF v = AnErr("no_such_key") \/ v = AnErr("index_out_of_bounds") THEN {} ELSE {v}

\* cel_map_lookup_arena, cel_map_in_arena, cel_map_size_arena and m[?k].
AskKey(k) ==
    /\ phase = "closed" /\ acc.kind = "map"
    /\ \E found \in {cel_map_lookup_arena(acc, k, hash)} :
       answer' = [q |-> "key", n |-> NameOf(k), found |-> Reply(found),
                  isin |-> cel_map_in_arena(acc, k, hash),
                  sel |-> SelectOptional(found, room), size |-> Len(acc.e)]
    /\ phase' = "read"
    /\ UNCHANGED <<mode, baked, todo, view, acc, room, hash>>

\* cel_list_at_arena and cel_list_size_arena; i is one above the index.
AskAt(i) ==
    /\ phase = "closed" /\ acc.kind = "list"
    /\ LET found == IF i \in 1 .. Len(acc.e) THEN acc.e[i] ELSE AnErr("index_out_of_bounds") IN
       answer' = [q |-> "at", n |-> i, found |-> Reply(found),
                  isin |-> ABool(i \in 1 .. Len(acc.e)),
                  sel |-> SelectOptional(found, room), size |-> Len(acc.e)]
    /\ phase' = "read"
    /\ UNCHANGED <<mode, baked, todo, view, acc, room, hash>>

Next ==
    \/ \E n \in 0 .. MaxLiteral : StartLiteral(n)
    \/ \E k \in Keys, v \in Vals : InsertEntry(k, v) \/ InsertIfPresent(k, v)
    \/ \E v \in Vals : AppendElement(v) \/ AppendIfPresent(v)
    \/ \E es \in Constants, stages \in BOOLEAN, h \in Hashes : UseConstantMap(es, stages, h)
    \/ \E es \in Constants : UseConstantList([i \in 1 .. Len(es) |-> es[i].v])
    \/ \E s \in Sources : StartWalk(s)
    \/ \E p \in Preds, k \in Keys, v \in Vals : VisitInsert(p, k, v)
    \/ \E p \in Preds, m \in Merged : VisitMerge(p, m)
    \/ \E p \in Preds, v \in Vals : VisitAppend(p, v)
    \/ \E h \in Hashes : BuildIndex(h)
    \/ CloseList
    \/ \E k \in Queries : AskKey(k)
    \/ \E i \in 0 .. MaxLiteral : AskAt(i)

Spec == Init /\ [][Next]_vars

-----------------------------------------------------------------------------
Abstract(v) ==
    CASE v.kind = "map"  -> [is |-> "dict",
                             at |-> [n \in {NameOf(v.e[i].k) : i \in 1 .. Len(v.e)} |->
                                       v.e[CHOOSE i \in 1 .. Len(v.e) : NameOf(v.e[i].k) = n].v]]
      [] v.kind = "list" -> [is |-> "items", of |-> v.e]
      [] v.kind = "null" -> [is |-> "items", of |-> <<>>]
      [] OTHER           -> [is |-> "failure", by |-> v]

Contract == INSTANCE CollectionContract WITH
    stage   <- CASE phase = "start" -> "none" [] phase \in {"fill", "loop"} -> "open"
                 [] OTHER -> "closed",
    strict  <- mode = "literal",
    content <- Abstract(acc),
    answer  <- IF answer.q = "none" THEN answer
               ELSE [q |-> answer.q, n |-> answer.n, found |-> answer.found, size |-> answer.size]

\* The generated code's steps on the map header, its entries and its index, or
\* on the list header, implement a dictionary by the number or string a key
\* denotes, or a sequence: whatever the hash, a read through the index stops
\* and finds what is under the key, a literal never takes a key twice and growth
\* loses nothing (cel_map_index_find, cel_map_insert, map_insert_at_kernel,
\* arena_map_grow_one).  A key that comes again in a comprehension or an optional
\* entry replaces what was under it, where known_bugs_test.cc:522-555 (CELW-0011)
\* asserts an error: the contract names that step, and allows no other.
ImplementsContract == Contract!Spec

\* A comprehension over an error or an unknown is that error or unknown, with
\* every kind of accumulator, and never the result over an empty range
\* (EmitRangeAbsorptionGuard).
PoisonedRangeIsResult == phase = "closed" /\ Poisoned(view.src) => acc = view.src

\* The capacity computed before the loop covers every insert and append, so
\* __builtin_trap is not reached by a walk that opened (EmitPresizeAccu,
\* cel_map_count, cel_list_append_at, map_insert_at_kernel).
PresizeSuffices == phase = "trapped" => view.lost

\* m[?k] has a value exactly when k is in m, and orValue then gives what m[k]
\* gives, unless the cell found no room; the same for list indexes
\* (cel_select_optional_field_at_vv, cel_map_in_arena, cel_map_lookup_arena).
OptionalAgrees ==
    answer.q # "none" =>
        /\ answer.isin = ABool(answer.found # {})
        /\ answer.sel = Overflow
             \/ \A v \in Vals : cel_optional_or_value(answer.sel, v)
                                 \in (IF answer.found = {} THEN {v} ELSE answer.found)

\* A packed map is, slot by slot of its index, what the generated code would
\* have built from the same entries, and a packed list too, as long as no key
\* is of a kind the build refuses (MaterializeMap, PlaceBakedEntry,
\* cel_map_index_build).
BakedIsBuilt ==
    phase = "closed" /\ baked # <<>> =>
        IF mode = "listlit"
          THEN acc = FoldLeft(LAMBDA l, v : cel_list_append_at(l, v, 0).v, [acc EXCEPT !.e = <<>>], baked)
          ELSE LET empty == [kind |-> "map", e |-> <<>>, cap |-> Len(baked), ix |-> NoIndex]
                   filled == FoldLeft(LAMBDA m, x : cel_map_insert(m, x.k, x.v), empty, baked)
               IN  (\A i \in 1 .. Len(baked) : is_valid_map_key_kind(baked[i].k)) =>
                      acc = cel_map_index_build(filled, index_block_bytes(8 * Len(baked)), hash).v

\* A walk that found no room for its elements ends in an error, never in a
\* collection.
ExhaustionSurfaces == phase = "closed" /\ view.lost => Poisoned(acc)
=============================================================================
