------------------------------- MODULE Equality -------------------------------
(***************************************************************************)
(* Deep equality, membership and concatenation, on both sides of the       *)
(* boundary: the runtime's kernels (cel_runtime.c) for values in the arena *)
(* and the host's walks (cel_host_eq.cc, cel_host_list.cc, cel_host_map.cc)*)
(* as soon as an operand is backed by the host.                            *)
(*                                                                         *)
(* A list or map has its origin and its elements.  What a host backing     *)
(* holds are native values, which are encoded when they are read: nested   *)
(* aggregates as handles of host origin, times as seconds and fraction.    *)
(* Messages are host objects on both sides.  The scratch cell of the       *)
(* arena walk is always allocated here; the linear arm of map equality     *)
(* stands for the indexed one (module Collections).                        *)
(***************************************************************************)
EXTENDS TimeKernels

AList(org, e) == [kind |-> "list", org |-> org, e |-> e]
AMap(org, e)  == [kind |-> "map", org |-> org, e |-> e]
AnOptional(c) == [kind |-> "optional", c |-> c]
\* type is the descriptor, "custom" for a backing without a proto; any tells
\* that it is packed, and a body of "corrupt" cannot be unpacked.
AMessage(type, body, any) == [kind |-> "message", type |-> type, body |-> body, any |-> any]
NativeTime(kind, ticks) == [kind |-> kind, ticks |-> ticks]

RECURSIVE equality_kernel(_, _), WireValueEq(_, _)

is_scalar_eq_kind(v) == v.kind \notin {"list", "map", "message", "optional", "type"}

\* cel_value_eq, and equal_same_kind for the kinds without parts.
cel_value_eq(a, b) ==
    IF Numeric(a) /\ Numeric(b) THEN numeric_compare_kernel(a, b) = "equal"
    ELSE a.kind = b.kind /\ a = b

\* PeelAnyForEq and CompareProtoMessages.
CompareProtoMessages(a, b) ==
    CASE a.type = "custom" \/ b.type = "custom" -> "not_comparable"
      [] (a.any /\ a.body = "corrupt") \/ (b.any /\ b.body = "corrupt") -> "not_comparable"
      [] OTHER -> IF a.type = b.type /\ a.body = b.body THEN "equal" ELSE "unequal"

-----------------------------------------------------------------------------
(* The host's walks *)

\* EncodeBackingElement: what the wire holds for a native value.
Encode(v) ==
    IF v.kind \in {"timestamp", "duration"} THEN DecomposeAbslDuration(v.kind, v.ticks) ELSE v

\* ReadListEqElementAt and SnapshotMapEntries, for either origin.
Elements(l) == IF l.org = "arena" THEN l.e ELSE [i \in DOMAIN l.e |-> Encode(l.e[i])]
Entries(m) ==
    IF m.org = "arena" THEN m.e
    ELSE [i \in DOMAIN m.e |-> [k |-> Encode(m.e[i].k), v |-> Encode(m.e[i].v)]]

\* HostScalarSameKindEq has no arm for types, optionals and addresses.
HostScalarValueEq(a, b) ==
    IF a.kind = b.kind
      THEN a.kind \notin {"type", "optional"}
             /\ IF a.kind = "double" THEN DEq(a.n, b.n) ELSE a = b
      ELSE Numeric(a) /\ Numeric(b) /\ numeric_compare_kernel(a, b) = "equal"

HostMapKeyEq(a, b) ==
    IF Numeric(a) /\ Numeric(b) THEN cel_numeric_key_eq(a, b) ELSE HostScalarValueEq(a, b)

\* Mutant: nested aggregates compare as the scalars do.
ListEqElementScalar(a, b) == HostScalarValueEq(a, b)

ListEqElementEquals(a, b) ==
    IF a.kind = "message" /\ b.kind = "message" THEN CompareProtoMessages(a, b) = "equal"
    ELSE a.kind # "message" /\ b.kind # "message" /\ WireValueEq(a, b)

ListsEqual(a, b) ==
    /\ Len(a.e) = Len(b.e)
    /\ \A i \in DOMAIN a.e : ListEqElementEquals(Elements(a)[i], Elements(b)[i])

\* The first entry with the key decides; at are the positions that match.
FirstValue(b, at) == {b[j].v : j \in {i \in at : \A l \in at : i <= l}}

NormalizedMapEntryMatches(entry, b) ==
    \E v \in FirstValue(b, {j \in DOMAIN b : HostMapKeyEq(entry.k, b[j].k)}) :
        WireValueEq(entry.v, v)

NormalizedMapEq(a, b) ==
    /\ Len(a.e) = Len(b.e)
    /\ \A i \in DOMAIN a.e : NormalizedMapEntryMatches(Entries(a)[i], Entries(b))

WireValueEq(a, b) ==
    CASE a.kind = "list" /\ b.kind = "list"       -> ListsEqual(a, b)
      [] a.kind = "map" /\ b.kind = "map"         -> NormalizedMapEq(a, b)
      [] a.kind = "message" /\ b.kind = "message" -> CompareProtoMessages(a, b) = "equal"
      [] {a.kind, b.kind} \cap {"list", "map", "message"} # {} /\ a.kind # b.kind -> FALSE
      [] OTHER                                    -> HostScalarValueEq(a, b)

\* A native element against a value on the wire.  The seconds of a timestamp
\* are rounded down here, and toward zero where values are encoded.
BackingValueEqualsQuery(v, query) ==
    CASE Numeric(v) -> IF v.kind = query.kind
                         THEN IF v.kind = "double" THEN DEq(v.n, query.n) ELSE v.n = query.n
                         ELSE Numeric(query) /\ numeric_compare_kernel(v, query) = "equal"
      [] v.kind = "duration"  -> query = Encode(v)
      [] v.kind = "timestamp" ->
           query = ATime("timestamp", v.ticks \div NanosPerSec, v.ticks % NanosPerSec)
      [] v.kind \in {"message", "list", "map"} -> WireValueEq(Encode(v), query)
      [] OTHER -> v.kind = query.kind /\ v = query

-----------------------------------------------------------------------------
(* The runtime's kernels and dispatchers *)

\* A verdict that is no bool counts as unequal.
deep_values_equal(a, b) ==
    IF is_scalar_eq_kind(a) /\ is_scalar_eq_kind(b) THEN cel_value_eq(a, b)
    ELSE equality_kernel(a, b) = ABool(TRUE)

cel_list_eq_arena(a, b) ==
    Len(a.e) = Len(b.e) /\ \A i \in DOMAIN a.e : deep_values_equal(a.e[i], b.e[i])

arena_map_entry_matches(entry, b) ==
    \E v \in FirstValue(b, {j \in DOMAIN b : IF Numeric(entry.k) /\ Numeric(b[j].k)
                                              THEN cel_numeric_key_eq(entry.k, b[j].k)
                                              ELSE cel_value_eq(entry.k, b[j].k)}) :
        deep_values_equal(entry.v, v)

cel_map_eq_arena(a, b) ==
    Len(a.e) = Len(b.e) /\ \A i \in DOMAIN a.e : arena_map_entry_matches(a.e[i], b.e)

BothArena(a, b) == a.org = "arena" /\ b.org = "arena"
cel_list_eq(a, b) == IF BothArena(a, b) THEN cel_list_eq_arena(a, b) ELSE ListsEqual(a, b)
cel_map_eq(a, b) == IF BothArena(a, b) THEN cel_map_eq_arena(a, b) ELSE NormalizedMapEq(a, b)

\* A cell that is empty is equal to an empty one only.
optional_eq(a, b) ==
    IF a.c = <<>> \/ b.c = <<>> THEN ABool(a.c = b.c) ELSE equality_kernel(a.c[1], b.c[1])

equality_kernel(a, b) ==
    CASE is_scalar_eq_kind(a) /\ is_scalar_eq_kind(b)  -> ABool(cel_value_eq(a, b))
      [] a.kind = "type" /\ b.kind = "type"            -> ABool(a = b)
      [] a.kind = "optional" /\ b.kind = "optional"    -> optional_eq(a, b)
      [] a.kind = "list" /\ b.kind = "list"            -> ABool(cel_list_eq(a, b))
      [] a.kind = "map" /\ b.kind = "map"              -> ABool(cel_map_eq(a, b))
      [] a.kind = "message" /\ b.kind = "message" ->
           LET c == CompareProtoMessages(a, b) IN
           IF c = "not_comparable" THEN AnErr("type_mismatch") ELSE ABool(c = "equal")
      [] OTHER                                         -> ABool(FALSE)

cel_equals(a, b) == equality_kernel(a, b)
cel_not_equals(a, b) ==
    LET Inverted(v) == IF v.kind = "bool" THEN ABool(~v.b) ELSE v
    IN  Inverted(equality_kernel(a, b))

arena_list_scan_numeric(e, needle) ==
    \E i \in DOMAIN e :
        IF e[i].kind = needle.kind
          THEN IF needle.kind = "double" THEN DEq(e[i].n, needle.n) ELSE e[i].n = needle.n
          ELSE Numeric(e[i]) /\ numeric_compare_kernel(e[i], needle) = "equal"

\* cel_list_in_arena: the scan is chosen by the kind of the needle.
cel_list_in_arena(needle, l) ==
    CASE Numeric(needle) -> arena_list_scan_numeric(l.e, needle)
      [] needle.kind \in {"string", "bool"} ->
           \E i \in DOMAIN l.e : l.e[i].kind = needle.kind /\ l.e[i] = needle
      [] OTHER -> \E i \in DOMAIN l.e : deep_values_equal(l.e[i], needle)

cel_list_in(needle, l) ==
    IF l.org = "arena" THEN cel_list_in_arena(needle, l)
    ELSE \E i \in DOMAIN l.e : BackingValueEqualsQuery(l.e[i], needle)

\* The result is an arena list whichever the operands are.
cel_list_concat(a, b) == AList("arena", Elements(a) \o Elements(b))
=============================================================================
