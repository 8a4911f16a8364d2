-------------------------- MODULE CollectionsProofs --------------------------
(***************************************************************************)
(* Why the capacity computed before a loop is enough, and why a poisoned   *)
(* range is the result (expr_lower_comprehension.cc, cel_runtime.c), for   *)
(* every range, every key, value and predicate, every size of the arena    *)
(* and every hash.                                                         *)
(*                                                                         *)
(* The inductive invariant counts what is still to come: while a literal   *)
(* is filled or a walk is under way, the entries in the collection and the *)
(* visits left do not exceed its capacity.  A merge has no such bound and  *)
(* is safe because its insert grows the map.                               *)
(***************************************************************************)
EXTENDS Collections, TLAPS, WellFoundedInduction, NaturalsInduction

IsSeq(s)  == \E T : s \in Seq(T)
IsMap(m)  == /\ IsSeq(m.e) /\ m.cap \in Nat
             /\ m = [kind |-> "map", e |-> m.e, cap |-> m.cap, ix |-> m.ix]
IsList(l) == /\ IsSeq(l.e) /\ l.cap \in Nat
             /\ l = [kind |-> "list", e |-> l.e, cap |-> l.cap]

\* A slot under construction: a map, a list, or what replaced it; no trap.
Fine(m) == /\ m.kind # "trap"
           /\ m.kind = "map" => IsMap(m)
           /\ m.kind = "list" => IsList(m)

\* There is room for n more entries.
Holds(m, n) == m.kind \in {"map", "list"} => Len(m.e) + n <= m.cap

OneMore(k, n) == k = n + 1

StartInv == phase = "start" => view = NoView /\ room \in Rooms
FillInv ==
    phase = "fill" => /\ view = NoView /\ todo \in Nat
                      /\ Fine(acc) /\ Holds(acc, todo)
LoopInv ==
    phase = "loop" =>
        /\ ~Poisoned(view.src) /\ mode \in {"insert", "merge", "append"}
        /\ view = [e |-> view.e, cur |-> view.cur, src |-> view.src, lost |-> view.lost]
        /\ Len(view.e) \in Nat /\ view.cur \in 0 .. Len(view.e)
        /\ ~view.lost => /\ Fine(acc)
                         /\ mode # "merge" => Holds(acc, Len(view.e) - view.cur)

\* The inductive invariant.
IInv == /\ StartInv /\ FillInv /\ LoopInv
        /\ PoisonedRangeIsResult /\ PresizeSuffices

-----------------------------------------------------------------------------
(* Sequences. *)

LEMMA LeastIndex ==
    ASSUME NEW S, S \subseteq Nat, S # {}
    PROVE  \E i \in S : \A j \in S : i <= j
<1>1. PICK i \in S : \A j \in S : ~(<<j, i>> \in OpToRel(<, Nat))
  BY WFMin, NatLessThanWellFounded, Zenon
<1>2. \A j \in S : ~(j < i)
  BY <1>1 DEF OpToRel
<1> QED
  BY <1>2

LEMMA AppendSeq ==
    ASSUME NEW s, IsSeq(s), NEW x
    PROVE  IsSeq(Append(s, x)) /\ Len(Append(s, x)) = Len(s) + 1 /\ Len(s) \in Nat
<1>1. PICK T : s \in Seq(T)
  BY DEF IsSeq
<1>2. s \in Seq(T \cup {x}) /\ x \in T \cup {x}
  BY <1>1
<1>3. Append(s, x) \in Seq(T \cup {x}) /\ Len(Append(s, x)) = Len(s) + 1 /\ Len(s) \in Nat
  BY <1>2
<1> QED
  BY <1>3 DEF IsSeq

LEMMA UpdateSeq ==
    ASSUME NEW s, IsSeq(s), NEW i, NEW x
    PROVE  IsSeq([s EXCEPT ![i] = x]) /\ Len([s EXCEPT ![i] = x]) = Len(s) /\ Len(s) \in Nat
<1>1. PICK T : s \in Seq(T)
  BY DEF IsSeq
<1>2. s \in Seq(T \cup {x}) /\ x \in T \cup {x}
  BY <1>1
<1>3. PICK t : t = [s EXCEPT ![i] = x]
  OBVIOUS
<1>4. DOMAIN s = 1 .. Len(s) /\ Len(s) \in Nat /\ s \in [1 .. Len(s) -> T \cup {x}]
  BY <1>2
<1>5. t \in [1 .. Len(s) -> T \cup {x}]
  BY <1>2, <1>3, <1>4
<1>6. t \in Seq(T \cup {x}) /\ Len(t) = Len(s)
  BY <1>4, <1>5
<1> QED
  BY <1>3, <1>4, <1>6 DEF IsSeq

LEMMA EmptySequence == IsSeq(<<>>) /\ Len(<<>>) = 0
<1>1. \A T : << >> \in Seq(T)
  OBVIOUS
<1>2. IsSeq(<<>>)
  BY <1>1 DEF IsSeq
<1>3. Len(<<>>) = 0
  OBVIOUS
<1> QED
  BY <1>2, <1>3

-----------------------------------------------------------------------------
(* Kernels. *)

\* What a refused insert leaves is an error or an unknown.
LEMMA RefusalFine ==
    ASSUME NEW k, NEW v, Refusal(k, v) # {}, NEW n
    PROVE  /\ Fine(CHOOSE p \in Refusal(k, v) : TRUE)
           /\ Holds(CHOOSE p \in Refusal(k, v) : TRUE, n)
<1>1. PICK q : q = (CHOOSE p \in Refusal(k, v) : TRUE)
  OBVIOUS
<1>2. q \in Refusal(k, v)
  BY <1>1
<1>3. q.kind \in {"error", "unknown"}
  BY <1>2 DEF Refusal, Poisoned, AnErr
<1> QED
  BY <1>1, <1>3 DEF Fine, Holds

LEMMA PoisonFine ==
    ASSUME NEW v, Poisoned(v), NEW n
    PROVE  Fine(v) /\ Holds(v, n)
  BY DEF Poisoned, Fine, Holds

LEMMA ErrFine ==
    ASSUME NEW c, NEW n
    PROVE  Fine(AnErr(c)) /\ Holds(AnErr(c), n)
  BY DEF AnErr, Fine, Holds

\* A map with other entries.
LEMMA WithEntries ==
    ASSUME NEW m, IsMap(m), NEW e, IsSeq(e)
    PROVE  /\ IsMap([m EXCEPT !.e = e]) /\ [m EXCEPT !.e = e].kind = "map"
           /\ [m EXCEPT !.e = e].e = e /\ [m EXCEPT !.e = e].cap = m.cap
<1>1. PICK r : r = [m EXCEPT !.e = e]
  OBVIOUS
<1>2. m = [kind |-> "map", e |-> m.e, cap |-> m.cap, ix |-> m.ix] /\ m.cap \in Nat
  BY DEF IsMap
<1>3. r = [kind |-> "map", e |-> e, cap |-> m.cap, ix |-> m.ix]
  BY <1>1, <1>2
<1>4. r.e = e /\ r.cap = m.cap /\ r.ix = m.ix /\ r.kind = "map"
  BY <1>3
<1> QED
  BY <1>1, <1>2, <1>3, <1>4 DEF IsMap

LEMMA WithElements ==
    ASSUME NEW l, IsList(l), NEW e, IsSeq(e)
    PROVE  /\ IsList([l EXCEPT !.e = e]) /\ [l EXCEPT !.e = e].kind = "list"
           /\ [l EXCEPT !.e = e].e = e /\ [l EXCEPT !.e = e].cap = l.cap
<1>1. PICK r : r = [l EXCEPT !.e = e]
  OBVIOUS
<1>2. l = [kind |-> "list", e |-> l.e, cap |-> l.cap] /\ l.cap \in Nat
  BY DEF IsList
<1>3. r = [kind |-> "list", e |-> e, cap |-> l.cap]
  BY <1>1, <1>2
<1>4. r.e = e /\ r.cap = l.cap /\ r.kind = "list"
  BY <1>3
<1> QED
  BY <1>1, <1>2, <1>3, <1>4 DEF IsList

\* A map is a map by its kind, and no list.
LEMMA MapIsFine ==
    ASSUME NEW m, IsMap(m)
    PROVE  m.kind = "map" /\ Fine(m)
<1>1. m.kind = "map"
  BY DEF IsMap
<1> QED
  BY <1>1 DEF Fine

LEMMA ListIsFine ==
    ASSUME NEW l, IsList(l)
    PROVE  l.kind = "list" /\ Fine(l)
<1>1. l.kind = "list"
  BY DEF IsList
<1> QED
  BY <1>1 DEF Fine

\* Holds, on the length and the capacity as numbers.
LEMMA HoldsIs ==
    ASSUME NEW m, m.kind \in {"map", "list"}, NEW a \in Nat, a = Len(m.e), NEW c \in Nat, c = m.cap,
           NEW n \in Nat
    PROVE  Holds(m, n) <=> a + n <= c
  BY DEF Holds

LEMMA AppendToMap ==
    ASSUME NEW m, IsMap(m), NEW x, NEW n \in Nat, NEW n1 \in Nat, OneMore(n1, n)
    PROVE  /\ IsMap([m EXCEPT !.e = Append(@, x)])
           /\ Holds(m, n1) => Holds([m EXCEPT !.e = Append(@, x)], n)
<1>1. PICK e : e = Append(m.e, x)
  OBVIOUS
<1>2. IsSeq(e) /\ Len(e) = Len(m.e) + 1 /\ Len(m.e) \in Nat
  BY <1>1, AppendSeq DEF IsMap
<1>3. [m EXCEPT !.e = Append(@, x)] = [m EXCEPT !.e = e]
  BY <1>1
<1>4. PICK r : r = [m EXCEPT !.e = e]
  OBVIOUS
<1>5. IsMap(r) /\ r.kind = "map" /\ r.e = e /\ r.cap = m.cap
  BY <1>2, <1>4, WithEntries
<1>6. m.kind = "map" /\ m.cap \in Nat
  BY MapIsFine DEF IsMap
<1>7. PICK a \in Nat : a = Len(m.e)
  BY <1>2
<1>8. PICK c \in Nat : c = m.cap
  BY <1>6
<1>9. Holds(m, n1) <=> a + n1 <= c
  BY <1>2, <1>6, <1>7, <1>8, HoldsIs
<1>10. Holds(r, n) <=> (a + 1) + n <= c
  BY <1>2, <1>5, <1>6, <1>7, <1>8, HoldsIs
<1>11. Holds(m, n1) => Holds(r, n)
  BY <1>9, <1>10 DEF OneMore
<1> QED
  BY <1>3, <1>4, <1>5, <1>11

LEMMA AppendToList ==
    ASSUME NEW l, IsList(l), NEW x, NEW n \in Nat, NEW n1 \in Nat, OneMore(n1, n)
    PROVE  /\ IsList([l EXCEPT !.e = Append(@, x)])
           /\ Holds(l, n1) => Holds([l EXCEPT !.e = Append(@, x)], n)
<1>1. PICK e : e = Append(l.e, x)
  OBVIOUS
<1>2. IsSeq(e) /\ Len(e) = Len(l.e) + 1 /\ Len(l.e) \in Nat
  BY <1>1, AppendSeq DEF IsList
<1>3. [l EXCEPT !.e = Append(@, x)] = [l EXCEPT !.e = e]
  BY <1>1
<1>4. PICK r : r = [l EXCEPT !.e = e]
  OBVIOUS
<1>5. IsList(r) /\ r.kind = "list" /\ r.e = e /\ r.cap = l.cap
  BY <1>2, <1>4, WithElements
<1>6. l.kind = "list" /\ l.cap \in Nat
  BY ListIsFine DEF IsList
<1>7. PICK a \in Nat : a = Len(l.e)
  BY <1>2
<1>8. PICK c \in Nat : c = l.cap
  BY <1>6
<1>9. Holds(l, n1) <=> a + n1 <= c
  BY <1>2, <1>6, <1>7, <1>8, HoldsIs
<1>10. Holds(r, n) <=> (a + 1) + n <= c
  BY <1>2, <1>5, <1>6, <1>7, <1>8, HoldsIs
<1>11. Holds(l, n1) => Holds(r, n)
  BY <1>9, <1>10 DEF OneMore
<1> QED
  BY <1>3, <1>4, <1>5, <1>11

LEMMA HoldsLess ==
    ASSUME NEW m, Fine(m), NEW n \in Nat, NEW n1 \in Nat, OneMore(n1, n), Holds(m, n1)
    PROVE  Holds(m, n)
<1>1. CASE m.kind = "map"
  <2>1. IsSeq(m.e) /\ m.cap \in Nat
    BY <1>1 DEF Fine, IsMap
  <2>2. Len(m.e) \in Nat
    BY <2>1, AppendSeq
  <2>3. PICK a \in Nat : a = Len(m.e)
    BY <2>2
  <2>4. PICK c \in Nat : c = m.cap
    BY <2>1
  <2>5. Holds(m, n1) <=> a + n1 <= c
    BY <1>1, <2>1, <2>2, <2>3, <2>4, HoldsIs
  <2>6. Holds(m, n) <=> a + n <= c
    BY <1>1, <2>1, <2>2, <2>3, <2>4, HoldsIs
  <2> QED
    BY <2>5, <2>6 DEF OneMore
<1>2. CASE m.kind = "list"
  <2>1. IsSeq(m.e) /\ m.cap \in Nat
    BY <1>2 DEF Fine, IsList
  <2>2. Len(m.e) \in Nat
    BY <2>1, AppendSeq
  <2>3. PICK a \in Nat : a = Len(m.e)
    BY <2>2
  <2>4. PICK c \in Nat : c = m.cap
    BY <2>1
  <2>5. Holds(m, n1) <=> a + n1 <= c
    BY <1>2, <2>1, <2>2, <2>3, <2>4, HoldsIs
  <2>6. Holds(m, n) <=> a + n <= c
    BY <1>2, <2>1, <2>2, <2>3, <2>4, HoldsIs
  <2> QED
    BY <2>5, <2>6 DEF OneMore
<1> QED
  BY <1>1, <1>2 DEF Holds

\* The map with one value replaced.
LEMMA Overwrite ==
    ASSUME NEW m, IsMap(m), NEW i, NEW v, NEW n \in Nat, NEW n1 \in Nat, OneMore(n1, n)
    PROVE  /\ IsMap([m EXCEPT !.e[i].v = v])
           /\ Holds(m, n1) => Holds([m EXCEPT !.e[i].v = v], n)
<1>1. PICK x : x = [m.e[i] EXCEPT !.v = v]
  OBVIOUS
<1>2. PICK e : e = [m.e EXCEPT ![i] = x]
  OBVIOUS
<1>3. IsSeq(e) /\ Len(e) = Len(m.e) /\ Len(m.e) \in Nat
  BY <1>2, UpdateSeq DEF IsMap
<1>4. [m EXCEPT !.e[i].v = v] = [m EXCEPT !.e = e]
  BY <1>1, <1>2
<1>5. PICK r : r = [m EXCEPT !.e = e]
  OBVIOUS
<1>6. IsMap(r) /\ r.kind = "map" /\ r.e = e /\ r.cap = m.cap
  BY <1>3, <1>5, WithEntries
<1>7. m.kind = "map" /\ m.cap \in Nat
  BY MapIsFine DEF IsMap
<1>8. PICK a \in Nat : a = Len(m.e)
  BY <1>3
<1>9. PICK c \in Nat : c = m.cap
  BY <1>7
<1>10. Holds(m, n1) <=> a + n1 <= c
  BY <1>3, <1>7, <1>8, <1>9, HoldsIs
<1>11. Holds(r, n) <=> a + n <= c
  BY <1>3, <1>6, <1>7, <1>8, <1>9, HoldsIs
<1>12. Holds(m, n1) => Holds(r, n)
  BY <1>10, <1>11 DEF OneMore
<1> QED
  BY <1>4, <1>5, <1>6, <1>12

\* A grown map is a map.
LEMMA GrownIsMap ==
    ASSUME NEW m, IsMap(m), NEW r
    PROVE  IsMap(arena_map_grow_one(m, r).m)
<1>1. PICK e : e = m.e
  OBVIOUS
<1>2. PICK d \in Nat : d = m.cap
  BY DEF IsMap
<1>3. PICK x : x = m.ix
  OBVIOUS
<1>4. m = [kind |-> "map", e |-> e, cap |-> d, ix |-> x] /\ IsSeq(e)
  BY <1>1, <1>2, <1>3 DEF IsMap
<1>5. PICK c \in Nat : c = NewCapacity(m)
  BY <1>2 DEF NewCapacity
<1>6. PICK g : g = [kind |-> "map", e |-> e, cap |-> c, ix |-> NoIndex]
  OBVIOUS
<1>7. [m EXCEPT !.cap = c, !.ix = NoIndex] = g
  <2>1. PICK h : h = [m EXCEPT !.cap = c]
    OBVIOUS
  <2>2. h = [kind |-> "map", e |-> e, cap |-> c, ix |-> x]
    BY <1>4, <2>1
  <2>3. [h EXCEPT !.ix = NoIndex] = g
    BY <1>6, <2>2
  <2>4. [m EXCEPT !.cap = c, !.ix = NoIndex] = [h EXCEPT !.ix = NoIndex]
    BY <2>1
  <2> QED
    BY <2>3, <2>4
<1>8. g.e = e /\ g.cap = c /\ g.ix = NoIndex
  BY <1>6
<1>9. IsMap(g)
  BY <1>4, <1>6, <1>8 DEF IsMap
<1>10. arena_map_grow_one(m, r).m \in {m, g}
  BY <1>5, <1>7 DEF arena_map_grow_one
<1> QED
  BY <1>9, <1>10 DEF OneMore

\* A map or list that holds one more is not full.
LEMMA NotFull ==
    ASSUME NEW m, m.kind \in {"map", "list"}, Fine(m), NEW n \in Nat, NEW n1 \in Nat, OneMore(n1, n), Holds(m, n1)
    PROVE  Len(m.e) < m.cap
<1>1. IsSeq(m.e) /\ m.cap \in Nat
  BY DEF Fine, IsMap, IsList
<1>2. PICK a \in Nat : a = Len(m.e)
  BY <1>1, AppendSeq
<1>3. PICK c \in Nat : c = m.cap
  BY <1>1
<1>5. a + n1 <= c
  BY <1>2, <1>3, HoldsIs
<1>6. a < c
  BY <1>5 DEF OneMore
<1> QED
  BY <1>2, <1>3, <1>6

\* map_insert_at_kernel without growth does not trap as long as there is room
\* for one more, and it takes at most one.
LEMMA InsertFine ==
    ASSUME NEW m, IsMap(m), NEW k, NEW v, NEW r, NEW n \in Nat, NEW n1 \in Nat, OneMore(n1, n),
           Holds(m, n1)
    PROVE  /\ Fine(map_insert_at_kernel(m, k, v, FALSE, r).v)
           /\ Holds(map_insert_at_kernel(m, k, v, FALSE, r).v, n)
<1>0. PICK res : res = map_insert_at_kernel(m, k, v, FALSE, r).v
  OBVIOUS
<1>1. Len(m.e) < m.cap
  BY MapIsFine, NotFull
<1>2. CASE Refusal(k, v) # {}
  <2>1. res = CHOOSE p \in Refusal(k, v) : TRUE
    BY <1>0, <1>2 DEF map_insert_at_kernel
  <2> QED
    BY <1>0, <1>2, <2>1, RefusalFine
<1>3. CASE Refusal(k, v) = {} /\ Position(m.e, k) # {}
  <2>1. PICK i : i = Lowest(Position(m.e, k))
    OBVIOUS
  <2>2. res = [m EXCEPT !.e[i].v = v]
    BY <1>0, <1>3, <2>1 DEF map_insert_at_kernel
  <2>3. IsMap([m EXCEPT !.e[i].v = v]) /\ Holds([m EXCEPT !.e[i].v = v], n)
    BY Overwrite
  <2> QED
    BY <1>0, <2>2, <2>3, MapIsFine, Zenon
<1>4. CASE Refusal(k, v) = {} /\ Position(m.e, k) = {}
  <2>1. res = [m EXCEPT !.e = Append(@, Entry(k, v))]
    BY <1>0, <1>1, <1>4 DEF map_insert_at_kernel
  <2>2. /\ IsMap([m EXCEPT !.e = Append(@, Entry(k, v))])
        /\ Holds([m EXCEPT !.e = Append(@, Entry(k, v))], n)
    BY AppendToMap
  <2> QED
    BY <1>0, <2>1, <2>2, MapIsFine, Zenon
<1> QED
  BY <1>2, <1>3, <1>4

\* With growth it never traps.
LEMMA GrowingFine ==
    ASSUME NEW m, IsMap(m), NEW k, NEW v, NEW r
    PROVE  Fine(map_insert_at_kernel(m, k, v, TRUE, r).v)
<1>0. PICK res : res = map_insert_at_kernel(m, k, v, TRUE, r).v
  OBVIOUS
<1>1. PICK n \in Nat, n1 \in Nat : OneMore(n1, n)
  BY 0 + 1 \in Nat DEF OneMore
<1>2. CASE Refusal(k, v) # {}
  <2>1. res = CHOOSE p \in Refusal(k, v) : TRUE
    BY <1>0, <1>2 DEF map_insert_at_kernel
  <2> QED
    BY <1>0, <1>2, <2>1, RefusalFine
<1>3. CASE Refusal(k, v) = {} /\ Position(m.e, k) # {}
  <2>1. PICK i : i = Lowest(Position(m.e, k))
    OBVIOUS
  <2>2. res = [m EXCEPT !.e[i].v = v]
    BY <1>0, <1>3, <2>1 DEF map_insert_at_kernel
  <2>3. IsMap([m EXCEPT !.e[i].v = v])
    BY <1>1, Overwrite
  <2> QED
    BY <1>0, <2>2, <2>3, MapIsFine, Zenon
<1>4. CASE Refusal(k, v) = {} /\ Position(m.e, k) = {}
  <2>1. PICK g : g = arena_map_grow_one(m, r).m
    OBVIOUS
  <2>2. IsMap(g)
    BY <2>1, GrownIsMap
  <2>3. \/ res = Overflow
        \/ res = [g EXCEPT !.e = Append(@, Entry(k, v))]
        \/ res = [m EXCEPT !.e = Append(@, Entry(k, v))]
    BY <1>0, <1>4, <2>1 DEF map_insert_at_kernel
  <2>4. IsMap([g EXCEPT !.e = Append(@, Entry(k, v))])
    BY <1>1, <2>2, AppendToMap
  <2>5. IsMap([m EXCEPT !.e = Append(@, Entry(k, v))])
    BY <1>1, AppendToMap
  <2> QED
    BY <1>0, <2>3, <2>4, <2>5, MapIsFine, ErrFine, Zenon DEF Overflow
<1> QED
  BY <1>2, <1>3, <1>4

\* cel_map_insert never traps and takes at most one.
LEMMA LiteralFine ==
    ASSUME NEW m, Fine(m), NEW k, NEW v, NEW n \in Nat, NEW n1 \in Nat, OneMore(n1, n), Holds(m, n1),
           NEW res, res = cel_map_insert(m, k, v)
    PROVE  Fine(res) /\ Holds(res, n)
<1>1. CASE m.kind # "map"
  <2>1. res = m
    BY <1>1 DEF cel_map_insert
  <2> QED
    BY <2>1, HoldsLess
<1>2. CASE m.kind = "map" /\ Refusal(k, v) # {}
  <2>1. res = CHOOSE p \in Refusal(k, v) : TRUE
    BY <1>2 DEF cel_map_insert
  <2> QED
    BY <1>2, <2>1, RefusalFine
<1>3. CASE m.kind = "map" /\ Refusal(k, v) = {}
  <2>1. IsMap(m)
    BY <1>3 DEF Fine
  <2>2. \/ res \in {AnErr("duplicate_key"), AnErr("overflow")}
        \/ res = [m EXCEPT !.e = Append(@, Entry(k, v))]
    BY <1>3 DEF cel_map_insert, Overflow
  <2>3. PICK a : a = [m EXCEPT !.e = Append(@, Entry(k, v))]
    OBVIOUS
  <2>4. IsMap(a) /\ Holds(a, n)
    BY <2>1, <2>3, AppendToMap
  <2> QED
    BY <2>2, <2>3, <2>4, MapIsFine, ErrFine
<1> QED
  BY <1>1, <1>2, <1>3

\* cel_list_append_at does not trap as long as there is room for one more.
LEMMA ListAppendFine ==
    ASSUME NEW l, l.kind = "list", Fine(l), NEW v, NEW r, NEW n \in Nat, NEW n1 \in Nat, OneMore(n1, n), Holds(l, n1),
           NEW res, res = cel_list_append_at(l, v, r).v
    PROVE  Fine(res) /\ Holds(res, n)
<1>1. CASE Poisoned(v)
  <2>1. res = v
    BY <1>1 DEF cel_list_append_at
  <2> QED
    BY <1>1, <2>1, PoisonFine
<1>2. CASE ~Poisoned(v)
  <2>1. PICK a \in Nat : a = Len(l.e)
    BY AppendSeq DEF Fine, IsList
  <2>2. PICK c \in Nat : c = l.cap
    BY DEF Fine, IsList
  <2>3. a < c
    BY <2>1, <2>2, NotFull
  <2>4. ~(Len(l.e) >= l.cap)
    BY <2>1, <2>2, <2>3
  <2>5. res = [l EXCEPT !.e = Append(@, v)]
    BY <1>2, <2>4 DEF cel_list_append_at
  <2>6. IsList(l)
    BY DEF Fine
  <2>7. IsList(res) /\ Holds(res, n)
    BY <2>5, <2>6, AppendToList
  <2> QED
    BY <2>7, ListIsFine
<1> QED
  BY <1>1, <1>2

-----------------------------------------------------------------------------
(* Merging: the slot after each of the entries. *)

Step(a, x) == IF a.v.kind # "map" THEN a
              ELSE map_insert_at_kernel(a.v, x.k, x.v, TRUE, a.room)

\* f is the slot after the first entries, up to n of them.
Merging(f, m, es, r, n) ==
    f = [i \in 0 .. n |-> IF i = 0 THEN [v |-> m, room |-> r] ELSE Step(f[i - 1], es[i])]

LEMMA MergingExists ==
    ASSUME NEW m, NEW es, NEW r, Len(es) \in Nat
    PROVE  \E f : Merging(f, m, es, r, Len(es))
<1> DEFINE Missing == {n \in Nat : ~ \E f : Merging(f, m, es, r, n)}
<1>1. SUFFICES ASSUME Missing # {} PROVE FALSE
  OBVIOUS
<1>2. PICK n \in Missing : \A j \in Missing : n <= j
  BY <1>1, LeastIndex
<1>3. n # 0
  <2>1. PICK f : f = [i \in 0 .. 0 |-> [v |-> m, room |-> r]]
    OBVIOUS
  <2>2. Merging(f, m, es, r, 0)
    BY <2>1 DEF Merging
  <2> QED
    BY <2>2, <1>2
<1>4. n \in Nat /\ n - 1 \in Nat /\ n - 1 \notin Missing
  BY <1>2, <1>3
<1>5. PICK f : Merging(f, m, es, r, n - 1)
  BY <1>4
<1>6. PICK s : s = Step(f[n - 1], es[n])
  OBVIOUS
<1>7. PICK g : g = [i \in 0 .. n |-> IF i = n THEN s ELSE f[i]]
  OBVIOUS
<1>8. PICK h : h = [i \in 0 .. n |-> IF i = 0 THEN [v |-> m, room |-> r] ELSE Step(g[i - 1], es[i])]
  OBVIOUS
<1>9. ASSUME NEW i \in 0 .. n PROVE g[i] = h[i]
  <2>1. CASE i = n
    <3>1. g[n - 1] = f[n - 1]
      BY <1>4, <1>7
    <3>2. h[n] = Step(g[n - 1], es[n])
      BY <1>3, <1>4, <1>8
    <3> QED
      BY <2>1, <3>1, <3>2, <1>4, <1>6, <1>7
  <2>2. CASE i # n /\ i = 0
    <3>1. f[0] = [v |-> m, room |-> r]
      BY <1>4, <1>5 DEF Merging
    <3> QED
      BY <2>2, <3>1, <1>4, <1>7, <1>8
  <2>3. CASE i # n /\ i # 0
    <3>1. i \in 0 .. n - 1 /\ i - 1 \in 0 .. n /\ i - 1 # n
      BY <2>3, <1>4
    <3>2. f[i] = Step(f[i - 1], es[i])
      BY <2>3, <3>1, <1>5 DEF Merging
    <3>3. g[i] = f[i] /\ g[i - 1] = f[i - 1]
      BY <2>3, <3>1, <1>7
    <3>4. h[i] = Step(g[i - 1], es[i])
      BY <2>3, <1>8
    <3> QED
      BY <3>2, <3>3, <3>4
  <2> QED
    BY <2>1, <2>2, <2>3
<1>10. g = h
  BY <1>7, <1>8, <1>9
<1>11. Merging(g, m, es, r, n)
  BY <1>8, <1>10 DEF Merging
<1> QED
  BY <1>2, <1>11

\* cel_map_merge_at's entries never trap: the insert grows the map.
LEMMA MergeFine ==
    ASSUME NEW m, Fine(m), NEW es, NEW r, Len(es) \in Nat
    PROVE  Fine(MergeEntries(m, es, r).v)
<1>1. PICK f : f = CHOOSE g : Merging(g, m, es, r, Len(es))
  OBVIOUS
<1>2. Merging(f, m, es, r, Len(es))
  BY <1>1, MergingExists
<1>3. MergeEntries(m, es, r) = f[Len(es)]
  BY <1>1 DEF MergeEntries, Merging, Step
<1> DEFINE Bad == {i \in 0 .. Len(es) : ~Fine(f[i].v)}
<1>4. ASSUME Bad # {} PROVE FALSE
  <2>0. Bad \subseteq Nat
    BY DEF Bad
  <2>1. PICK i \in Bad : \A j \in Bad : i <= j
    BY <2>0, <1>4, LeastIndex
  <2>2. i # 0
    <3>1. f[0] = [v |-> m, room |-> r]
      BY <1>2 DEF Merging
    <3> QED
      BY <2>1, <3>1
  <2>3. i \in 0 .. Len(es) /\ i - 1 \in 0 .. Len(es) /\ i - 1 \notin Bad
    BY <2>1, <2>2
  <2>4. f[i] = Step(f[i - 1], es[i])
    BY <1>2, <2>2, <2>3 DEF Merging
  <2>5. PICK a : a = f[i - 1]
    OBVIOUS
  <2>6. Fine(a.v)
    BY <2>3, <2>5
  <2>7. PICK x : x = es[i]
    OBVIOUS
  <2>8. Fine(Step(a, x).v)
    <3>1. CASE a.v.kind # "map"
      BY <2>6, <3>1 DEF Step
    <3>2. CASE a.v.kind = "map"
      <4>1. IsMap(a.v)
        BY <2>6, <3>2 DEF Fine
      <4>2. Fine(map_insert_at_kernel(a.v, x.k, x.v, TRUE, a.room).v)
        BY <4>1, GrowingFine
      <4> QED
        BY <3>2, <4>2 DEF Step
    <3> QED
      BY <3>1, <3>2
  <2> QED
    BY <2>1, <2>4, <2>5, <2>7, <2>8
<1> QED
  BY <1>3, <1>4

-----------------------------------------------------------------------------
(* Opening. *)

\* A new collection is empty and has the capacity asked for.
LEMMA CreateFine ==
    ASSUME NEW kind \in {"map", "list"}, NEW r, NEW cap \in Nat, NEW stride
    PROVE  Fine(Create(kind, r, cap, stride).v) /\ Holds(Create(kind, r, cap, stride).v, cap)
<1>1. PICK res : res = Create(kind, r, cap, stride).v
  OBVIOUS
<1>2. PICK m : m = [kind |-> "map", e |-> <<>>, cap |-> cap, ix |-> NoIndex]
  OBVIOUS
<1>3. PICK l : l = [kind |-> "list", e |-> <<>>, cap |-> cap]
  OBVIOUS
<1>4. m.e = <<>> /\ m.cap = cap /\ m.ix = NoIndex /\ m.kind = "map"
  BY <1>2
<1>5. l.e = <<>> /\ l.cap = cap /\ l.kind = "list"
  BY <1>3
<1>6. IsMap(m)
  BY <1>2, <1>4, EmptySequence DEF IsMap
<1>7. IsList(l)
  BY <1>3, <1>5, EmptySequence DEF IsList
<1>8. Len(<<>>) + cap <= cap
  BY EmptySequence
<1>9. Holds(m, cap) /\ Holds(l, cap)
  BY <1>4, <1>5, <1>8 DEF Holds
<1>10. res = Overflow \/ res = m \/ res = l
  BY <1>1, <1>2, <1>3 DEF Create
<1>11. Fine(Overflow) /\ Holds(Overflow, cap)
  BY ErrFine DEF Overflow
<1> QED
  BY <1>1, <1>6, <1>7, <1>9, <1>10, <1>11, MapIsFine, ListIsFine, Zenon

LEMMA CreateAccFine ==
    ASSUME NEW r, NEW n \in Nat
    PROVE  Fine(CreateAcc(r, n).v) /\ Holds(CreateAcc(r, n).v, n)
<1>1. "map" \in {"map", "list"} /\ "list" \in {"map", "list"}
  OBVIOUS
<1>2. Fine(Create("list", r, n, CellBytes).v) /\ Holds(Create("list", r, n, CellBytes).v, n)
  BY <1>1, CreateFine
<1>3. Fine(cel_map_create(r, n).v) /\ Holds(cel_map_create(r, n).v, n)
  BY <1>1, CreateFine DEF cel_map_create
<1> QED
  BY <1>2, <1>3 DEF CreateAcc

\* The three views of a range.
View(w, src) ==
    /\ w = [e |-> w.e, cur |-> 0, src |-> src, lost |-> w.lost]
    /\ Len(w.e) \in Nat
    /\ ~w.lost => w.e = src.e \/ w.e = <<>>

LEMMA Views ==
    ASSUME NEW src, Len(src.e) \in Nat
    PROVE  /\ View(WholeView(src), src) /\ ~WholeView(src).lost /\ WholeView(src).e = src.e
           /\ View(OomView(src), src) /\ OomView(src).lost
           /\ View(EmptyView(src), src) /\ EmptyView(src).e = <<>>
<1>1. Len(<<>>) = 0 /\ Len(<<Overflow>>) = 1
  OBVIOUS
<1>2. View(WholeView(src), src) /\ ~WholeView(src).lost /\ WholeView(src).e = src.e
  BY DEF View, WholeView
<1>3. View(OomView(src), src) /\ OomView(src).lost
  BY <1>1 DEF View, OomView
<1>4. View(EmptyView(src), src) /\ EmptyView(src).e = <<>>
  BY <1>1 DEF View, EmptyView
<1> QED
  BY <1>2, <1>3, <1>4

\* What a walk starts with.
Opened(o, src) ==
    /\ View(o.view, src)
    /\ ~o.view.lost => Fine(o.made.v) /\ Holds(o.made.v, Len(o.view.e))

LEMMA OpenList ==
    ASSUME NEW src, Len(src.e) \in Nat, src.kind = "list", NEW o \in OpenWalk(src)
    PROVE  Opened(o, src)
<1>1. PICK q \in cel_list_arena_view(src, room) :
        o = [view |-> q.view, made |-> CreateAcc(q.room, Len(q.view.e))]
  BY DEF OpenWalk
<1>2. q.view \in {WholeView(src), OomView(src), EmptyView(src)}
  BY <1>1 DEF cel_list_arena_view, CelListIterOpen
<1>3. View(q.view, src)
  BY <1>2, Views
<1>4. PICK n \in Nat : n = Len(q.view.e)
  BY <1>3 DEF View
<1>5. Fine(CreateAcc(q.room, n).v) /\ Holds(CreateAcc(q.room, n).v, n)
  BY CreateAccFine
<1>6. o.view = q.view /\ o.made.v = CreateAcc(q.room, n).v
  BY <1>1, <1>4
<1> QED
  BY <1>3, <1>4, <1>5, <1>6 DEF Opened

\* A host map that cannot be asked for its count cannot be walked either.
LEMMA UncountedIsLost ==
    ASSUME NEW src, room \in Nat, ~Fits(room, CellBytes), src.origin # "arena",
           NEW made, made = CreateAcc(room, 0)
    PROVE  cel_map_iter_init(src, made.room).view = OomView(src)
<1>1. room < 24
  BY DEF Fits, Align8, CellBytes
<1>2. (made.room = room /\ room < 16) \/ made.room = room - 16
  <2>1. Fits(room, HeaderBytes) <=> 16 <= room
    BY DEF Fits, Align8, HeaderBytes
  <2>2. Left(room, HeaderBytes) = room - 16
    BY DEF Left, Align8, HeaderBytes
  <2> QED
    BY <2>1, <2>2 DEF CreateAcc, cel_map_create, Create
<1>3. ~Fits(made.room, StateBytes)
  BY <1>1, <1>2 DEF Fits, Align8, StateBytes
<1> QED
  BY <1>3 DEF cel_map_iter_init

LEMMA OpenMap ==
    ASSUME NEW src, Len(src.e) \in Nat, src.kind # "list", room \in Nat, NEW o \in OpenWalk(src)
    PROVE  Opened(o, src)
<1>1. PICK c : c = cel_map_count(src, room)
  OBVIOUS
<1>2. PICK made : made = CreateAcc(c.room, c.n)
  OBVIOUS
<1>3. PICK w : w = cel_map_iter_init(src, made.room).view
  OBVIOUS
<1>4. o.view = w /\ o.made.v = made.v
  BY <1>1, <1>2, <1>3 DEF OpenWalk
<1>5. w \in {WholeView(src), OomView(src), EmptyView(src)}
  BY <1>3 DEF cel_map_iter_init, CelMapIterOpen
<1>6. View(w, src)
  BY <1>5, Views
<1>7. c.n \in Nat
  BY <1>1 DEF cel_map_count
<1>8. Fine(made.v) /\ Holds(made.v, c.n)
  BY <1>2, <1>7, CreateAccFine
<1>9. CASE c.n = Len(src.e)
  <2>1. CASE w.e = src.e
    BY <1>4, <1>6, <1>8, <1>9, <2>1 DEF Opened
  <2>2. CASE w.e = <<>>
    <3>1. Holds(made.v, 0)
      <4>1. CASE made.v.kind = "map"
        <5>1. IsSeq(made.v.e) /\ made.v.cap \in Nat
          BY <4>1, <1>8 DEF Fine, IsMap
        <5>2. Len(made.v.e) \in Nat
          BY <5>1, AppendSeq
        <5>3. Len(made.v.e) + c.n <= made.v.cap
          BY <4>1, <1>8 DEF Holds
        <5> QED
          BY <5>1, <5>2, <5>3, <1>7 DEF Holds
      <4>2. CASE made.v.kind = "list"
        <5>1. IsSeq(made.v.e) /\ made.v.cap \in Nat
          BY <4>2, <1>8 DEF Fine, IsList
        <5>2. Len(made.v.e) \in Nat
          BY <5>1, AppendSeq
        <5>3. Len(made.v.e) + c.n <= made.v.cap
          BY <4>2, <1>8 DEF Holds
        <5> QED
          BY <5>1, <5>2, <5>3, <1>7 DEF Holds
      <4> QED
        BY <4>1, <4>2 DEF Holds
    <3>2. Len(w.e) = 0
      BY <2>2
    <3> QED
      BY <1>4, <1>6, <1>8, <3>1, <3>2 DEF Opened
  <2> QED
    BY <1>4, <1>6, <2>1, <2>2 DEF Opened, View
<1>10. CASE c.n # Len(src.e)
  <2>1. ~Fits(room, CellBytes) /\ src.origin # "arena" /\ c.n = 0 /\ c.room = room
    BY <1>1, <1>10 DEF cel_map_count
  <2>2. w = OomView(src)
    BY <1>2, <1>3, <2>1, UncountedIsLost
  <2>3. w.lost
    BY <2>2, Views
  <2> QED
    BY <1>4, <1>6, <2>3 DEF Opened
<1> QED
  BY <1>9, <1>10

LEMMA OpenWalkFine ==
    ASSUME NEW src \in Sources, ~Poisoned(src), room \in Rooms, NEW o \in OpenWalk(src)
    PROVE  Opened(o, src)
<1>1. Len(src.e) \in Nat /\ room \in Nat
  BY CollectionsAssumption
<1> QED
  BY <1>1, OpenList, OpenMap

-----------------------------------------------------------------------------
(* Literals. *)

LEMMA InitInv == Init => IInv
<1> SUFFICES ASSUME Init PROVE IInv
  OBVIOUS
<1> QED
  BY DEF Init, IInv, StartInv, FillInv, LoopInv, PoisonedRangeIsResult, PresizeSuffices

LEMMA StartLiteralInv ==
    ASSUME IInv, NEW n \in 0 .. MaxLiteral, StartLiteral(n)
    PROVE  IInv'
<1>1. n \in Nat
  BY CollectionsAssumption
<1>2. Fine(acc') /\ Holds(acc', n)
  <2>1. "map" \in {"map", "list"} /\ "list" \in {"map", "list"}
    OBVIOUS
  <2>2. acc' = Create("list", room, n, CellBytes).v \/ acc' = Create("map", room, n, EntryBytes).v
    BY DEF StartLiteral, cel_map_create
  <2> QED
    BY <1>1, <2>1, <2>2, CreateFine
<1>3. phase = "start" /\ phase' = "fill" /\ view' = NoView /\ todo' = n
  BY DEF StartLiteral, IInv, StartInv
<1> QED
  BY <1>1, <1>2, <1>3 DEF IInv, StartInv, FillInv, LoopInv, PoisonedRangeIsResult, PresizeSuffices

\* One entry is done.
LEMMA FilledInv ==
    ASSUME IInv, NEW r, Filled(r),
           \A n, n1 \in Nat : OneMore(n1, n) /\ Fine(acc) /\ Holds(acc, n1) => Fine(r) /\ Holds(r, n)
    PROVE  IInv'
<1>1. phase = "fill" /\ todo \in Nat /\ todo > 0 /\ Fine(acc) /\ Holds(acc, todo) /\ view = NoView
  BY DEF Filled, IInv, FillInv
<1>2. PICK n \in Nat : n = todo - 1
  BY <1>1
<1>3. OneMore(todo, n)
  BY <1>1, <1>2 DEF OneMore
<1>4. Fine(r) /\ Holds(r, n)
  BY <1>1, <1>3
<1>5. acc' = r /\ todo' = n /\ phase' = "fill" /\ view' = NoView
  BY <1>1, <1>2, <1>4 DEF Filled, Fine
<1> QED
  BY <1>4, <1>5 DEF IInv, StartInv, FillInv, LoopInv, PoisonedRangeIsResult, PresizeSuffices

LEMMA InsertEntryInv ==
    ASSUME IInv, NEW k, NEW v, InsertEntry(k, v)
    PROVE  IInv'
<1>1. PICK r : r = cel_map_insert(acc, k, v)
  OBVIOUS
<1>2. Filled(r)
  BY <1>1 DEF InsertEntry
<1>3. ASSUME NEW n \in Nat, NEW n1 \in Nat, OneMore(n1, n), Fine(acc), Holds(acc, n1)
      PROVE  Fine(r) /\ Holds(r, n)
  BY <1>1, <1>3, LiteralFine
<1> QED
  BY <1>2, <1>3, FilledInv

LEMMA AppendElementInv ==
    ASSUME IInv, NEW v, AppendElement(v)
    PROVE  IInv'
<1>1. PICK r : r = IF acc.kind # "list" THEN acc ELSE cel_list_append_at(acc, v, room).v
  OBVIOUS
<1>2. Filled(r)
  BY <1>1 DEF AppendElement
<1>3. ASSUME NEW n \in Nat, NEW n1 \in Nat, OneMore(n1, n), Fine(acc), Holds(acc, n1)
      PROVE  Fine(r) /\ Holds(r, n)
  <2>1. CASE acc.kind = "list"
    <3>1. r = cel_list_append_at(acc, v, room).v
      BY <1>1, <2>1
    <3> QED
      BY <1>3, <2>1, <3>1, ListAppendFine
  <2>2. CASE acc.kind # "list"
    <3>1. r = acc
      BY <1>1, <2>2
    <3> QED
      BY <1>3, <3>1, HoldsLess
  <2> QED
    BY <2>1, <2>2
<1> QED
  BY <1>2, <1>3, FilledInv

\* An optional entry: full is the slot with the entry in it.
LEMMA IfPresentInv ==
    ASSUME IInv, NEW kind \in {"map", "list"}, NEW v, NEW full, IfPresent(kind, v, full),
           \A n, n1 \in Nat : /\ OneMore(n1, n) /\ acc.kind = kind /\ Fine(acc) /\ Holds(acc, n1)
                              => Fine(full) /\ Holds(full, n)
    PROVE  IInv'
<1>1. PICK opt : opt = cel_optional_of_non_zero(v, room)
  OBVIOUS
<1>2. PICK r : r = IF acc.kind # kind THEN acc
                   ELSE IF Poisoned(opt) THEN opt
                   ELSE IF opt.present THEN full ELSE acc
  OBVIOUS
<1>3. Filled(r)
  BY <1>1, <1>2 DEF IfPresent
<1>4. r = acc \/ (acc.kind = kind /\ r = full) \/ (r = opt /\ Poisoned(opt))
  BY <1>2
<1>5. ASSUME NEW n \in Nat, NEW n1 \in Nat, OneMore(n1, n), Fine(acc), Holds(acc, n1)
      PROVE  Fine(r) /\ Holds(r, n)
  <2>1. CASE r = acc
    BY <1>5, <2>1, HoldsLess
  <2>2. CASE acc.kind = kind /\ r = full
    BY <1>5, <2>2
  <2>3. CASE r = opt /\ Poisoned(opt)
    BY <2>3, PoisonFine
  <2> QED
    BY <1>4, <2>1, <2>2, <2>3
<1> QED
  BY <1>3, <1>5, FilledInv

LEMMA InsertIfPresentInv ==
    ASSUME IInv, NEW k, NEW v, InsertIfPresent(k, v)
    PROVE  IInv'
<1>1. PICK full : full = map_insert_at_kernel(acc, k, v, FALSE, room).v
  OBVIOUS
<1>2. IfPresent("map", v, full)
  BY <1>1 DEF InsertIfPresent
<1>3. ASSUME NEW n \in Nat, NEW n1 \in Nat, OneMore(n1, n), acc.kind = "map", Fine(acc), Holds(acc, n1)
      PROVE  Fine(full) /\ Holds(full, n)
  <2>1. IsMap(acc)
    BY <1>3 DEF Fine
  <2> QED
    BY <1>1, <1>3, <2>1, InsertFine
<1> QED
  BY <1>2, <1>3, IfPresentInv

LEMMA AppendIfPresentInv ==
    ASSUME IInv, NEW v, AppendIfPresent(v)
    PROVE  IInv'
<1>1. PICK full : full = cel_list_append_at(acc, v, room).v
  OBVIOUS
<1>2. IfPresent("list", v, full)
  BY <1>1 DEF AppendIfPresent
<1>3. ASSUME NEW n \in Nat, NEW n1 \in Nat, OneMore(n1, n), acc.kind = "list", Fine(acc), Holds(acc, n1)
      PROVE  Fine(full) /\ Holds(full, n)
  BY <1>1, <1>3, ListAppendFine
<1> QED
  BY <1>2, <1>3, IfPresentInv

\* A packed literal is closed at once.
LEMMA UseConstantInv ==
    ASSUME IInv, phase = "start", phase' = "closed", UNCHANGED view
    PROVE  IInv'
<1>1. ~Poisoned(view'.src)
  BY DEF IInv, StartInv, NoView, Null, Poisoned
<1> QED
  BY <1>1 DEF IInv, StartInv, FillInv, LoopInv, PoisonedRangeIsResult, PresizeSuffices

-----------------------------------------------------------------------------
(* Walks. *)

LEMMA StartWalkInv ==
    ASSUME IInv, NEW src \in Sources, StartWalk(src)
    PROVE  IInv'
<1>1. phase = "start" /\ room \in Rooms /\ mode' = mode /\ mode \in {"insert", "merge", "append"}
  BY DEF StartWalk, IInv, StartInv
<1>2. CASE Poisoned(src)
  <2>1. acc' = src /\ view' = [NoView EXCEPT !.src = src] /\ phase' = "closed"
    BY <1>2 DEF StartWalk
  <2>2. view'.src = src
    BY <2>1 DEF NoView
  <2> QED
    BY <2>1, <2>2 DEF IInv, StartInv, FillInv, LoopInv, PoisonedRangeIsResult, PresizeSuffices
<1>3. ASSUME ~Poisoned(src), NEW o \in OpenWalk(src), view' = o.view, acc' = o.made.v, phase' = "loop"
      PROVE  IInv'
  <2>1. Opened(o, src)
    BY <1>1, <1>3, OpenWalkFine
  <2>2. PICK w : w = o.view
    OBVIOUS
  <2>3. /\ w = [e |-> w.e, cur |-> 0, src |-> src, lost |-> w.lost] /\ Len(w.e) \in Nat
        /\ ~w.lost => Fine(acc') /\ Holds(acc', Len(w.e))
    BY <1>3, <2>1, <2>2 DEF Opened, View
  <2>4. w.cur = 0 /\ w.src = src
    BY <2>3
  <2>5. Len(w.e) - w.cur = Len(w.e) /\ w.cur \in 0 .. Len(w.e)
    BY <2>3, <2>4
  <2>6. w = [e |-> w.e, cur |-> w.cur, src |-> w.src, lost |-> w.lost]
    BY <2>3, <2>4
  <2>7. LoopInv'
    BY <1>1, <1>3, <2>2, <2>3, <2>4, <2>5, <2>6 DEF LoopInv
  <2> QED
    BY <1>3, <2>7 DEF IInv, StartInv, FillInv, PoisonedRangeIsResult, PresizeSuffices
<1>4. ASSUME view' = OomView(src), phase' = "trapped" PROVE IInv'
  <2>1. view'.lost
    BY <1>4 DEF OomView
  <2> QED
    BY <1>4, <2>1 DEF IInv, StartInv, FillInv, LoopInv, PoisonedRangeIsResult, PresizeSuffices
<1> QED
  BY <1>2, <1>3, <1>4 DEF StartWalk

\* One visit: what becomes of a walk that lost nothing decides.
LEMMA AdvanceInv ==
    ASSUME IInv, Walking, NEW r, Advance(r),
           ~view.lost => \A n, n1 \in Nat :
               OneMore(n1, n) /\ Fine(acc) /\ (mode # "merge" => Holds(acc, n1))
                 => Fine(r.v) /\ (mode # "merge" => Holds(r.v, n))
    PROVE  IInv'
<1>1. /\ phase = "loop" /\ ~Poisoned(view.src) /\ mode \in {"insert", "merge", "append"}
      /\ view = [e |-> view.e, cur |-> view.cur, src |-> view.src, lost |-> view.lost]
      /\ Len(view.e) \in Nat /\ view.cur \in 0 .. Len(view.e) /\ view.cur < Len(view.e)
      /\ ~view.lost => Fine(acc) /\ (mode # "merge" => Holds(acc, Len(view.e) - view.cur))
  BY DEF IInv, LoopInv, Walking
<1>2. PICK w : w = view'
  OBVIOUS
<1>3. PICK c : c = view.cur + 1
  OBVIOUS
<1>4. w = [e |-> view.e, cur |-> c, src |-> view.src, lost |-> view.lost]
  BY <1>1, <1>2, <1>3 DEF Advance
<1>5. w.e = view.e /\ w.cur = c /\ w.src = view.src /\ w.lost = view.lost
  BY <1>4
<1>6. w = [e |-> w.e, cur |-> w.cur, src |-> w.src, lost |-> w.lost]
  BY <1>4, <1>5
<1>7. Len(w.e) \in Nat /\ w.cur \in 0 .. Len(w.e)
  BY <1>1, <1>3, <1>5
<1>8. PICK n \in Nat : n = Len(w.e) - w.cur
  BY <1>7
<1>9. PICK n1 \in Nat : n1 = Len(view.e) - view.cur
  BY <1>1
<1>10. OneMore(n1, n)
  BY <1>1, <1>3, <1>5, <1>8, <1>9 DEF OneMore
<1>11. acc' = r.v /\ mode' = mode /\ phase' = IF r.v.kind = "trap" THEN "trapped" ELSE "loop"
  BY <1>1 DEF Advance
<1>12. ~view.lost => Fine(acc') /\ (mode' # "merge" => Holds(acc', n))
  BY <1>1, <1>9, <1>10, <1>11
<1>13. LoopInv'
  BY <1>1, <1>2, <1>5, <1>6, <1>7, <1>8, <1>11, <1>12 DEF LoopInv, Poisoned
<1>14. PresizeSuffices'
  BY <1>2, <1>5, <1>11, <1>12 DEF PresizeSuffices, Fine
<1>15. phase' \in {"trapped", "loop"}
  BY <1>11
<1> QED
  BY <1>13, <1>14, <1>15 DEF IInv, StartInv, FillInv, PoisonedRangeIsResult

\* A predicate leaves the accumulator, an error or what the step makes.
LEMMA GateCases ==
    ASSUME NEW p, NEW step
    PROVE  \/ Gate(p, step).v = acc
           \/ Gate(p, step).v.kind \in {"error", "unknown"}
           \/ Gate(p, step) = step
  BY DEF Gate, Kept, Poisoned, AnErr

LEMMA VisitInsertInv ==
    ASSUME IInv, NEW p, NEW k, NEW v, VisitInsert(p, k, v)
    PROVE  IInv'
<1>1. PICK pb, kb, vb :
        Advance(IF acc.kind # "map" THEN Kept(acc)
                ELSE Gate(pb, map_insert_at_kernel(acc, kb, vb, FALSE, room)))
  BY DEF VisitInsert
<1>2. PICK step : step = map_insert_at_kernel(acc, kb, vb, FALSE, room)
  OBVIOUS
<1>3. PICK r : r = IF acc.kind # "map" THEN Kept(acc) ELSE Gate(pb, step)
  OBVIOUS
<1>4. Walking /\ mode = "insert" /\ Advance(r)
  BY <1>1, <1>2, <1>3 DEF VisitInsert
<1>5. ASSUME NEW n \in Nat, NEW n1 \in Nat, OneMore(n1, n), Fine(acc), Holds(acc, n1)
      PROVE  Fine(r.v) /\ Holds(r.v, n)
  <2>1. CASE r.v = acc
    BY <1>5, <2>1, HoldsLess
  <2>2. CASE r.v.kind \in {"error", "unknown"}
    BY <2>2, PoisonFine DEF Poisoned
  <2>3. CASE acc.kind = "map" /\ r = step
    <3>1. IsMap(acc)
      BY <1>5, <2>3 DEF Fine
    <3> QED
      BY <1>2, <1>5, <2>3, <3>1, InsertFine
  <2>4. r.v = acc \/ r.v.kind \in {"error", "unknown"} \/ (acc.kind = "map" /\ r = step)
    <3>1. CASE acc.kind # "map"
      BY <1>3, <3>1 DEF Kept
    <3>2. CASE acc.kind = "map"
      BY <1>3, <3>2, GateCases
    <3> QED
      BY <3>1, <3>2
  <2> QED
    BY <2>1, <2>2, <2>3, <2>4
<1> QED
  BY <1>4, <1>5, AdvanceInv

LEMMA VisitAppendInv ==
    ASSUME IInv, NEW p, NEW v, VisitAppend(p, v)
    PROVE  IInv'
<1>1. PICK pb, vb :
        Advance(IF acc.kind # "list" THEN Kept(acc) ELSE Gate(pb, cel_list_append_at(acc, vb, room)))
  BY DEF VisitAppend
<1>2. PICK step : step = cel_list_append_at(acc, vb, room)
  OBVIOUS
<1>3. PICK r : r = IF acc.kind # "list" THEN Kept(acc) ELSE Gate(pb, step)
  OBVIOUS
<1>4. Walking /\ mode = "append" /\ Advance(r)
  BY <1>1, <1>2, <1>3 DEF VisitAppend
<1>5. ASSUME NEW n \in Nat, NEW n1 \in Nat, OneMore(n1, n), Fine(acc), Holds(acc, n1)
      PROVE  Fine(r.v) /\ Holds(r.v, n)
  <2>1. CASE r.v = acc
    BY <1>5, <2>1, HoldsLess
  <2>2. CASE r.v.kind \in {"error", "unknown"}
    BY <2>2, PoisonFine DEF Poisoned
  <2>3. CASE acc.kind = "list" /\ r = step
    BY <1>2, <1>5, <2>3, ListAppendFine
  <2>4. r.v = acc \/ r.v.kind \in {"error", "unknown"} \/ (acc.kind = "list" /\ r = step)
    <3>1. CASE acc.kind # "list"
      BY <1>3, <3>1 DEF Kept
    <3>2. CASE acc.kind = "list"
      BY <1>3, <3>2, GateCases
    <3> QED
      BY <3>1, <3>2
  <2> QED
    BY <2>1, <2>2, <2>3, <2>4
<1> QED
  BY <1>4, <1>5, AdvanceInv

\* cel_map_merge_at does not trap, whatever the entry is and the arena holds.
LEMMA MergeAtFine ==
    ASSUME NEW m, IsMap(m), NEW entry, entry.kind = "map" => Len(entry.e) \in Nat, NEW r
    PROVE  Fine(cel_map_merge_at(m, entry, r).v)
<1>1. PICK res : res = cel_map_merge_at(m, entry, r).v
  OBVIOUS
<1>2. PICK o : o = cel_map_iter_init(entry, r)
  OBVIOUS
<1>3. CASE Poisoned(entry)
  <2>1. res = entry
    BY <1>1, <1>3 DEF cel_map_merge_at
  <2> QED
    BY <1>1, <1>3, <2>1, PoisonFine
<1>4. CASE ~Poisoned(entry) /\ entry.kind # "map"
  <2>1. res = AnErr("type_mismatch")
    BY <1>1, <1>4 DEF cel_map_merge_at
  <2> QED
    BY <1>1, <2>1, ErrFine
<1>5. CASE ~Poisoned(entry) /\ entry.kind = "map"
  <2>1. Len(entry.e) \in Nat /\ Fine(m)
    BY <1>5, MapIsFine
  <2>2. o.view \in {WholeView(entry), OomView(entry), EmptyView(entry)}
    BY <1>2 DEF cel_map_iter_init, CelMapIterOpen
  <2>3. PICK one : one = <<Entry(Overflow, Overflow)>>
    OBVIOUS
  <2>4. Len(one) \in Nat
    BY <2>3
  <2>5. PICK es : es = IF o.view.lost THEN one ELSE o.view.e
    OBVIOUS
  <2>6. Len(es) \in Nat
    <3>1. View(o.view, entry)
      BY <2>1, <2>2, Views
    <3> QED
      BY <3>1, <2>4, <2>5 DEF View
  <2>7. Fine(MergeEntries(m, entry.e, r).v)
    BY <2>1, MergeFine
  <2>8. Fine(MergeEntries(m, es, Left(o.room, 2 * CellBytes)).v)
    BY <2>1, <2>6, MergeFine
  <2>9. \/ res = MergeEntries(m, entry.e, r).v \/ res = m \/ res = Overflow
        \/ res = MergeEntries(m, es, Left(o.room, 2 * CellBytes)).v
    BY <1>1, <1>2, <1>5, <2>3, <2>5 DEF cel_map_merge_at
  <2>10. Fine(Overflow)
    BY ErrFine DEF Overflow
  <2> QED
    BY <1>1, <2>1, <2>7, <2>8, <2>9, <2>10, Zenon
<1> QED
  BY <1>3, <1>4, <1>5

LEMMA VisitMergeInv ==
    ASSUME IInv, NEW p, NEW entry \in Merged, VisitMerge(p, entry)
    PROVE  IInv'
<1>1. PICK pb \in Body(p), eb \in Body(entry) :
        Advance(IF acc.kind # "map" THEN Kept(acc) ELSE Gate(pb, cel_map_merge_at(acc, eb, room)))
  BY DEF VisitMerge
<1>2. PICK step : step = cel_map_merge_at(acc, eb, room)
  OBVIOUS
<1>3. PICK r : r = IF acc.kind # "map" THEN Kept(acc) ELSE Gate(pb, step)
  OBVIOUS
<1>4. Walking /\ mode = "merge" /\ Advance(r)
  BY <1>1, <1>2, <1>3 DEF VisitMerge
<1>5. eb.kind = "map" => Len(eb.e) \in Nat
  <2>1. eb = entry \/ eb = Overflow
    BY DEF Body
  <2>2. Overflow.kind # "map"
    BY DEF Overflow, AnErr
  <2> QED
    BY <2>1, <2>2, CollectionsAssumption
<1>6. ASSUME Fine(acc) PROVE Fine(r.v)
  <2>1. CASE r.v = acc
    BY <1>6, <2>1
  <2>2. CASE r.v.kind \in {"error", "unknown"}
    BY <2>2, PoisonFine DEF Poisoned
  <2>3. CASE acc.kind = "map" /\ r = step
    <3>1. IsMap(acc)
      BY <1>6, <2>3 DEF Fine
    <3> QED
      BY <1>2, <1>5, <2>3, <3>1, MergeAtFine
  <2>4. r.v = acc \/ r.v.kind \in {"error", "unknown"} \/ (acc.kind = "map" /\ r = step)
    <3>1. CASE acc.kind # "map"
      BY <1>3, <3>1 DEF Kept
    <3>2. CASE acc.kind = "map"
      BY <1>3, <3>2, GateCases
    <3> QED
      BY <3>1, <3>2
  <2> QED
    BY <2>1, <2>2, <2>3, <2>4
<1> QED
  BY <1>4, <1>6, AdvanceInv

-----------------------------------------------------------------------------
(* Completion, and the theorems. *)

LEMMA CloseInv ==
    ASSUME IInv, Complete, phase' = "closed", UNCHANGED view
    PROVE  IInv'
<1>1. ~Poisoned(view'.src)
  BY DEF Complete, IInv, FillInv, LoopInv, NoView, Null, Poisoned
<1> QED
  BY <1>1 DEF IInv, StartInv, FillInv, LoopInv, PoisonedRangeIsResult, PresizeSuffices

LEMMA ReadInv ==
    ASSUME IInv, phase' = "read"
    PROVE  IInv'
  BY DEF IInv, StartInv, FillInv, LoopInv, PoisonedRangeIsResult, PresizeSuffices

LEMMA StutterInv ==
    ASSUME IInv, UNCHANGED vars
    PROVE  IInv'
  BY DEF IInv, StartInv, FillInv, LoopInv, PoisonedRangeIsResult, PresizeSuffices, vars,
         Poisoned, Fine, Holds, IsMap, IsList, IsSeq

LEMMA NextInv == IInv /\ [Next]_vars => IInv'
<1> SUFFICES ASSUME IInv, [Next]_vars PROVE IInv'
  OBVIOUS
<1>1. ASSUME NEW n \in 0 .. MaxLiteral, StartLiteral(n) PROVE IInv'
  BY <1>1, StartLiteralInv
<1>2. ASSUME NEW k \in Keys, NEW v \in Vals, InsertEntry(k, v) \/ InsertIfPresent(k, v) PROVE IInv'
  BY <1>2, InsertEntryInv, InsertIfPresentInv
<1>3. ASSUME NEW v \in Vals, AppendElement(v) \/ AppendIfPresent(v) PROVE IInv'
  BY <1>3, AppendElementInv, AppendIfPresentInv
<1>4. ASSUME NEW es \in Constants, NEW stages \in BOOLEAN, NEW h \in Hashes, UseConstantMap(es, stages, h)
      PROVE  IInv'
  BY <1>4, UseConstantInv DEF UseConstantMap
<1>5. ASSUME NEW vs, UseConstantList(vs) PROVE IInv'
  BY <1>5, UseConstantInv DEF UseConstantList
<1>6. ASSUME NEW src \in Sources, StartWalk(src) PROVE IInv'
  BY <1>6, StartWalkInv
<1>7. ASSUME NEW p \in Preds, NEW k \in Keys, NEW v \in Vals, VisitInsert(p, k, v) PROVE IInv'
  BY <1>7, VisitInsertInv
<1>8. ASSUME NEW p \in Preds, NEW m \in Merged, VisitMerge(p, m) PROVE IInv'
  BY <1>8, VisitMergeInv
<1>9. ASSUME NEW p \in Preds, NEW v \in Vals, VisitAppend(p, v) PROVE IInv'
  BY <1>9, VisitAppendInv
<1>10. ASSUME NEW h \in Hashes, BuildIndex(h) PROVE IInv'
  BY <1>10, CloseInv DEF BuildIndex
<1>11. CASE CloseList
  BY <1>11, CloseInv DEF CloseList
<1>12. ASSUME NEW k \in Queries, AskKey(k) PROVE IInv'
  BY <1>12, ReadInv DEF AskKey
<1>13. ASSUME NEW i \in 0 .. MaxLiteral, AskAt(i) PROVE IInv'
  BY <1>13, ReadInv DEF AskAt
<1>14. CASE UNCHANGED vars
  BY <1>14, StutterInv
<1> QED
  BY <1>1, <1>2, <1>3, <1>4, <1>5, <1>6, <1>7, <1>8, <1>9, <1>10, <1>11, <1>12, <1>13, <1>14 DEF Next

\* The counting invariant holds of every run of the generated code: while a
\* literal is filled or a range is walked, the entries in place and the ones
\* to come fit the capacity that was computed beforehand.
THEOREM Invariance == Spec => []IInv
<1>1. Init => IInv
  BY InitInv
<1>2. IInv /\ [Next]_vars => IInv'
  BY NextInv
<1> QED
  BY <1>1, <1>2, PTL DEF Spec

\* __builtin_trap is not reached by a walk that opened, nor by a literal,
\* whatever the range, the predicates and the room in the arena
\* (EmitPresizeAccu, cel_map_count, cel_list_append_at,
\* map_insert_at_kernel, arena_map_grow_one).
THEOREM PresizeAlwaysSuffices == Spec => []PresizeSuffices
<1>1. IInv => PresizeSuffices
  BY DEF IInv
<1> QED
  BY <1>1, Invariance, PTL

\* A comprehension over an error or an unknown is that error or unknown, with
\* every kind of accumulator (EmitRangeAbsorptionGuard).
THEOREM PoisonedRangeAlwaysResult == Spec => []PoisonedRangeIsResult
<1>1. IInv => PoisonedRangeIsResult
  BY DEF IInv
<1> QED
  BY <1>1, Invariance, PTL

=============================================================================
