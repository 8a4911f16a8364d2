---------------------------- MODULE ArenaProofs ----------------------------
(***************************************************************************)
(* Proofs about the arena for every heap, word size, capacity and request. *)
(*                                                                         *)
(* AllocationsDisjoint is not inductive: it says nothing about where the   *)
(* chunks lie.  The strengthening has one part per idea, stated over a     *)
(* heap h, a chain cs, an emergency block o, the other users' blocks e and *)
(* the allocations lv, so that a growth followed by a bump can be taken in *)
(* two steps.                                                              *)
(***************************************************************************)
EXTENDS Arena, TLAPS, SequenceTheorems, FiniteSetTheorems, WellFoundedInduction, NaturalsInduction

\* Cursors stay within their chunk and on an 8-byte boundary.
ChunksOK(cs) ==
    /\ cs \in Seq(Chunk)
    /\ \A i \in 1 .. Len(cs) :
         /\ cs[i].cursor <= cs[i].capacity
         /\ cs[i].cursor % Align = 0
         /\ cs[i].base % Align = 0
         /\ cs[i].base > 0

\* Blocks with different owners share no byte.
ChunksApart(cs) ==
    /\ \A i \in 1 .. Len(cs) : Disjoint(cs[i].hdr, Buf(cs[i]))
    /\ \A i, j \in 1 .. Len(cs) : i # j =>
          \A x \in ChunkBlocks(cs[i]), y \in ChunkBlocks(cs[j]) : Disjoint(x, y)

OthersApart(cs, o, e) ==
    /\ \A i \in 1 .. Len(cs) : \A x \in ChunkBlocks(cs[i]) :
          \A y \in OomBlocks(o) \cup e : Disjoint(x, y)
    /\ \A x \in OomBlocks(o), y \in e : Disjoint(x, y)

HeapOK(h, cs, o, e) ==
    /\ \A b \in h : b \in Block /\ b.size > 0
    /\ h = OwnedBy(cs, o, e)

\* Allocations lie in used prefixes and share no byte.
LiveOK(cs, lv) ==
    /\ \A a \in lv :
         /\ a \in Block /\ a.size > 0 /\ a.at % Align = 0 /\ a.at > 0
         /\ \E i \in 1 .. Len(cs) : Within(a, Used(cs[i]))
    /\ \A a, b \in lv : a # b => Disjoint(a, b)

Safe(h, cs, o, e, lv) ==
    /\ ChunksOK(cs) /\ ChunksApart(cs) /\ OthersApart(cs, o, e)
    /\ HeapOK(h, cs, o, e) /\ LiveOK(cs, lv) /\ o \in Nat

\* The inductive invariant.
IInv ==
    /\ TypeOK
    /\ Safe(heap, chain, oomBlock, env, live)
    /\ initialized <=> chain # <<>>
    /\ chain = <<>> => oomBlock = 0

-----------------------------------------------------------------------------
(* The operators *)

\* align_up_8 does not wrap for the requests arena_alloc lets through, and
\* what it returns covers the request.
LEMMA NeedCovers ==
    ASSUME NEW n \in Nat, ~Wraps(n)
    PROVE  /\ Need(n) \in Nat /\ Need(n) % Align = 0
           /\ Need(n) >= Asked(n) /\ Need(n) < Word
           /\ Asked(n) \in Nat /\ Asked(n) > 0
<1> DEFINE up == (n + 7) - ((n + 7) % 8)
<1>1. up \in Nat /\ up >= n /\ up <= n + 7 /\ up % 8 = 0
  OBVIOUS
<1>2. Word \in Nat /\ Word > 8 /\ Word % 8 = 0
  BY ArenaAssumption DEF Align
<1>3. up < Word
  BY <1>1, <1>2 DEF Wraps
<1>4. up % Word = up
  BY <1>1, <1>2, <1>3
<1>5. align_up_8(n) = up
  BY <1>4 DEF align_up_8, Align
<1> QED
  BY <1>1, <1>2, <1>3, <1>5 DEF Need, Align, Asked

\* A grown chunk always holds the request that triggered the growth, also
\* when doubling the previous capacity wraps.
LEMMA GrowCovers ==
    ASSUME NEW p \in Nat, NEW need \in Nat, need > 0, need < Word
    PROVE  /\ pick_grow_size(p, need) \in 0 .. (Word - 1)
           /\ pick_grow_size(p, need) >= need
           /\ pick_grow_size(p, need) > 0
<1>1. (p * 2) % Word \in Nat
  BY ArenaAssumption DEF Align
<1>2. /\ MinGrow \in Nat /\ MaxGrow \in Nat /\ MinGrow > 0 /\ MinGrow <= MaxGrow
      /\ MaxGrow < Word /\ Word \in Nat
  BY ArenaAssumption
<1> QED
  BY <1>1, <1>2 DEF pick_grow_size

\* malloc's addresses are positive and aligned as align_up_8 expects.
LEMMA AddrFacts == \A a \in Addrs : a \in Nat /\ a > 0 /\ a % Align = 0
BY ArenaAssumption

\* What malloc returns lies in the heap and shares no byte with a live block.
LEMMA MallocFresh ==
    ASSUME NEW h, NEW n \in Nat, n > 0, NEW b \in Malloc(h, n)
    PROVE  /\ b \in Block /\ b.size = n /\ b.size > 0
           /\ b.at > 0 /\ b.at % Align = 0
           /\ \A x \in h : Disjoint(b, x)
<1>1. b.at \in Addrs /\ b.size = n /\ b = [at |-> b.at, size |-> n]
  BY DEF Malloc
<1>2. b.at \in Nat /\ b.at > 0 /\ b.at % Align = 0
  BY <1>1, AddrFacts
<1> QED
  BY <1>1, <1>2 DEF Malloc, Block

\* Sharing no byte is symmetric.
LEMMA DisjointSym ==
    ASSUME NEW a, NEW b, Disjoint(a, b)
    PROVE  Disjoint(b, a)
BY DEF Disjoint

\* A new chunk is well formed and shares no byte with a live block.
LEMMA ChunkFresh ==
    ASSUME NEW n \in 0 .. (Word - 1), n > 0, NEW c \in alloc_chunk(n)
    PROVE  /\ c \in Chunk /\ c.capacity = n /\ c.cursor = 0
           /\ c.base > 0 /\ c.base % Align = 0
           /\ Disjoint(c.hdr, Buf(c))
           /\ \A x \in ChunkBlocks(c) : x \in Block /\ x.size > 0
           /\ \A x \in ChunkBlocks(c), y \in heap : Disjoint(x, y)
<1>1. /\ c \in [hdr : Malloc(heap, HdrBytes), base : Addrs, capacity : {n}, cursor : {0}]
      /\ Buf(c) \in Malloc(heap \cup {c.hdr}, n)
  BY DEF alloc_chunk
<1>2. c.hdr \in Malloc(heap, HdrBytes) /\ c.capacity = n /\ c.cursor = 0 /\ c.base \in Addrs
  BY <1>1
<1>3. HdrBytes \in Nat /\ HdrBytes > 0
  BY ArenaAssumption
<1>4. /\ c.hdr \in Block /\ c.hdr.size > 0
      /\ \A x \in heap : Disjoint(c.hdr, x)
  BY <1>2, <1>3, MallocFresh
<1>5. /\ Buf(c) \in Block /\ Buf(c).size > 0
      /\ \A x \in heap \cup {c.hdr} : Disjoint(Buf(c), x)
  BY <1>1, MallocFresh
<1>6. c.base \in Nat /\ c.base > 0 /\ c.base % Align = 0
  BY <1>2, AddrFacts
<1>7. c \in Chunk
  BY <1>1, <1>2, <1>4, <1>6 DEF Chunk
<1>8. Disjoint(c.hdr, Buf(c))
  BY <1>5, DisjointSym
<1> QED
  BY <1>2, <1>4, <1>5, <1>6, <1>7, <1>8 DEF ChunkBlocks

-----------------------------------------------------------------------------
(* The steps, over explicit values *)

\* Linking a fresh chunk at the end of the chain keeps the chain safe.
LEMMA GrowSafe ==
    ASSUME NEW h, NEW cs, NEW o, NEW e, NEW lv, NEW c \in Chunk,
           Safe(h, cs, o, e, lv),
           c.cursor = 0, c.base > 0, c.base % Align = 0,
           Disjoint(c.hdr, Buf(c)),
           \A x \in ChunkBlocks(c) : x \in Block /\ x.size > 0,
           \A x \in ChunkBlocks(c), y \in h : Disjoint(x, y)
    PROVE  Safe(h \cup ChunkBlocks(c), Append(cs, c), o, e, lv)
<1> DEFINE ds == Append(cs, c)
<1>0. cs \in Seq(Chunk)
  BY DEF Safe, ChunksOK
<1>1. /\ ds \in Seq(Chunk) /\ Len(ds) = Len(cs) + 1 /\ Len(cs) \in Nat
      /\ \A i \in 1 .. Len(cs) : ds[i] = cs[i]
      /\ ds[Len(cs) + 1] = c
  BY <1>0
<1> HIDE DEF ds
<1>2. ChunksOK(ds)
  <2>1. c.cursor <= c.capacity /\ c.cursor % Align = 0
    BY DEF Chunk, Align
  <2> QED
    BY <1>1, <2>1 DEF ChunksOK, Safe
<1>3. \A i \in 1 .. Len(cs) : ChunkBlocks(cs[i]) \subseteq h
  BY DEF Safe, HeapOK, OwnedBy
<1>4. ChunksApart(ds)
  <2>1. \A i \in 1 .. Len(ds) : Disjoint(ds[i].hdr, Buf(ds[i]))
    BY <1>1 DEF Safe, ChunksApart
  <2>2. ASSUME NEW i \in 1 .. Len(ds), NEW j \in 1 .. Len(ds), i # j,
               NEW x \in ChunkBlocks(ds[i]), NEW y \in ChunkBlocks(ds[j])
        PROVE  Disjoint(x, y)
    <3>1. CASE i \in 1 .. Len(cs) /\ j \in 1 .. Len(cs)
      BY <1>1, <2>2, <3>1 DEF Safe, ChunksApart
    <3>2. CASE i = Len(cs) + 1
      <4>1. j \in 1 .. Len(cs)
        BY <1>1, <2>2, <3>2
      <4>2. x \in ChunkBlocks(c) /\ y \in h
        BY <1>1, <1>3, <3>2, <4>1
      <4> QED
        BY <4>2
    <3>3. CASE j = Len(cs) + 1
      <4>1. i \in 1 .. Len(cs)
        BY <1>1, <2>2, <3>3
      <4>2. y \in ChunkBlocks(c) /\ x \in h
        BY <1>1, <1>3, <3>3, <4>1
      <4> QED
        BY <4>2, DisjointSym
    <3> QED
      BY <1>1, <3>1, <3>2, <3>3
  <2> QED
    BY <2>1, <2>2 DEF ChunksApart
<1>5. OthersApart(ds, o, e)
  <2>1. OomBlocks(o) \cup e \subseteq h
    BY DEF Safe, HeapOK, OwnedBy
  <2>2. ASSUME NEW i \in 1 .. Len(ds), NEW x \in ChunkBlocks(ds[i]),
               NEW y \in OomBlocks(o) \cup e
        PROVE  Disjoint(x, y)
    <3>1. CASE i \in 1 .. Len(cs)
      BY <1>1, <3>1 DEF Safe, OthersApart
    <3>2. CASE i = Len(cs) + 1
      BY <1>1, <2>1, <3>2
    <3> QED
      BY <1>1, <3>1, <3>2
  <2> QED
    BY <2>2 DEF Safe, OthersApart
<1>6. HeapOK(h \cup ChunkBlocks(c), ds, o, e)
  <2>1. UNION {ChunkBlocks(ds[i]) : i \in 1 .. Len(ds)}
          = (UNION {ChunkBlocks(cs[i]) : i \in 1 .. Len(cs)}) \cup ChunkBlocks(c)
    BY <1>1
  <2> QED
    BY <2>1 DEF Safe, HeapOK, OwnedBy
<1>7. LiveOK(ds, lv)
  BY <1>1 DEF Safe, LiveOK
<1> QED
  BY <1>2, <1>4, <1>5, <1>6, <1>7 DEF Safe, ds

\* An allocation below one cursor and one just above another share no byte
\* when the two chunks do not overlap.
LEMMA UsedPrefixesApart ==
    ASSUME NEW at \in Nat, NEW size \in Nat, NEW k \in Nat,
           NEW b1 \in Nat, NEW u1 \in Nat, NEW c1 \in Nat, u1 <= c1,
           NEW b2 \in Nat, NEW u2 \in Nat, NEW c2 \in Nat, k <= c2 - u2,
           b1 <= at, at + size <= b1 + u1,
           b1 + c1 <= b2 \/ b2 + c2 <= b1
    PROVE  at + size <= b2 + u2 \/ (b2 + u2) + k <= at
OBVIOUS

\* arena_alloc's bump of a cursor changes nothing else of the chunk.
LEMMA ChunkBump ==
    ASSUME NEW c \in Chunk, NEW k \in Nat
    PROVE  LET d == [c EXCEPT !.cursor = @ + k] IN
           /\ d \in Chunk /\ d.hdr = c.hdr /\ d.base = c.base /\ d.capacity = c.capacity
           /\ d.cursor = c.cursor + k
BY DEF Chunk

\* Handing out the next `need` bytes of the last chunk, of which the caller
\* may use those it asked for, keeps the chain safe.
LEMMA BumpSafe ==
    ASSUME NEW h, NEW cs, NEW o, NEW e, NEW lv, NEW need \in Nat, NEW asked \in Nat,
           Safe(h, cs, o, e, lv), cs # <<>>,
           asked > 0, asked <= need, need % Align = 0,
           need <= cs[Len(cs)].capacity - cs[Len(cs)].cursor
    PROVE  Safe(h, [cs EXCEPT ![Len(cs)].cursor = @ + need], o, e,
                lv \cup {[at |-> cs[Len(cs)].base + cs[Len(cs)].cursor, size |-> asked]})
<1> DEFINE t  == cs[Len(cs)]
           u  == [t EXCEPT !.cursor = @ + need]
           ds == [cs EXCEPT ![Len(cs)] = u]
           nw == [at |-> t.base + t.cursor, size |-> asked]
<1>1. cs \in Seq(Chunk) /\ Len(cs) \in Nat \ {0} /\ t \in Chunk
  <2>1. cs \in Seq(Chunk)
    BY DEF Safe, ChunksOK
  <2> QED
    BY <2>1, EmptySeq, ElementOfSeq, LenProperties
<1>2. /\ u \in Chunk /\ u.hdr = t.hdr /\ u.base = t.base /\ u.capacity = t.capacity
      /\ u.cursor = t.cursor + need
  <2> HIDE DEF t
  <2> QED
    BY <1>1, ChunkBump
<1>3. /\ ds \in Seq(Chunk) /\ Len(ds) = Len(cs)
      /\ \A i \in 1 .. Len(cs) : ds[i] = IF i = Len(cs) THEN u ELSE cs[i]
  BY <1>1, <1>2, ExceptSeq
<1>4. \A i \in 1 .. Len(cs) : ds[i].hdr = cs[i].hdr /\ Buf(ds[i]) = Buf(cs[i])
                              /\ ds[i].base = cs[i].base
  BY <1>1, <1>2, <1>3 DEF Buf
<1>5. \A i \in 1 .. Len(cs) : ChunkBlocks(ds[i]) = ChunkBlocks(cs[i])
  BY <1>4 DEF ChunkBlocks
<1>t. /\ t.base \in Nat /\ t.cursor \in Nat /\ t.capacity \in Nat
      /\ t.cursor % Align = 0 /\ t.base % Align = 0 /\ t.base > 0
      /\ t.cursor <= t.capacity
  BY <1>1 DEF Safe, ChunksOK, Chunk
<1>6. ChunksOK(ds)
  <2>1. u.cursor <= u.capacity /\ u.cursor % Align = 0
    <3>1. need <= t.capacity - t.cursor
      OBVIOUS
    <3>2. PICK k \in Nat, c \in Nat, w \in Nat : k = t.cursor /\ c = t.capacity /\ w = need
      BY <1>t
    <3>3. k % 8 = 0 /\ w % 8 = 0 /\ w <= c - k
      BY <1>t, <3>1, <3>2 DEF Align
    <3>4. (k + w) % 8 = 0 /\ k + w <= c
      BY <3>3
    <3>5. u.cursor = k + w /\ u.capacity = c
      BY <1>2, <3>2
    <3> QED
      BY <3>4, <3>5 DEF Align
  <2> QED
    BY <1>1, <1>2, <1>3, <1>t, <2>1 DEF Safe, ChunksOK
<1>7. ChunksApart(ds)
  BY <1>3, <1>4, <1>5 DEF Safe, ChunksApart
<1>8. OthersApart(ds, o, e)
  BY <1>3, <1>5 DEF Safe, OthersApart
<1>9. HeapOK(h, ds, o, e)
  <2>1. UNION {ChunkBlocks(ds[i]) : i \in 1 .. Len(ds)}
          = UNION {ChunkBlocks(cs[i]) : i \in 1 .. Len(cs)}
    BY <1>3, <1>5
  <2> QED
    BY <2>1 DEF Safe, HeapOK, OwnedBy
<1> HIDE DEF ds, u, t
<1>10. LiveOK(ds, lv \cup {nw})
  <2>1. /\ nw \in Block /\ nw.size > 0 /\ nw.at % Align = 0 /\ nw.at > 0
        /\ nw.at = t.base + t.cursor /\ nw.size = asked
    <3>1. PICK b \in Nat, k \in Nat : b = t.base /\ k = t.cursor
      BY <1>t
    <3>2. b % 8 = 0 /\ k % 8 = 0 /\ b > 0
      BY <1>t, <3>1 DEF Align
    <3>3. (b + k) % 8 = 0 /\ b + k \in Nat /\ b + k > 0
      BY <3>2
    <3>4. nw.at = b + k /\ nw.size = asked /\ nw = [at |-> b + k, size |-> asked]
      BY <3>1
    <3>5. nw \in Block
      BY <3>3, <3>4 DEF Block
    <3> QED
      BY <3>1, <3>3, <3>4, <3>5 DEF Align
  <2>2. Within(nw, Used(ds[Len(cs)]))
    <3>1. ds[Len(cs)] = u /\ u.base = t.base /\ u.cursor = t.cursor + need
      BY <1>1, <1>2, <1>3
    <3>2. t.base <= t.base + t.cursor /\ (t.base + t.cursor) + asked <= t.base + (t.cursor + need)
      BY <1>t
    <3> QED
      BY <2>1, <3>1, <3>2 DEF Within, Used
  <2>3. ASSUME NEW a \in lv
        PROVE  /\ Disjoint(a, nw)
               /\ \E i \in 1 .. Len(ds) : Within(a, Used(ds[i]))
    <3>1. /\ a \in Block /\ a.at \in Nat /\ a.size \in Nat
          /\ \E i \in 1 .. Len(cs) : Within(a, Used(cs[i]))
      BY DEF Safe, LiveOK, Block
    <3>2. PICK i \in 1 .. Len(cs) : Within(a, Used(cs[i]))
      BY <3>1
    <3>3. cs[i] \in Chunk /\ cs[i].base \in Nat /\ cs[i].cursor \in Nat
          /\ cs[i].capacity \in Nat /\ cs[i].cursor <= cs[i].capacity
      <4>1. cs[i] \in Chunk
        BY <1>1, ElementOfSeq
      <4> QED
        BY <4>1 DEF Safe, ChunksOK, Chunk
    <3>4. CASE i = Len(cs)
      <4>1. a.at + a.size <= t.base + t.cursor /\ t.base <= a.at
        BY <3>2, <3>4 DEF Within, Used, t
      <4>2. Within(a, Used(ds[i]))
        <5>1. ds[i] = u
          BY <1>3, <3>4
        <5>2. u.base = t.base /\ u.cursor = t.cursor + need
          BY <1>2
        <5> QED
          BY <1>t, <3>1, <4>1, <5>1, <5>2 DEF Within, Used
      <4> QED
        BY <1>3, <2>1, <4>1, <4>2 DEF Disjoint
    <3>5. CASE i # Len(cs)
      <4>1. Disjoint(Buf(cs[i]), Buf(t))
        BY <1>1, <3>5 DEF Safe, ChunksApart, ChunkBlocks, t
      <4>2. ds[i] = cs[i]
        BY <1>3, <3>5
      <4>3. /\ cs[i].base <= a.at
            /\ a.at + a.size <= cs[i].base + cs[i].cursor
        BY <3>2 DEF Within, Used
      <4>4. \/ cs[i].base + cs[i].capacity <= t.base
            \/ t.base + t.capacity <= cs[i].base
        BY <4>1 DEF Disjoint, Buf
      <4>5. asked <= t.capacity - t.cursor
        BY <1>t DEF t
      <4>6. Disjoint(a, nw)
        <5>1. t.base \in Nat /\ t.cursor \in Nat /\ t.capacity \in Nat
          BY <1>t
        <5>2. nw.at = t.base + t.cursor /\ nw.size = asked
          BY <2>1
        <5>3. a.at \in Nat /\ a.size \in Nat
          BY <3>1
        <5>4. /\ cs[i].base \in Nat /\ cs[i].cursor \in Nat /\ cs[i].capacity \in Nat
              /\ cs[i].cursor <= cs[i].capacity
          BY <3>3
        <5>5. a.at + a.size <= t.base + t.cursor \/ (t.base + t.cursor) + asked <= a.at
          <6> HIDE DEF nw
          <6> QED
            BY <4>3, <4>4, <4>5, <5>1, <5>3, <5>4, UsedPrefixesApart
        <5> HIDE DEF nw
        <5> QED
          BY <5>2, <5>5 DEF Disjoint
      <4> QED
        BY <1>3, <3>2, <4>2, <4>6
    <3> QED
      BY <3>4, <3>5
  <2>4. \A a \in lv \cup {nw} :
          /\ a \in Block /\ a.size > 0 /\ a.at % Align = 0 /\ a.at > 0
          /\ \E i \in 1 .. Len(ds) : Within(a, Used(ds[i]))
    BY <1>1, <1>3, <2>1, <2>2, <2>3 DEF Safe, LiveOK
  <2>5. \A a, b \in lv \cup {nw} : a # b => Disjoint(a, b)
    BY <2>3, DisjointSym DEF Safe, LiveOK
  <2> QED
    BY <2>4, <2>5 DEF LiveOK
<1>11. [cs EXCEPT ![Len(cs)].cursor = @ + need] = ds
  BY DEF ds, u, t
<1>12. Safe(h, ds, o, e, lv \cup {nw})
  BY <1>6, <1>7, <1>8, <1>9, <1>10 DEF Safe
<1> QED
  BY <1>11, <1>12 DEF t

\* The first arena_init: one chunk, and the emergency block if malloc had it.
LEMMA FirstSafe ==
    ASSUME NEW h, NEW e, NEW c \in Chunk, NEW o \in Nat,
           \A b \in h : b \in Block /\ b.size > 0, h = e,
           c.cursor = 0, c.base > 0, c.base % Align = 0,
           Disjoint(c.hdr, Buf(c)),
           \A x \in ChunkBlocks(c) : x \in Block /\ x.size > 0,
           \A x \in ChunkBlocks(c), y \in h : Disjoint(x, y),
           \A x \in OomBlocks(o), y \in h \cup ChunkBlocks(c) : Disjoint(x, y)
    PROVE  Safe(h \cup ChunkBlocks(c) \cup OomBlocks(o), <<c>>, o, e, {})
<1> DEFINE ds == <<c>>
<1>1. ds \in Seq(Chunk) /\ Len(ds) = 1 /\ ds[1] = c
  OBVIOUS
<1> HIDE DEF ds
<1>2. ChunksOK(ds)
  BY <1>1 DEF ChunksOK, Chunk, Align
<1>3. ChunksApart(ds)
  BY <1>1 DEF ChunksApart
<1>4. OthersApart(ds, o, e)
  BY <1>1, DisjointSym DEF OthersApart
<1>5. HeapOK(h \cup ChunkBlocks(c) \cup OomBlocks(o), ds, o, e)
  <2>1. UNION {ChunkBlocks(ds[i]) : i \in 1 .. Len(ds)} = ChunkBlocks(c)
    BY <1>1
  <2>2. \A b \in OomBlocks(o) : b \in Block /\ b.size > 0
    BY ArenaAssumption DEF OomBlocks, Block
  <2> QED
    BY <2>1, <2>2 DEF HeapOK, OwnedBy
<1>6. LiveOK(ds, {})
  BY DEF LiveOK
<1> QED
  BY <1>2, <1>3, <1>4, <1>5, <1>6 DEF Safe, ds

\* arena_reset frees the blocks of the later chunks and no other block.
LEMMA ResetSafe ==
    ASSUME NEW h, NEW cs, NEW o, NEW e, NEW lv,
           Safe(h, cs, o, e, lv), cs # <<>>
    PROVE  Safe(h \ (UNION {ChunkBlocks(c) : c \in {cs[i] : i \in 2 .. Len(cs)}}),
                <<[cs[1] EXCEPT !.cursor = 0]>>, o, e, {})
<1> DEFINE t    == cs[1]
           u    == [t EXCEPT !.cursor = 0]
           gone == UNION {ChunkBlocks(c) : c \in {cs[i] : i \in 2 .. Len(cs)}}
           ds   == <<u>>
<1>1. cs \in Seq(Chunk) /\ Len(cs) \in Nat \ {0} /\ t \in Chunk
  <2>1. cs \in Seq(Chunk)
    BY DEF Safe, ChunksOK
  <2> QED
    BY <2>1, EmptySeq, ElementOfSeq, LenProperties
<1>2. /\ u \in Chunk /\ u.hdr = t.hdr /\ u.base = t.base /\ u.capacity = t.capacity
      /\ u.cursor = 0
  <2> HIDE DEF t
  <2> QED
    BY <1>1 DEF Chunk
<1>3. Buf(u) = Buf(t) /\ ChunkBlocks(u) = ChunkBlocks(t)
  <2> HIDE DEF t, u
  <2> QED
    BY <1>2 DEF Buf, ChunkBlocks
<1>4. t.base > 0 /\ t.base % Align = 0 /\ Disjoint(t.hdr, Buf(t))
  BY <1>1 DEF Safe, ChunksOK, ChunksApart
<1> HIDE DEF u
<1>5. ds \in Seq(Chunk) /\ Len(ds) = 1 /\ ds[1] = u
  BY <1>2
<1>6. ChunkBlocks(t) \subseteq h /\ OomBlocks(o) \cup e \subseteq h
  BY <1>1 DEF Safe, HeapOK, OwnedBy
<1>7. \A x \in gone : \E i \in 2 .. Len(cs) : x \in ChunkBlocks(cs[i])
  OBVIOUS
<1>8. \A x \in gone : \A y \in ChunkBlocks(t) \cup OomBlocks(o) \cup e : Disjoint(x, y)
  <2>1. ASSUME NEW x \in gone, NEW y \in ChunkBlocks(t)
        PROVE  Disjoint(x, y)
    <3>1. PICK i \in 2 .. Len(cs) : x \in ChunkBlocks(cs[i])
      BY <1>7
    <3> QED
      BY <1>1, <3>1 DEF Safe, ChunksApart
  <2>2. ASSUME NEW x \in gone, NEW y \in OomBlocks(o) \cup e
        PROVE  Disjoint(x, y)
    <3>1. PICK i \in 2 .. Len(cs) : x \in ChunkBlocks(cs[i])
      BY <1>7
    <3> QED
      BY <1>1, <3>1 DEF Safe, OthersApart
  <2> QED
    BY <2>1, <2>2
<1>9. \A x \in h : \A y \in h : Disjoint(x, y) => x # y
  <2>1. \A x \in h : x.at \in Nat /\ x.size \in Nat /\ x.size > 0
    BY DEF Safe, HeapOK, Block
  <2> QED
    BY <2>1 DEF Disjoint
<1>10. h = gone \cup ChunkBlocks(t) \cup OomBlocks(o) \cup e
  <2>1. UNION {ChunkBlocks(cs[i]) : i \in 1 .. Len(cs)} = gone \cup ChunkBlocks(t)
    BY <1>1
  <2> QED
    BY <2>1 DEF Safe, HeapOK, OwnedBy
<1> HIDE DEF gone, t
<1>11. h \ gone = ChunkBlocks(t) \cup OomBlocks(o) \cup e
  BY <1>8, <1>9, <1>10
<1> HIDE DEF ds
<1>12. ChunksOK(ds)
  BY <1>2, <1>4, <1>5 DEF ChunksOK, Chunk, Align
<1>13. ChunksApart(ds)
  BY <1>2, <1>3, <1>4, <1>5 DEF ChunksApart
<1>14. OthersApart(ds, o, e)
  BY <1>1, <1>3, <1>5 DEF Safe, OthersApart, t
<1>15. HeapOK(h \ gone, ds, o, e)
  <2>1. UNION {ChunkBlocks(ds[i]) : i \in 1 .. Len(ds)} = ChunkBlocks(t)
    BY <1>3, <1>5
  <2> QED
    BY <1>11, <2>1 DEF Safe, HeapOK, OwnedBy
<1>16. LiveOK(ds, {})
  BY DEF LiveOK
<1>17. Safe(h \ gone, ds, o, e, {})
  BY <1>12, <1>13, <1>14, <1>15, <1>16 DEF Safe
<1> QED
  BY <1>17 DEF ds, u, t, gone

-----------------------------------------------------------------------------
(* The steps of the specification *)

\* Nothing is live and the heap holds only other users' blocks before arena_init.
LEMMA BeforeInit ==
    ASSUME IInv, chain = <<>>
    PROVE  live = {}
<1>1. Len(chain) = 0
  OBVIOUS
<1> QED
  BY <1>1 DEF IInv, Safe, LiveOK

\* The parts of Safe that TypeOK repeats.
LEMMA SafeTypes ==
    ASSUME NEW h, NEW cs, NEW o, NEW e, NEW lv, Safe(h, cs, o, e, lv)
    PROVE  h \subseteq Block /\ e \subseteq Block /\ lv \subseteq Block
           /\ cs \in Seq(Chunk) /\ o \in Nat
BY DEF Safe, HeapOK, LiveOK, ChunksOK, OwnedBy

\* The zero-initialised g_arena satisfies the invariant.
LEMMA InitIInv == Init => IInv
<1> SUFFICES ASSUME Init PROVE IInv
  OBVIOUS
<1>2. chain \in Seq(Chunk) /\ Len(chain) = 0
  BY DEF Init
<1>z. 0 \in 0 .. (Word - 1)
  BY ArenaAssumption DEF Align
<1>1. TypeOK
  BY <1>2, <1>z DEF Init, TypeOK
<1>3. Safe(heap, chain, oomBlock, env, live)
  BY <1>2 DEF Init, Safe, ChunksOK, ChunksApart, OthersApart, HeapOK, LiveOK, OwnedBy, OomBlocks
<1> QED
  BY <1>1, <1>3 DEF Init, IInv

\* arena_init's first call: the first chunk and the emergency block, or one
\* of the two mallocs failing.
LEMMA FirstInitIInv ==
    ASSUME IInv, NEW cap \in Caps, FirstInit(cap)
    PROVE  IInv'
<1>1. cap \in 0 .. (Word - 1) /\ cap > 0
  BY ArenaAssumption DEF Align
<1>2. PICK c \in alloc_chunk(cap) :
        /\ \/ \E o \in Malloc(heap \cup ChunkBlocks(c), OomBytes) :
                 oomBlock' = o.at /\ heap' = heap \cup ChunkBlocks(c) \cup {o}
           \/ oomBlock' = 0 /\ heap' = heap \cup ChunkBlocks(c)
        /\ chain' = <<c>> /\ totalCap' = cap
  BY DEF FirstInit
<1>3. chain = <<>> /\ live = {}
  BY BeforeInit DEF IInv, FirstInit
<1>4. /\ c \in Chunk /\ c.cursor = 0 /\ c.base > 0 /\ c.base % Align = 0
      /\ Disjoint(c.hdr, Buf(c))
      /\ \A x \in ChunkBlocks(c) : x \in Block /\ x.size > 0
      /\ \A x \in ChunkBlocks(c), y \in heap : Disjoint(x, y)
  BY <1>1, ChunkFresh
<1>5. /\ \A b \in heap : b \in Block /\ b.size > 0
      /\ heap = env
  <2>1. Len(chain) = 0 /\ OomBlocks(oomBlock) = {}
    BY <1>3 DEF IInv, OomBlocks
  <2>2. UNION {ChunkBlocks(chain[i]) : i \in 1 .. Len(chain)} = {}
    BY <2>1
  <2> QED
    BY <2>1, <2>2 DEF IInv, Safe, HeapOK, OwnedBy
<1>6. /\ oomBlock' \in Nat
      /\ heap' = heap \cup ChunkBlocks(c) \cup OomBlocks(oomBlock')
      /\ \A x \in OomBlocks(oomBlock'), y \in heap \cup ChunkBlocks(c) : Disjoint(x, y)
  <2>1. CASE oomBlock' = 0 /\ heap' = heap \cup ChunkBlocks(c)
    BY <2>1 DEF OomBlocks
  <2>2. ASSUME NEW o \in Malloc(heap \cup ChunkBlocks(c), OomBytes),
               oomBlock' = o.at, heap' = heap \cup ChunkBlocks(c) \cup {o}
        PROVE  <1>6!:
    <3>1. OomBytes \in Nat /\ OomBytes > 0
      BY ArenaAssumption
    <3>2. /\ o \in Block /\ o.size = OomBytes /\ o.at > 0
          /\ \A x \in heap \cup ChunkBlocks(c) : Disjoint(o, x)
      BY <3>1, MallocFresh
    <3>3. o = [at |-> o.at, size |-> OomBytes] /\ o.at \in Nat
      BY <3>2 DEF Block
    <3>4. OomBlocks(oomBlock') = {o}
      BY <2>2, <3>2, <3>3 DEF OomBlocks
    <3> QED
      BY <2>2, <3>2, <3>3, <3>4
  <2> QED
    BY <1>2, <2>1, <2>2
<1>7. Safe(heap \cup ChunkBlocks(c) \cup OomBlocks(oomBlock'), <<c>>, oomBlock', env, {})
  BY <1>4, <1>5, <1>6, FirstSafe
<1>8. Safe(heap', chain', oomBlock', env', live')
  BY <1>2, <1>3, <1>6, <1>7 DEF FirstInit
<1>9. totalUsed' \in 0 .. (Word - 1) /\ totalCap' \in 0 .. (Word - 1)
      /\ initialized' = TRUE /\ ret' = 0
  BY <1>1, <1>2, ArenaAssumption DEF FirstInit, Align
<1>10. TypeOK'
  BY <1>8, <1>9, SafeTypes DEF TypeOK
<1>11. chain' # <<>>
  BY <1>2
<1> QED
  BY <1>8, <1>9, <1>10, <1>11 DEF IInv

\* Whatever leaves the arena alone keeps the invariant.
LEMMA UnchangedIInv ==
    ASSUME IInv, UNCHANGED <<arenaVars, env>>, ret' \in Nat \cup {Trap}
    PROVE  IInv'
BY DEF IInv, TypeOK, arenaVars

\* The tail of arena_alloc, on the chunk that was found or has just been
\* appended.
LEMMA BumpIInv ==
    ASSUME NEW cs, NEW h, NEW need \in Nat, NEW asked \in Nat,
           Safe(h, cs, oomBlock, env, live), cs # <<>>,
           asked > 0, asked <= need, need % Align = 0,
           need <= cs[Len(cs)].capacity - cs[Len(cs)].cursor,
           Bump(cs, asked, need), heap' = h, totalUsed \in Nat,
           totalCap' \in 0 .. (Word - 1),
           initialized' = TRUE, UNCHANGED <<oomBlock, env>>
    PROVE  IInv'
<1> DEFINE t  == cs[Len(cs)]
           lv == live \cup {[at |-> t.base + t.cursor, size |-> asked]}
           ds == [cs EXCEPT ![Len(cs)].cursor = @ + need]
<1>1. chain' = ds /\ live' = lv /\ ret' = t.base + t.cursor
      /\ totalUsed' = (totalUsed + need) % Word
  BY DEF Bump
<1>2. Safe(h, ds, oomBlock, env, lv)
  BY BumpSafe
<1>3. Safe(heap', chain', oomBlock', env', live')
  BY <1>1, <1>2
<1>4. cs \in Seq(Chunk) /\ Len(cs) \in Nat \ {0} /\ t \in Chunk
  <2>1. cs \in Seq(Chunk)
    BY DEF Safe, ChunksOK
  <2> QED
    BY <2>1, EmptySeq, ElementOfSeq, LenProperties
<1>5. ret' \in Nat
  <2> HIDE DEF t
  <2> QED
    BY <1>1, <1>4 DEF Chunk
<1>6. totalUsed' \in 0 .. (Word - 1)
  BY <1>1, ArenaAssumption DEF Align
<1>7. TypeOK'
  BY <1>3, <1>5, <1>6, SafeTypes DEF TypeOK
<1>8. chain' # <<>>
  <2>1. Len(ds) = Len(cs)
    BY <1>4
  <2> QED
    BY <1>1, <1>4, <2>1
<1> QED
  BY <1>3, <1>7, <1>8 DEF IInv

\* Every path of arena_alloc: refused, uninitialised, from the tail, from a
\* new chunk, out of memory.
LEMMA AllocIInv ==
    ASSUME IInv, NEW n \in Requests, arena_alloc(n)
    PROVE  IInv'
<1>n. n \in Nat
  BY ArenaAssumption
<1>1. CASE AllocRefused(n) \/ AllocUninitialized(n) \/ AllocOom(n)
  BY <1>1, UnchangedIInv DEF AllocRefused, AllocUninitialized, AllocOom
<1>2. CASE AllocFromTail(n)
  <2>1. /\ Need(n) \in Nat /\ Need(n) % Align = 0
        /\ Asked(n) \in Nat /\ Asked(n) > 0 /\ Asked(n) <= Need(n)
    BY <1>n, <1>2, NeedCovers DEF AllocFromTail
  <2>2. Need(n) <= chain[Len(chain)].capacity - chain[Len(chain)].cursor
    BY <1>2 DEF AllocFromTail, Fits, Last
  <2> QED
    BY <1>2, <2>1, <2>2, BumpIInv DEF AllocFromTail, IInv, TypeOK
<1>3. CASE AllocFromNewChunk(n)
  <2> DEFINE need == Need(n)
             asked == Asked(n)
             grow == pick_grow_size(Last.capacity, need)
  <2>1. /\ need \in Nat /\ need > 0 /\ need % Align = 0 /\ need < Word
        /\ asked \in Nat /\ asked > 0 /\ asked <= need
    BY <1>n, <1>3, NeedCovers DEF AllocFromNewChunk
  <2>2. chain \in Seq(Chunk) /\ chain # <<>> /\ Last.capacity \in Nat
    <3>1. chain \in Seq(Chunk) /\ chain # <<>>
      BY <1>3 DEF IInv, TypeOK, AllocFromNewChunk
    <3>2. Last \in Chunk
      BY <3>1, EmptySeq, ElementOfSeq DEF Last
    <3> QED
      BY <3>1, <3>2 DEF Chunk
  <2>3. grow \in 0 .. (Word - 1) /\ grow >= need /\ grow > 0
    BY <2>1, <2>2, GrowCovers
  <2>4. PICK c \in alloc_chunk(grow) :
          /\ heap' = heap \cup ChunkBlocks(c)
          /\ totalCap' = (totalCap + grow) % Word
          /\ Bump(Append(chain, c), asked, need)
    BY <1>3 DEF AllocFromNewChunk
  <2> HIDE DEF need, asked, grow
  <2>5. /\ c \in Chunk /\ c.capacity = grow /\ c.cursor = 0
        /\ c.base > 0 /\ c.base % Align = 0
        /\ Disjoint(c.hdr, Buf(c))
        /\ \A x \in ChunkBlocks(c) : x \in Block /\ x.size > 0
        /\ \A x \in ChunkBlocks(c), y \in heap : Disjoint(x, y)
    BY <2>3, <2>4, ChunkFresh
  <2>6. Safe(heap', Append(chain, c), oomBlock, env, live)
    BY <2>4, <2>5, GrowSafe DEF IInv
  <2>7. /\ Append(chain, c) # <<>>
        /\ Append(chain, c)[Len(Append(chain, c))] = c
    BY <2>2
  <2>8. need <= c.capacity - c.cursor
    BY <2>1, <2>3, <2>5
  <2>9. totalCap' \in 0 .. (Word - 1) /\ totalUsed \in Nat
    BY <2>3, <2>4, ArenaAssumption DEF IInv, TypeOK, Align
  <2>10. initialized' = TRUE /\ UNCHANGED <<oomBlock, env>>
    BY <1>3 DEF AllocFromNewChunk, IInv, TypeOK
  <2> QED
    BY <2>1, <2>4, <2>6, <2>7, <2>8, <2>9, <2>10, BumpIInv
<1> QED
  BY <1>1, <1>2, <1>3 DEF arena_alloc

\* arena_reset frees the grown chunks and rewinds the first one.
LEMMA ResetIInv ==
    ASSUME IInv, arena_reset
    PROVE  IInv'
<1>1. Safe(heap', chain', oomBlock', env', live')
  <2>1. Safe(heap \ (UNION {ChunkBlocks(c) : c \in {chain[i] : i \in 2 .. Len(chain)}}),
             <<[chain[1] EXCEPT !.cursor = 0]>>, oomBlock, env, {})
    BY ResetSafe DEF IInv, arena_reset
  <2> QED
    BY <2>1 DEF arena_reset, free_chunks, First
<1>2. First.capacity \in 0 .. (Word - 1)
  <2>1. chain \in Seq(Chunk) /\ chain # <<>>
    BY DEF IInv, TypeOK, arena_reset
  <2>2. First \in Chunk
    BY <2>1, EmptySeq, ElementOfSeq DEF First
  <2> QED
    BY <2>2 DEF Chunk
<1>3. 0 \in 0 .. (Word - 1)
  BY ArenaAssumption DEF Align
<1>4. /\ totalUsed' = 0 /\ totalCap' = First.capacity /\ ret' = 0
      /\ initialized' = TRUE /\ chain' # <<>>
  BY DEF arena_reset, IInv, TypeOK
<1>5. TypeOK'
  BY <1>1, <1>2, <1>3, <1>4, SafeTypes DEF TypeOK
<1> QED
  BY <1>1, <1>4, <1>5 DEF IInv

\* The other users of the heap take and return only blocks of their own.
LEMMA EnvIInv ==
    ASSUME IInv, EnvFree \/ \E n \in EnvSizes : EnvMalloc(n)
    PROVE  IInv'
<1>t. /\ UNCHANGED <<chain, totalUsed, totalCap, initialized, oomBlock, live, ret>>
      /\ \/ \E b \in env : heap' = heap \ {b} /\ env' = env \ {b}
         \/ \E n \in EnvSizes : \E b \in Malloc(heap, n) : heap' = heap \cup {b} /\ env' = env \cup {b}
  BY DEF EnvFree, EnvMalloc
<1> DEFINE mine == (UNION {ChunkBlocks(chain[i]) : i \in 1 .. Len(chain)}) \cup OomBlocks(oomBlock)
<1>0. /\ heap = mine \cup env
      /\ \A x \in heap : x \in Block /\ x.size > 0
      /\ \A x \in mine, y \in env : Disjoint(x, y)
      /\ ChunksOK(chain) /\ ChunksApart(chain) /\ LiveOK(chain, live) /\ oomBlock \in Nat
      /\ \A i \in 1 .. Len(chain) : \A x \in ChunkBlocks(chain[i]) :
            \A y \in OomBlocks(oomBlock) : Disjoint(x, y)
  BY DEF IInv, Safe, HeapOK, OwnedBy, OthersApart
<1>s. ASSUME NEW h, NEW e, h = mine \cup e,
             \A x \in h : x \in Block /\ x.size > 0,
             \A x \in mine, y \in e : Disjoint(x, y)
      PROVE  Safe(h, chain, oomBlock, e, live)
  <2>1. OthersApart(chain, oomBlock, e)
    BY <1>0, <1>s DEF OthersApart
  <2>2. HeapOK(h, chain, oomBlock, e)
    BY <1>s DEF HeapOK, OwnedBy
  <2> QED
    BY <1>0, <2>1, <2>2 DEF Safe
<1>1. Safe(heap', chain, oomBlock, env', live)
  <2>1. ASSUME NEW b \in env, heap' = heap \ {b}, env' = env \ {b}
        PROVE  Safe(heap', chain, oomBlock, env', live)
    <3>1. b \notin mine
      <4>1. b \in heap /\ b.at \in Nat /\ b.size \in Nat /\ b.size > 0
        BY <1>0 DEF Block
      <4>2. ~Disjoint(b, b)
        BY <4>1 DEF Disjoint
      <4> HIDE DEF mine
      <4> QED
        BY <1>0, <4>2
    <3> HIDE DEF mine
    <3>2. heap' = mine \cup env'
      BY <1>0, <2>1, <3>1
    <3> QED
      BY <1>0, <1>s, <2>1, <3>2
  <2>2. ASSUME NEW n \in EnvSizes, NEW b \in Malloc(heap, n),
               heap' = heap \cup {b}, env' = env \cup {b}
        PROVE  Safe(heap', chain, oomBlock, env', live)
    <3>0. n \in Nat /\ n > 0
      BY ArenaAssumption
    <3>1. b \in Block /\ b.size > 0 /\ \A x \in heap : Disjoint(b, x)
      BY <3>0, MallocFresh
    <3> HIDE DEF mine
    <3>2. heap' = mine \cup env'
      BY <1>0, <2>2
    <3>3. \A x \in mine, y \in env' : Disjoint(x, y)
      BY <1>0, <2>2, <3>1, DisjointSym
    <3> QED
      BY <1>0, <1>s, <2>2, <3>1, <3>2, <3>3
  <2> QED
    BY <1>t, <2>1, <2>2
<1>2. Safe(heap', chain', oomBlock', env', live')
  BY <1>1, <1>t
<1>3. TypeOK'
  BY <1>2, <1>t, SafeTypes DEF IInv, TypeOK
<1> QED
  BY <1>2, <1>3, <1>t DEF IInv

\* Every step of the arena and of its heap's other users keeps the invariant.
LEMMA NextIInv == IInv /\ [Next]_vars => IInv'
<1> SUFFICES ASSUME IInv, [Next]_vars PROVE IInv'
  OBVIOUS
<1>1. ASSUME NEW cap \in Caps, arena_init(cap) PROVE IInv'
  <2>1. CASE FirstInit(cap)
    BY <2>1, FirstInitIInv
  <2>2. CASE ReInit(cap) \/ FailedInit(cap)
    BY <2>2, UnchangedIInv DEF ReInit, FailedInit, Trap
  <2> QED
    BY <1>1, <2>1, <2>2 DEF arena_init
<1>2. ASSUME NEW n \in Requests, arena_alloc(n) PROVE IInv'
  BY <1>2, AllocIInv
<1>3. CASE arena_reset
  BY <1>3, ResetIInv
<1>4. CASE ResetBeforeInit
  BY <1>4, UnchangedIInv DEF ResetBeforeInit
<1>5. CASE EnvFree \/ \E n \in EnvSizes : EnvMalloc(n)
  BY <1>5, EnvIInv
<1>6. CASE UNCHANGED vars
  BY <1>6 DEF IInv, TypeOK, vars
<1> QED
  BY <1>1, <1>2, <1>3, <1>4, <1>5, <1>6 DEF Next

-----------------------------------------------------------------------------
(* The theorems *)

\* The inductive invariant holds in every reachable state of the arena.
THEOREM Invariance == Spec => []IInv
BY InitIInv, NextIInv, PTL DEF Spec

\* The fields of the arena keep their C types: the uint32_t totals never
\* leave their range and the chain is always a chain of chunks.
THEOREM TypeCorrect == Spec => []TypeOK
<1>1. IInv => TypeOK
  BY DEF IInv
<1> QED
  BY <1>1, Invariance, PTL

\* No two allocations of one evaluation overlap, nor does one overlap the
\* emergency block or another user of the heap.
THEOREM AllocationsNeverOverlap == Spec => []AllocationsDisjoint
<1>1. IInv => AllocationsDisjoint
  <2> SUFFICES ASSUME IInv, NEW a \in live
               PROVE  /\ \A b \in live \ {a} : Disjoint(a, b)
                      /\ \A b \in OomBlocks(oomBlock) : Disjoint(a, b)
                      /\ \A b \in env : Disjoint(a, b)
    BY DEF AllocationsDisjoint
  <2>1. \A b \in live \ {a} : Disjoint(a, b)
    BY DEF IInv, Safe, LiveOK
  <2>2. PICK i \in 1 .. Len(chain) : Within(a, Used(chain[i]))
    BY DEF IInv, Safe, LiveOK
  <2>3. /\ a.at \in Nat /\ a.size \in Nat
        /\ chain[i].base \in Nat /\ chain[i].capacity \in Nat
        /\ chain[i].cursor \in Nat /\ chain[i].cursor <= chain[i].capacity
    <3>1. chain \in Seq(Chunk)
      BY DEF IInv, TypeOK
    <3>2. chain[i] \in Chunk
      BY <3>1, ElementOfSeq
    <3>3. a \in Block /\ chain[i].cursor <= chain[i].capacity
      BY DEF IInv, Safe, LiveOK, ChunksOK
    <3> QED
      BY <3>2, <3>3, ArenaAssumption DEF Block, Chunk
  <2>4. ASSUME NEW b \in OomBlocks(oomBlock) \cup env PROVE Disjoint(a, b)
    <3>1. Disjoint(Buf(chain[i]), b)
      BY DEF IInv, Safe, OthersApart, ChunkBlocks
    <3>2. b.at \in Nat /\ b.size \in Nat
      BY DEF IInv, Safe, HeapOK, OwnedBy, Block
    <3>3. /\ chain[i].base <= a.at
          /\ a.at + a.size <= chain[i].base + chain[i].cursor
      BY <2>2 DEF Within, Used
    <3>4. \/ chain[i].base + chain[i].capacity <= b.at
          \/ b.at + b.size <= chain[i].base
      BY <3>1 DEF Disjoint, Buf
    <3>5. a.at + a.size <= b.at \/ b.at + b.size <= a.at
      BY <2>3, <3>2, <3>3, <3>4
    <3> QED
      BY <3>5 DEF Disjoint
  <2> QED
    BY <2>1, <2>4
<1> QED
  BY <1>1, Invariance, PTL

\* For every request up to the end of the word, the bytes that were asked for
\* since the last reset stay inside the capacity of a chunk the arena owns,
\* 8-aligned and non-null.
THEOREM AllocationsStayBacked == Spec => []AllocationsBacked
<1>1. IInv => AllocationsBacked
  <2> SUFFICES ASSUME IInv, NEW a \in live
               PROVE  /\ a.at % Align = 0 /\ a.at > 0
                      /\ \E i \in 1 .. Len(chain) :
                           /\ Within(a, Buf(chain[i])) /\ Buf(chain[i]) \in heap
                           /\ Within(a, Used(chain[i]))
    BY DEF AllocationsBacked
  <2>1. a.at % Align = 0 /\ a.at > 0 /\ a \in Block
    BY DEF IInv, Safe, LiveOK
  <2>2. PICK i \in 1 .. Len(chain) : Within(a, Used(chain[i]))
    BY DEF IInv, Safe, LiveOK
  <2>3. Buf(chain[i]) \in heap
    BY DEF IInv, Safe, HeapOK, OwnedBy, ChunkBlocks
  <2>4. chain[i] \in Chunk /\ chain[i].cursor <= chain[i].capacity
    <3>1. chain \in Seq(Chunk)
      BY DEF IInv, TypeOK
    <3> QED
      BY <3>1, ElementOfSeq DEF IInv, Safe, ChunksOK
  <2>5. Within(a, Buf(chain[i]))
    <3>1. /\ chain[i].base <= a.at /\ a.at + a.size <= chain[i].base + chain[i].cursor
      BY <2>2 DEF Within, Used
    <3>2. a.at + a.size <= chain[i].base + chain[i].capacity
      BY <2>1, <2>4, <3>1, ArenaAssumption DEF Block, Chunk
    <3> QED
      BY <3>1, <3>2 DEF Within, Buf
  <2> QED
    BY <2>1, <2>2, <2>3, <2>5
<1> QED
  BY <1>1, Invariance, PTL

\* No sequence of growths, failures and resets leaks a heap block or leaves
\* the arena with a block it has freed.
THEOREM NoLeak == Spec => []HeapExactlyOwned
<1>1. IInv => HeapExactlyOwned
  BY DEF IInv, Safe, HeapOK, HeapExactlyOwned
<1> QED
  BY <1>1, Invariance, PTL

-----------------------------------------------------------------------------
(* The totals                                                              *)
(*                                                                         *)
(* The invariant carries the running sums of the cursors and of the        *)
(* capacities along the chain, so that no induction is needed where the    *)
(* chain grows; the capacities add up to the bytes of the buffers, which   *)
(* lie apart in a heap of less than Word bytes, so nothing wraps.          *)

\* A set of indexes has a first.
LEMMA LeastIndex ==
    ASSUME NEW S, S \subseteq Nat, S # {}
    PROVE  \E i \in S : \A j \in S : i <= j
<1>1. PICK i \in S : \A j \in S : ~(<<j, i>> \in OpToRel(<, Nat))
  BY WFMin, NatLessThanWellFounded, Zenon
<1>2. \A j \in S : ~(j < i)
  BY <1>1 DEF OpToRel
<1> QED
  BY <1>2

Sums(s, f) ==
    /\ f \in [0 .. Len(s) -> Nat] /\ f[0] = 0
    /\ \A i \in 1 .. Len(s) : f[i] = f[i - 1] + s[i]

\* Running sums are unique: they end in the total.
LEMMA TotalIsLast ==
    ASSUME NEW s \in Seq(Nat), NEW f, Sums(s, f)
    PROVE  Total(s) = f[Len(s)]
<1> DEFINE G == CHOOSE g : g = [i \in 0 .. Len(s) |-> IF i = 0 THEN 0 ELSE g[i - 1] + s[i]]
<1>1. f = [i \in 0 .. Len(s) |-> IF i = 0 THEN 0 ELSE f[i - 1] + s[i]]
  BY DEF Sums
<1>2. G = [i \in 0 .. Len(s) |-> IF i = 0 THEN 0 ELSE G[i - 1] + s[i]]
  BY <1>1
<1>3. Total(s) = G[Len(s)]
  BY DEF Total
<1> HIDE DEF G
<1> DEFINE D == {i \in 0 .. Len(s) : G[i] # f[i]}
<1>4. D = {}
  <2> SUFFICES ASSUME D # {} PROVE FALSE
    OBVIOUS
  <2>0. D \subseteq Nat
    OBVIOUS
  <2>1. PICK i \in D : \A j \in D : i <= j
    <3> HIDE DEF D
    <3> QED
      BY <2>0, LeastIndex
  <2>2. i # 0
    BY <1>2, <2>1 DEF Sums
  <2>3. i - 1 \in 0 .. Len(s) /\ i \in 1 .. Len(s) /\ i - 1 \notin D
    BY <2>1, <2>2
  <2>4. G[i - 1] = f[i - 1]
    BY <2>3
  <2>5. G[i] = G[i - 1] + s[i]
    BY <1>2, <2>2, <2>3
  <2> QED
    BY <2>1, <2>3, <2>4, <2>5 DEF Sums
<1> QED
  BY <1>3, <1>4

Cursors(cs)    == [i \in DOMAIN cs |-> cs[i].cursor]
Capacities(cs) == [i \in DOMAIN cs |-> cs[i].capacity]
Bytes(c)       == c.base .. c.base + c.capacity - 1
AllBytes(cs)   == UNION {Bytes(cs[i]) : i \in 1 .. Len(cs)}

\* f and g are the running sums of cursors and capacities.
Ledger(cs, f, g) ==
    /\ Sums(Cursors(cs), f) /\ Sums(Capacities(cs), g)
    /\ \A i \in 0 .. Len(cs) : f[i] <= g[i]
    /\ g[Len(cs)] = Cardinality(AllBytes(cs))

InHeap(cs) == \A i \in 1 .. Len(cs) : cs[i].base + cs[i].capacity <= MemEnd

AccountInv ==
    /\ InHeap(chain)
    /\ \E f, g : Ledger(chain, f, g) /\ totalUsed = f[Len(chain)] /\ totalCap = g[Len(chain)]

\* The two sequences of a chain.
LEMMA Columns ==
    ASSUME NEW cs \in Seq(Chunk)
    PROVE  /\ Cursors(cs) \in Seq(Nat) /\ Len(Cursors(cs)) = Len(cs)
           /\ Capacities(cs) \in Seq(Nat) /\ Len(Capacities(cs)) = Len(cs)
           /\ \A i \in 1 .. Len(cs) : /\ Cursors(cs)[i] = cs[i].cursor /\ cs[i].cursor \in Nat
                                      /\ Capacities(cs)[i] = cs[i].capacity /\ cs[i].capacity \in Nat
                                      /\ cs[i].base \in Nat
<1>1. \A i \in 1 .. Len(cs) : cs[i].cursor \in Nat /\ cs[i].capacity \in Nat /\ cs[i].base \in Nat
  <2> SUFFICES ASSUME NEW i \in 1 .. Len(cs) PROVE cs[i].cursor \in Nat /\ cs[i].capacity \in Nat /\ cs[i].base \in Nat
    OBVIOUS
  <2>1. PICK c \in Chunk : c = cs[i]
    BY ElementOfSeq
  <2> QED
    BY <2>1, ArenaAssumption DEF Chunk
<1>2. Len(cs) \in Nat /\ DOMAIN cs = 1 .. Len(cs)
  OBVIOUS
<1> QED
  BY <1>1, <1>2 DEF Cursors, Capacities

LEMMA SumsOf ==
    ASSUME NEW cs \in Seq(Chunk), NEW f
    PROVE  /\ Sums(Cursors(cs), f) <=> /\ f \in [0 .. Len(cs) -> Nat] /\ f[0] = 0
                                       /\ \A i \in 1 .. Len(cs) : f[i] = f[i - 1] + cs[i].cursor
           /\ Sums(Capacities(cs), f) <=> /\ f \in [0 .. Len(cs) -> Nat] /\ f[0] = 0
                                          /\ \A i \in 1 .. Len(cs) : f[i] = f[i - 1] + cs[i].capacity
<1>1. /\ Len(Cursors(cs)) = Len(cs) /\ Len(Capacities(cs)) = Len(cs)
      /\ \A i \in 1 .. Len(cs) : Cursors(cs)[i] = cs[i].cursor /\ Capacities(cs)[i] = cs[i].capacity
  BY Columns
<1> QED
  BY <1>1 DEF Sums

\* The bytes of the buffers fit the heap.
LEMMA BytesBounded ==
    ASSUME NEW cs, ChunksOK(cs), InHeap(cs)
    PROVE  IsFiniteSet(AllBytes(cs)) /\ Cardinality(AllBytes(cs)) \in Nat /\ Cardinality(AllBytes(cs)) < Word
<1>1. AllBytes(cs) \subseteq 1 .. MemEnd - 1
  <2> SUFFICES ASSUME NEW i \in 1 .. Len(cs), NEW b \in Bytes(cs[i]) PROVE b \in 1 .. MemEnd - 1
    BY DEF AllBytes
  <2>1. cs[i].base \in Nat /\ cs[i].base > 0 /\ cs[i].capacity \in Nat /\ cs[i].base + cs[i].capacity <= MemEnd
    BY Columns DEF ChunksOK, InHeap
  <2> QED
    BY <2>1, ArenaAssumption DEF Bytes
<1>2. MemEnd \in Nat /\ MemEnd <= Word /\ Word \in Nat /\ MemEnd >= 1
  BY ArenaAssumption DEF Align
<1>3. IsFiniteSet(1 .. MemEnd - 1) /\ Cardinality(1 .. MemEnd - 1) = MemEnd - 1
  BY <1>2, FS_Interval
<1>4. IsFiniteSet(AllBytes(cs)) /\ Cardinality(AllBytes(cs)) <= MemEnd - 1
  BY <1>1, <1>3, FS_Subset
<1> QED
  BY <1>2, <1>4, FS_CardinalityType

\* A chain of one chunk.
LEMMA LedgerOne ==
    ASSUME NEW c \in Chunk, NEW cs, cs = <<c>>, c.cursor = 0
    PROVE  \E f, g : Ledger(cs, f, g) /\ f[Len(cs)] = 0 /\ g[Len(cs)] = c.capacity
<1>1. cs \in Seq(Chunk) /\ Len(cs) = 1 /\ cs[1] = c
  OBVIOUS
<1>2. c.capacity \in Nat /\ c.base \in Nat
  BY ArenaAssumption DEF Chunk
<1>3. PICK f : f = [i \in 0 .. 1 |-> 0]
  OBVIOUS
<1>4. PICK g : g = [i \in 0 .. 1 |-> IF i = 0 THEN 0 ELSE c.capacity]
  OBVIOUS
<1>5. Sums(Cursors(cs), f)
  BY <1>1, <1>3, SumsOf
<1>6. Sums(Capacities(cs), g)
  BY <1>1, <1>2, <1>4, SumsOf
<1>7. AllBytes(cs) = c.base .. c.base + c.capacity - 1
  <2>1. 1 .. Len(cs) = {1}
    BY <1>1
  <2>2. AllBytes(cs) = Bytes(c)
    BY <1>1, <2>1 DEF AllBytes
  <2> QED
    BY <2>2 DEF Bytes
<1>8. Cardinality(AllBytes(cs)) = c.capacity
  <2>0. PICK b \in Nat : b = c.base
    BY <1>2
  <2>1. PICK n \in Nat : n = c.capacity
    BY <1>2
  <2>2. Cardinality(b .. b + n - 1) = n
    BY FS_Interval
  <2> QED
    BY <1>7, <2>0, <2>1, <2>2
<1> QED
  BY <1>1, <1>2, <1>3, <1>4, <1>5, <1>6, <1>8 DEF Ledger

LEMMA RangesApart ==
    ASSUME NEW a \in Nat, NEW m \in Nat, NEW b \in Nat, NEW n \in Nat, NEW x \in Int,
           b + n <= a \/ a + m <= b, a <= x, x <= a + m - 1, b <= x, x <= b + n - 1
    PROVE  FALSE
OBVIOUS

Grown(cs, f, g, c, ds) ==
    \E k, l : Ledger(ds, k, l) /\ k[Len(ds)] = f[Len(cs)] /\ l[Len(ds)] = g[Len(cs)] + c.capacity

\* Linking a chunk whose buffer overlaps no other adds its capacity.
LEMMA LedgerGrow ==
    ASSUME NEW cs, NEW c \in Chunk, NEW f, NEW g, ChunksOK(cs), InHeap(cs), Ledger(cs, f, g), c.cursor = 0,
           \A i \in 1 .. Len(cs) : Disjoint(Buf(c), Buf(cs[i])), NEW ds, ds = Append(cs, c)
    PROVE  Grown(cs, f, g, c, ds)
<1>1. cs \in Seq(Chunk)
  BY DEF ChunksOK
<1>2. PICK n \in Nat : n = Len(cs)
  BY <1>1
<1>3. /\ ds \in Seq(Chunk) /\ Len(ds) = n + 1 /\ ds[n + 1] = c
      /\ \A i \in 1 .. n : ds[i] = cs[i]
  BY <1>1, <1>2
<1>4. c.capacity \in Nat /\ c.base \in Nat
  BY ArenaAssumption DEF Chunk
<1>5. /\ f \in [0 .. n -> Nat] /\ f[0] = 0 /\ \A i \in 1 .. n : f[i] = f[i - 1] + cs[i].cursor
      /\ g \in [0 .. n -> Nat] /\ g[0] = 0 /\ \A i \in 1 .. n : g[i] = g[i - 1] + cs[i].capacity
      /\ \A i \in 0 .. n : f[i] <= g[i]
      /\ g[n] = Cardinality(AllBytes(cs))
  BY <1>1, <1>2, SumsOf DEF Ledger
<1>6. PICK k : k = [i \in 0 .. n + 1 |-> IF i = n + 1 THEN f[n] ELSE f[i]]
  OBVIOUS
<1>7. PICK l : l = [i \in 0 .. n + 1 |-> IF i = n + 1 THEN g[n] + c.capacity ELSE g[i]]
  OBVIOUS
<1>8. Sums(Cursors(ds), k)
  <2>1. k \in [0 .. n + 1 -> Nat] /\ k[0] = 0
    BY <1>5, <1>6
  <2>2. \A i \in 1 .. n + 1 : k[i] = k[i - 1] + ds[i].cursor
    BY <1>3, <1>5, <1>6
  <2> QED
    BY <1>3, <2>1, <2>2, SumsOf
<1>9. Sums(Capacities(ds), l)
  <2>1. l \in [0 .. n + 1 -> Nat] /\ l[0] = 0
    BY <1>4, <1>5, <1>7
  <2>2. \A i \in 1 .. n + 1 : l[i] = l[i - 1] + ds[i].capacity
    BY <1>3, <1>4, <1>5, <1>7
  <2> QED
    BY <1>3, <2>1, <2>2, SumsOf
<1>10. \A i \in 0 .. n + 1 : k[i] <= l[i]
  BY <1>4, <1>5, <1>6, <1>7
<1>11. Cardinality(AllBytes(ds)) = g[n] + c.capacity
  <2>1. AllBytes(ds) = AllBytes(cs) \cup Bytes(c)
    BY <1>2, <1>3 DEF AllBytes
  <2>2. AllBytes(cs) \cap Bytes(c) = {}
    <3> SUFFICES ASSUME NEW i \in 1 .. n, NEW b \in Bytes(cs[i]), b \in Bytes(c) PROVE FALSE
      BY <1>2 DEF AllBytes
    <3>1. cs[i].base \in Nat /\ cs[i].capacity \in Nat
      BY <1>1, <1>2, Columns
    <3>2. c.base + c.capacity <= cs[i].base \/ cs[i].base + cs[i].capacity <= c.base
      BY <1>2 DEF Disjoint, Buf
    <3>3. b \in Int /\ cs[i].base <= b /\ b <= cs[i].base + cs[i].capacity - 1
      BY <3>1 DEF Bytes
    <3>4. c.base <= b /\ b <= c.base + c.capacity - 1
      BY <1>4 DEF Bytes
    <3> QED
      BY <1>4, <3>1, <3>2, <3>3, <3>4, RangesApart
  <2>3. IsFiniteSet(Bytes(c)) /\ Cardinality(Bytes(c)) = c.capacity
    <3>0. PICK b \in Nat : b = c.base
      BY <1>4
    <3>1. PICK m \in Nat : m = c.capacity
      BY <1>4
    <3>2. IsFiniteSet(b .. b + m - 1) /\ Cardinality(b .. b + m - 1) = m
      <4>1. PICK e \in Int : e = b + m - 1
        OBVIOUS
      <4>2. IsFiniteSet(b .. e) /\ Cardinality(b .. e) = IF b > e THEN 0 ELSE e - b + 1
        BY FS_Interval
      <4> QED
        BY <4>1, <4>2
    <3> QED
      BY <3>0, <3>1, <3>2 DEF Bytes
  <2>4. IsFiniteSet(AllBytes(cs)) /\ Cardinality(AllBytes(cs)) \in Nat
    BY BytesBounded
  <2>5. Cardinality(AllBytes(cs) \cup Bytes(c)) = Cardinality(AllBytes(cs)) + Cardinality(Bytes(c)) - Cardinality({})
    BY <2>2, <2>3, <2>4, FS_Union
  <2> QED
    BY <1>4, <1>5, <2>1, <2>3, <2>4, <2>5, FS_EmptySet
<1>12. k[n + 1] = f[n] /\ l[n + 1] = g[n] + c.capacity
  BY <1>6, <1>7
<1> QED
  BY <1>2, <1>3, <1>8, <1>9, <1>10, <1>11, <1>12 DEF Ledger, Grown

Bumped(cs, f, g, need, ds) ==
    /\ \E k : Ledger(ds, k, g) /\ k[Len(ds)] = f[Len(cs)] + need
    /\ Len(ds) = Len(cs) /\ f[Len(cs)] + need <= g[Len(cs)]
    /\ \A i \in 1 .. Len(cs) : ds[i].base = cs[i].base /\ ds[i].capacity = cs[i].capacity

\* A bump within the last chunk adds to the cursors' sum, below the capacities'.
LEMMA LedgerBump ==
    ASSUME NEW cs, cs \in Seq(Chunk), cs # <<>>, NEW f, NEW g, Ledger(cs, f, g), NEW need \in Nat,
           need <= cs[Len(cs)].capacity - cs[Len(cs)].cursor,
           NEW ds, ds = [cs EXCEPT ![Len(cs)].cursor = @ + need]
    PROVE  Bumped(cs, f, g, need, ds)
<1>1. PICK n \in Nat : n = Len(cs) /\ n > 0
  BY EmptySeq, LenProperties
<1>2. PICK t \in Chunk : t = cs[n]
  BY <1>1, ElementOfSeq
<1>3. PICK u : u = [t EXCEPT !.cursor = @ + need]
  OBVIOUS
<1>4. u \in Chunk /\ u.base = t.base /\ u.capacity = t.capacity /\ u.cursor = t.cursor + need /\ t.cursor \in Nat
  BY <1>3, ChunkBump DEF Chunk
<1>5. ds = [cs EXCEPT ![n] = u]
  BY <1>1, <1>2, <1>3
<1>6. /\ ds \in Seq(Chunk) /\ Len(ds) = n /\ ds[n] = u
      /\ \A i \in 1 .. n : i # n => ds[i] = cs[i]
  <2>1. /\ ds \in Seq(Chunk) /\ Len(ds) = Len(cs)
        /\ \A i \in 1 .. Len(cs) : ds[i] = IF i = n THEN u ELSE cs[i]
    BY <1>1, <1>4, <1>5, ExceptSeq
  <2> QED
    BY <1>1, <2>1
<1>7. \A i \in 1 .. n : ds[i].base = cs[i].base /\ ds[i].capacity = cs[i].capacity
  BY <1>2, <1>4, <1>6
<1>8. /\ f \in [0 .. n -> Nat] /\ f[0] = 0 /\ \A i \in 1 .. n : f[i] = f[i - 1] + cs[i].cursor
      /\ g \in [0 .. n -> Nat] /\ g[0] = 0 /\ \A i \in 1 .. n : g[i] = g[i - 1] + cs[i].capacity
      /\ \A i \in 0 .. n : f[i] <= g[i]
      /\ g[n] = Cardinality(AllBytes(cs))
  BY <1>1, SumsOf DEF Ledger
<1>9. PICK k : k = [i \in 0 .. n |-> IF i = n THEN f[n] + need ELSE f[i]]
  OBVIOUS
<1>10. Sums(Cursors(ds), k)
  <2>1. k \in [0 .. n -> Nat] /\ k[0] = 0
    BY <1>1, <1>8, <1>9
  <2>2. \A i \in 1 .. n : k[i] = k[i - 1] + ds[i].cursor
    <3> SUFFICES ASSUME NEW i \in 1 .. n PROVE k[i] = k[i - 1] + ds[i].cursor
      OBVIOUS
    <3>1. CASE i = n
      <4>1. f[n] = f[n - 1] + t.cursor /\ f[n - 1] \in Nat
        BY <1>1, <1>2, <1>8
      <4>2. k[n] = f[n] + need /\ k[n - 1] = f[n - 1]
        BY <1>1, <1>9
      <4>3. ds[i].cursor = t.cursor + need
        BY <1>4, <1>6, <3>1
      <4>4. PICK a \in Nat : a = f[n - 1]
        BY <4>1
      <4>5. PICK q \in Nat : q = t.cursor
        BY <1>4
      <4>6. k[n] = (a + q) + need /\ k[n - 1] = a
        BY <4>1, <4>2, <4>4, <4>5
      <4> QED
        BY <3>1, <4>3, <4>5, <4>6
    <3>2. CASE i # n
      BY <1>6, <1>8, <1>9, <3>2
    <3> QED
      BY <3>1, <3>2
  <2> QED
    BY <1>6, <2>1, <2>2, SumsOf
<1>11. Sums(Capacities(ds), g)
  <2>1. \A i \in 1 .. n : g[i] = g[i - 1] + ds[i].capacity
    BY <1>7, <1>8
  <2> QED
    BY <1>6, <1>8, <2>1, SumsOf
<1>12. f[n] + need <= g[n]
  <2>1. f[n] = f[n - 1] + t.cursor /\ g[n] = g[n - 1] + t.capacity /\ f[n - 1] <= g[n - 1]
        /\ f[n - 1] \in Nat /\ g[n - 1] \in Nat
    BY <1>1, <1>2, <1>8
  <2>2. t.capacity \in Nat /\ need <= t.capacity - t.cursor
    BY <1>1, <1>2, ArenaAssumption DEF Chunk
  <2> QED
    BY <1>4, <2>1, <2>2
<1>13. \A i \in 0 .. n : k[i] <= g[i]
  BY <1>8, <1>9, <1>12
<1>14. AllBytes(ds) = AllBytes(cs)
  BY <1>1, <1>6, <1>7 DEF AllBytes, Bytes
<1>15. k[n] = f[n] + need
  BY <1>9
<1>16. Ledger(ds, k, g)
  BY <1>6, <1>8, <1>10, <1>11, <1>13, <1>14 DEF Ledger
<1> QED
  BY <1>1, <1>6, <1>7, <1>12, <1>15, <1>16 DEF Bumped

\* What malloc returns ends inside the heap.
LEMMA ChunkInHeap ==
    ASSUME NEW n, NEW c \in alloc_chunk(n)
    PROVE  c.base + c.capacity <= MemEnd
<1>1. Buf(c).at + Buf(c).size <= MemEnd
  BY DEF alloc_chunk, Malloc
<1> QED
  BY <1>1 DEF Buf

\* The totals follow a bump, in a uint32_t that does not wrap.
LEMMA BumpAccount ==
    ASSUME NEW cs, NEW f, NEW g, NEW asked, NEW need \in Nat, NEW cap, ChunksOK(cs), InHeap(cs), Ledger(cs, f, g), cs # <<>>,
           need <= cs[Len(cs)].capacity - cs[Len(cs)].cursor, Bump(cs, asked, need),
           totalUsed = f[Len(cs)], cap = g[Len(cs)], totalCap' = cap % Word
    PROVE  AccountInv'
<1>1. cs \in Seq(Chunk) /\ Word \in Nat \ {0}
  BY ArenaAssumption DEF ChunksOK, Align
<1>2. PICK ds : ds = [cs EXCEPT ![Len(cs)].cursor = @ + need]
  OBVIOUS
<1>3. chain' = ds /\ totalUsed' = (totalUsed + need) % Word
  BY <1>2 DEF Bump
<1>4. /\ Len(ds) = Len(cs) /\ f[Len(cs)] + need <= g[Len(cs)]
      /\ \A i \in 1 .. Len(cs) : ds[i].base = cs[i].base /\ ds[i].capacity = cs[i].capacity
      /\ \E k : Ledger(ds, k, g) /\ k[Len(ds)] = f[Len(cs)] + need
  <2>1. Bumped(cs, f, g, need, ds)
    BY <1>1, <1>2, LedgerBump
  <2> QED
    BY <2>1 DEF Bumped
<1>5. PICK k : Ledger(ds, k, g) /\ k[Len(ds)] = f[Len(cs)] + need
  BY <1>4
<1>6. PICK u \in Nat : u = f[Len(cs)] + need
  <2>1. f \in [0 .. Len(cs) -> Nat] /\ Len(cs) \in 0 .. Len(cs)
    BY <1>1, SumsOf DEF Ledger
  <2> QED
    BY <2>1
<1>7. PICK v \in Nat : v = g[Len(cs)] /\ v < Word
  BY BytesBounded DEF Ledger
<1>8. u % Word = u /\ v % Word = v
  <2>1. u <= v
    BY <1>4, <1>6, <1>7
  <2>2. u < Word /\ v < Word
    BY <1>1, <1>7, <2>1
  <2> QED
    BY <1>1, <2>2
<1>9. totalUsed' = k[Len(ds)] /\ totalCap' = g[Len(ds)]
  BY <1>3, <1>4, <1>5, <1>6, <1>7, <1>8
<1>10. InHeap(ds)
  BY <1>4 DEF InHeap
<1>11. InHeap(chain)'
  BY <1>3, <1>10 DEF InHeap
<1>12. Ledger(chain', k, g) /\ totalUsed' = k[Len(chain')] /\ totalCap' = g[Len(chain')]
  BY <1>3, <1>5, <1>9
<1> QED
  BY <1>11, <1>12 DEF AccountInv, Ledger, Sums, Cursors, Capacities, AllBytes, Bytes

\* A chain of one rewound chunk.
LEMMA OneAccount ==
    ASSUME NEW c \in Chunk, c.cursor = 0, c.base + c.capacity <= MemEnd,
           chain' = <<c>>, totalUsed' = 0, totalCap' = c.capacity
    PROVE  AccountInv'
<1>1. PICK cs : cs = <<c>>
  OBVIOUS
<1>2. Len(cs) = 1 /\ cs[1] = c /\ chain' = cs
  BY <1>1
<1>3. PICK f, g : Ledger(cs, f, g) /\ f[Len(cs)] = 0 /\ g[Len(cs)] = c.capacity
  BY <1>1, LedgerOne
<1>4. InHeap(chain)'
  BY <1>2 DEF InHeap
<1>5. Ledger(chain', f, g) /\ totalUsed' = f[Len(chain')] /\ totalCap' = g[Len(chain')]
  BY <1>2, <1>3
<1> QED
  BY <1>4, <1>5 DEF AccountInv, Ledger, Sums, Cursors, Capacities, AllBytes, Bytes

LEMMA SameAccount ==
    ASSUME AccountInv, UNCHANGED <<chain, totalUsed, totalCap>>
    PROVE  AccountInv'
<1>1. PICK f, g : Ledger(chain, f, g) /\ totalUsed = f[Len(chain)] /\ totalCap = g[Len(chain)]
  BY DEF AccountInv
<1>2. Ledger(chain', f, g) /\ totalUsed' = f[Len(chain')] /\ totalCap' = g[Len(chain')] /\ InHeap(chain')
  BY <1>1 DEF AccountInv
<1>3. \E h, k : Ledger(chain', h, k) /\ totalUsed' = h[Len(chain')] /\ totalCap' = k[Len(chain')]
  BY <1>2
<1> QED
  BY <1>2, <1>3, ZenonT(30) DEF AccountInv, InHeap, Ledger, Sums, Cursors, Capacities, AllBytes, Bytes

LEMMA InitAccount ==
    ASSUME Init
    PROVE  AccountInv
<1>1. chain \in Seq(Chunk) /\ Len(chain) = 0 /\ 1 .. Len(chain) = {}
  BY DEF Init
<1>2. PICK f : f = [i \in 0 .. 0 |-> 0]
  OBVIOUS
<1>3. Sums(Cursors(chain), f) /\ Sums(Capacities(chain), f)
  BY <1>1, <1>2, SumsOf
<1>4. Cardinality(AllBytes(chain)) = 0
  BY <1>1, FS_EmptySet DEF AllBytes
<1>5. Ledger(chain, f, f)
  BY <1>1, <1>2, <1>3, <1>4 DEF Ledger
<1>6. totalUsed = f[Len(chain)] /\ totalCap = f[Len(chain)]
  BY <1>1, <1>2 DEF Init
<1>7. InHeap(chain)
  BY <1>1 DEF InHeap
<1> QED
  BY <1>5, <1>6, <1>7 DEF AccountInv

LEMMA NextAccount ==
    ASSUME IInv, AccountInv, [Next]_vars
    PROVE  AccountInv'
<1>1. ASSUME NEW cap \in Caps, FirstInit(cap) PROVE AccountInv'
  <2>1. PICK c \in alloc_chunk(cap) : chain' = <<c>> /\ totalCap' = cap
    BY <1>1 DEF FirstInit
  <2>2. cap \in 0 .. (Word - 1) /\ cap > 0
    BY ArenaAssumption DEF Align
  <2>3. c \in Chunk /\ c.capacity = cap /\ c.cursor = 0
    BY <2>2, ChunkFresh
  <2> QED
    BY <1>1, <2>1, <2>3, ChunkInHeap, OneAccount DEF FirstInit
<1>2. CASE arena_reset
  <2>1. chain \in Seq(Chunk) /\ chain # <<>>
    BY <1>2 DEF IInv, TypeOK, arena_reset
  <2>2. PICK t \in Chunk : t = First
    BY <2>1, EmptySeq, ElementOfSeq DEF First
  <2>3. PICK u : u = [t EXCEPT !.cursor = 0]
    OBVIOUS
  <2>4. u \in Chunk /\ u.cursor = 0 /\ u.base = t.base /\ u.capacity = t.capacity
    BY <2>3 DEF Chunk
  <2>5. t.base + t.capacity <= MemEnd
    <3>1. 1 \in 1 .. Len(chain)
      BY <2>1, EmptySeq, LenProperties
    <3> QED
      BY <2>2, <3>1 DEF AccountInv, InHeap, First
  <2>6. chain' = <<u>> /\ totalUsed' = 0 /\ totalCap' = u.capacity
    BY <1>2, <2>2, <2>3, <2>4 DEF arena_reset
  <2> QED
    BY <2>4, <2>5, <2>6, OneAccount
<1>3. PICK f, g : Ledger(chain, f, g) /\ totalUsed = f[Len(chain)] /\ totalCap = g[Len(chain)]
  BY DEF AccountInv
<1>4. ChunksOK(chain) /\ InHeap(chain)
  BY DEF IInv, Safe, AccountInv
<1>5. ASSUME NEW n \in Requests, AllocFromTail(n) PROVE AccountInv'
  <2>1. Need(n) \in Nat /\ Need(n) <= chain[Len(chain)].capacity - chain[Len(chain)].cursor /\ chain # <<>>
    BY <1>5, NeedCovers, ArenaAssumption DEF AllocFromTail, Fits, Last, IInv
  <2>2. totalCap' = totalCap % Word
    <3>1. totalCap \in 0 .. (Word - 1) /\ Word \in Nat \ {0}
      BY ArenaAssumption DEF IInv, TypeOK, Align
    <3> QED
      BY <1>5, <3>1 DEF AllocFromTail
  <2> QED
    BY <1>3, <1>4, <1>5, <2>1, <2>2, BumpAccount DEF AllocFromTail
<1>6. ASSUME NEW n \in Requests, AllocFromNewChunk(n) PROVE AccountInv'
  <2>1. PICK need : need = Need(n)
    OBVIOUS
  <2>2. PICK grow : grow = pick_grow_size(Last.capacity, need)
    OBVIOUS
  <2>3. need \in Nat /\ need > 0 /\ need < Word
    BY <1>6, <2>1, NeedCovers, ArenaAssumption DEF AllocFromNewChunk
  <2>4. chain \in Seq(Chunk) /\ chain # <<>> /\ Last.capacity \in Nat
    <3>1. chain \in Seq(Chunk) /\ chain # <<>>
      BY <1>6 DEF IInv, TypeOK, AllocFromNewChunk
    <3>2. Last \in Chunk
      BY <3>1, EmptySeq, ElementOfSeq DEF Last
    <3> QED
      BY <3>1, <3>2 DEF Chunk
  <2>5. grow \in 0 .. (Word - 1) /\ grow >= need /\ grow > 0
    BY <2>2, <2>3, <2>4, GrowCovers
  <2>6. PICK c \in alloc_chunk(grow) :
          heap' = heap \cup ChunkBlocks(c) /\ totalCap' = (totalCap + grow) % Word /\ Bump(Append(chain, c), Asked(n), need)
    BY <1>6, <2>1, <2>2 DEF AllocFromNewChunk
  <2>7. /\ c \in Chunk /\ c.capacity = grow /\ c.cursor = 0 /\ c.base > 0 /\ c.base % Align = 0
        /\ \A x \in ChunkBlocks(c), y \in heap : Disjoint(x, y)
    BY <2>5, <2>6, ChunkFresh
  <2>8. PICK cs : cs = Append(chain, c)
    OBVIOUS
  <2>9. /\ cs \in Seq(Chunk) /\ cs # <<>> /\ Len(cs) = Len(chain) + 1 /\ cs[Len(cs)] = c
        /\ \A i \in 1 .. Len(chain) : cs[i] = chain[i]
    BY <2>4, <2>7, <2>8
  <2>10. \A i \in 1 .. Len(chain) : Disjoint(Buf(c), Buf(chain[i]))
    BY <2>7 DEF IInv, Safe, HeapOK, OwnedBy, ChunkBlocks
  <2>11. PICK k, l : Ledger(cs, k, l) /\ k[Len(cs)] = f[Len(chain)] /\ l[Len(cs)] = g[Len(chain)] + c.capacity
    <3>1. Grown(chain, f, g, c, cs)
      BY <1>3, <1>4, <2>7, <2>8, <2>10, LedgerGrow
    <3> QED
      BY <3>1 DEF Grown
  <2>12. ChunksOK(cs)
    <3>1. 0 % Align = 0 /\ 0 <= c.capacity
      BY <2>5, <2>7 DEF Align
    <3> QED
      BY <1>4, <2>4, <2>7, <2>9, <3>1 DEF ChunksOK
  <2>13. InHeap(cs)
    BY <1>4, <2>4, <2>6, <2>9, ChunkInHeap DEF InHeap
  <2>14. need <= cs[Len(cs)].capacity - cs[Len(cs)].cursor
    BY <2>3, <2>5, <2>7, <2>9
  <2>15. totalUsed = k[Len(cs)] /\ totalCap' = l[Len(cs)] % Word /\ Bump(cs, Asked(n), need)
    BY <1>3, <2>6, <2>7, <2>8, <2>11
  <2> QED
    BY <2>3, <2>9, <2>11, <2>12, <2>13, <2>14, <2>15, BumpAccount
<1>7. CASE UNCHANGED <<chain, totalUsed, totalCap>>
  BY <1>7, SameAccount
<1>8. ASSUME NEW cap \in Caps, ReInit(cap) \/ FailedInit(cap) PROVE UNCHANGED <<chain, totalUsed, totalCap>>
  BY <1>8 DEF ReInit, FailedInit, arenaVars
<1>9. ASSUME NEW n \in Requests, AllocRefused(n) \/ AllocUninitialized(n) \/ AllocOom(n)
      PROVE  UNCHANGED <<chain, totalUsed, totalCap>>
  BY <1>9 DEF AllocRefused, AllocUninitialized, AllocOom, arenaVars
<1>10. CASE ResetBeforeInit \/ EnvFree \/ (\E n \in EnvSizes : EnvMalloc(n)) \/ UNCHANGED vars
  <2>1. UNCHANGED <<chain, totalUsed, totalCap>>
    BY <1>10 DEF ResetBeforeInit, EnvFree, EnvMalloc, arenaVars, vars
  <2> QED
    BY <1>7, <2>1
<1> QED
  BY <1>1, <1>2, <1>5, <1>6, <1>7, <1>8, <1>9, <1>10 DEF Next, arena_init, arena_alloc

\* Whatever the word size, the capacities and the requests, total_used and
\* total_cap are the sums over the chain: their uint32_t additions never wrap.
THEOREM TotalsExact == Spec => []Accounting
<1>1. IInv /\ AccountInv => Accounting
  <2> SUFFICES ASSUME IInv, AccountInv PROVE Accounting
    OBVIOUS
  <2>1. PICK f, g : Ledger(chain, f, g) /\ totalUsed = f[Len(chain)] /\ totalCap = g[Len(chain)]
    BY DEF AccountInv
  <2>2. chain \in Seq(Chunk)
    BY DEF IInv, TypeOK
  <2>3. /\ Cursors(chain) \in Seq(Nat) /\ Len(Cursors(chain)) = Len(chain)
        /\ Capacities(chain) \in Seq(Nat) /\ Len(Capacities(chain)) = Len(chain)
    BY <2>2, Columns
  <2>4. Total(Cursors(chain)) = f[Len(chain)] /\ Total(Capacities(chain)) = g[Len(chain)]
    BY <2>1, <2>3, TotalIsLast DEF Ledger
  <2> QED
    BY <2>1, <2>4 DEF Accounting, Cursors, Capacities
<1>2. Init => AccountInv
  BY InitAccount
<1>3. IInv /\ AccountInv /\ [Next]_vars => AccountInv'
  BY NextAccount
<1> QED
  BY <1>1, <1>2, <1>3, Invariance, PTL DEF Spec
=============================================================================
