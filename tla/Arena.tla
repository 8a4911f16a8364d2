------------------------------- MODULE Arena -------------------------------
(***************************************************************************)
(* The chained bump arena of runtime/cel_arena.c, wasm build.              *)
(*                                                                         *)
(* Every kernel of the runtime takes its per-evaluation storage from this  *)
(* arena.  The arena takes its chunks from dlmalloc, which it shares with  *)
(* everybody else in the linear memory (the host's activation buffer, the  *)
(* C++ kernels), and $eval rewinds it with arena_reset.                    *)
(*                                                                         *)
(* dlmalloc is external: malloc returns any aligned range of the heap that *)
(* overlaps no live block, or fails; free removes the block.               *)
(***************************************************************************)
EXTENDS Integers, FiniteSets, Sequences

CONSTANTS
    Word,        \* number of values of a uint32_t (2^32 in the code)
    Addrs,       \* the addresses malloc may return
    MemEnd,      \* first address past the heap
    HdrBytes,    \* sizeof(CelArenaChunk)
    OomBytes,    \* CELWASM_ARENA_OOM_BLOCK_BYTES
    MinGrow,     \* CEL_ARENA_MIN_GROW_BYTES
    MaxGrow,     \* CEL_ARENA_MAX_GROW_BYTES
    Caps,        \* the cap_bytes arguments of arena_init
    Requests,    \* the n arguments of arena_alloc
    EnvSizes     \* what the other users of the heap ask malloc for

Align == 8

ASSUME ArenaAssumption ==
    /\ Word \in Nat /\ Word > Align /\ Word % Align = 0
    /\ MemEnd \in 1 .. Word
    /\ Addrs \subseteq {a \in 1 .. MemEnd : a % Align = 0}
    /\ HdrBytes \in Nat \ {0} /\ OomBytes \in Nat \ {0}
    /\ MinGrow \in 1 .. MaxGrow /\ MaxGrow \in 1 .. (Word - 1)
    /\ Caps \subseteq 1 .. (Word - 1)
    /\ Requests \subseteq 0 .. (Word - 1)
    /\ EnvSizes \subseteq Nat \ {0}

VARIABLES
    heap,         \* dlmalloc's live blocks
    chain,        \* g_arena.head .. g_arena.tail, as a sequence of chunks
    totalUsed,    \* g_arena.total_used
    totalCap,     \* g_arena.total_cap
    initialized,  \* g_arena.initialized
    oomBlock,     \* g_oom_block
    env,          \* blocks held by the other users of the heap
    live,         \* history: what arena_alloc was asked for and handed out since the reset
    ret           \* what the last call returned, or Trap

arenaVars == <<heap, chain, totalUsed, totalCap, initialized, oomBlock, live>>
vars == <<heap, chain, totalUsed, totalCap, initialized, oomBlock, env, live, ret>>

Block == [at : Nat, size : Nat]
Chunk == [hdr : Block, base : Nat, capacity : 0 .. (Word - 1), cursor : Nat]

Disjoint(a, b) == a.at + a.size <= b.at \/ b.at + b.size <= a.at
Within(a, b)   == b.at <= a.at /\ a.at + a.size <= b.at + b.size

Buf(c)  == [at |-> c.base, size |-> c.capacity]
Used(c) == [at |-> c.base, size |-> c.cursor]
First == chain[1]
Last == chain[Len(chain)]
Trap == -1

-----------------------------------------------------------------------------
(* dlmalloc *)

\* The blocks malloc(n) may return when the blocks of h are live.
Malloc(h, n) ==
    {b \in [at : Addrs, size : {n}] :
        b.at + b.size <= MemEnd /\ \A x \in h : Disjoint(b, x)}

-----------------------------------------------------------------------------
(* The arena *)

align_up_8(n) == ((n + 7) - ((n + 7) % Align)) % Word

\* At least twice the tail, within [MinGrow, MaxGrow], and whatever the
\* allocation that triggered the growth needs.
pick_grow_size(prev, atLeast) ==
    LET double  == (prev * 2) % Word
        floored == IF double < MinGrow THEN MinGrow ELSE double
        clamped == IF floored > MaxGrow THEN MaxGrow ELSE floored
    IN  IF atLeast > clamped THEN atLeast ELSE clamped

\* The chunks alloc_chunk(n) may build: a header, then a buffer.
alloc_chunk(n) ==
    {c \in [hdr : Malloc(heap, HdrBytes), base : Addrs, capacity : {n}, cursor : {0}] :
        Buf(c) \in Malloc(heap \cup {c.hdr}, n)}

\* A chunk's two blocks.
ChunkBlocks(c) == {c.hdr, Buf(c)}

\* The emergency block at offset o; 0 when its reservation failed.
OomBlocks(o) == IF o = 0 THEN {} ELSE {[at |-> o, size |-> OomBytes]}

\* Every block a chain, an emergency block and the other users account for.
OwnedBy(cs, o, e) ==
    (UNION {ChunkBlocks(cs[i]) : i \in 1 .. Len(cs)}) \cup OomBlocks(o) \cup e

\* Mutant: the buffers are freed, the headers are not.
FreeBuffersOnly(cs) == heap \ {Buf(c) : c \in cs}

\* What free_chunk leaves of the heap when it is called on every chunk of cs.
free_chunks(cs) == heap \ UNION {ChunkBlocks(c) : c \in cs}

Init ==
    /\ heap = {} /\ chain = <<>> /\ totalUsed = 0 /\ totalCap = 0
    /\ initialized = FALSE /\ oomBlock = 0 /\ env = {} /\ live = {} /\ ret = 0

\* A second arena_init traps if the capacity differs, and is a no-op otherwise.
ReInit(cap) ==
    /\ initialized
    /\ ret' = IF chain # <<>> /\ First.capacity # cap THEN Trap ELSE 0
    /\ UNCHANGED <<arenaVars, env>>

\* The first arena_init whose alloc_chunk succeeds; the emergency block may fail.
FirstInit(cap) ==
    /\ ~initialized
    /\ \E c \in alloc_chunk(cap) :
         LET h == heap \cup ChunkBlocks(c) IN
         /\ \/ \E o \in Malloc(h, OomBytes) : oomBlock' = o.at /\ heap' = h \cup {o}
            \/ oomBlock' = 0 /\ heap' = h
         /\ chain' = <<c>>
         /\ totalCap' = cap
    /\ totalUsed' = 0
    /\ initialized' = TRUE
    /\ ret' = 0
    /\ UNCHANGED <<env, live>>

\* arena_init finds no memory for its chunk: a silent return, still uninitialised.
FailedInit(cap) ==
    /\ ~initialized
    /\ ret' = 0
    /\ UNCHANGED <<arenaVars, env>>

arena_init(cap) == ReInit(cap) \/ FirstInit(cap) \/ FailedInit(cap)

\* Mutant: the request is not rounded up.
NeedUnaligned(n) == IF n = 0 THEN Align ELSE n

Need(n) == IF align_up_8(n) = 0 THEN Align ELSE align_up_8(n)

\* Mutant: the bytes the chunk has already handed out are not subtracted.
FitsIgnoringCursor(need) == need <= Last.capacity

Fits(need) == need <= Last.capacity - Last.cursor

\* What the caller may use of an allocation: what it asked for, and 8 bytes
\* if it asked for none.
Asked(n) == IF n = 0 THEN Align ELSE n

\* Bump the cursor of the last chunk of cs by need and hand the range out;
\* the history keeps the bytes that were asked for.
Bump(cs, asked, need) ==
    LET t == cs[Len(cs)] IN
    /\ chain' = [cs EXCEPT ![Len(cs)].cursor = @ + need]
    /\ totalUsed' = (totalUsed + need) % Word
    /\ live' = live \cup {[at |-> t.base + t.cursor, size |-> asked]}
    /\ ret' = t.base + t.cursor

\* Mutant: no request is too large to be rounded up.
NothingWraps(n) == FALSE

\* A request align_up_8 would wrap.
Wraps(n) == n > Word - 1 - 7

\* It is refused before anything else.
AllocRefused(n) ==
    /\ Wraps(n)
    /\ ret' = 0
    /\ UNCHANGED <<arenaVars, env>>

AllocUninitialized(n) ==
    /\ ~Wraps(n)
    /\ ~initialized
    /\ ret' = Trap
    /\ UNCHANGED <<arenaVars, env>>

AllocFromTail(n) ==
    /\ ~Wraps(n)
    /\ initialized
    /\ Fits(Need(n))
    /\ Bump(chain, Asked(n), Need(n))
    /\ UNCHANGED <<heap, totalCap, initialized, oomBlock, env>>

AllocFromNewChunk(n) ==
    /\ ~Wraps(n)
    /\ initialized
    /\ ~Fits(Need(n))
    /\ LET grow == pick_grow_size(Last.capacity, Need(n)) IN
       \E c \in alloc_chunk(grow) :
          /\ heap' = heap \cup ChunkBlocks(c)
          /\ totalCap' = (totalCap + grow) % Word
          /\ Bump(Append(chain, c), Asked(n), Need(n))
    /\ UNCHANGED <<initialized, oomBlock, env>>

\* malloc has no room for the new chunk: 0, and the arena is as it was.
AllocOom(n) ==
    /\ ~Wraps(n)
    /\ initialized
    /\ ~Fits(Need(n))
    /\ ret' = 0
    /\ UNCHANGED <<arenaVars, env>>

arena_alloc(n) ==
    \/ AllocRefused(n)
    \/ AllocUninitialized(n)
    \/ AllocFromTail(n)
    \/ AllocFromNewChunk(n)
    \/ AllocOom(n)

\* Mutant: total_cap keeps counting the freed chunks.
ResetKeepsTotalCap ==
    /\ chain # <<>>
    /\ heap' = free_chunks({chain[i] : i \in 2 .. Len(chain)})
    /\ chain' = <<[First EXCEPT !.cursor = 0]>>
    /\ totalUsed' = 0 /\ live' = {} /\ ret' = 0
    /\ UNCHANGED <<totalCap, initialized, oomBlock, env>>

\* Mutant: total_used is debited by the first chunk's capacity and underflows.
ResetDebitsTotalUsed ==
    /\ chain # <<>>
    /\ heap' = free_chunks({chain[i] : i \in 2 .. Len(chain)})
    /\ chain' = <<[First EXCEPT !.cursor = 0]>>
    /\ totalUsed' = totalUsed - First.capacity
    /\ totalCap' = First.capacity /\ live' = {} /\ ret' = 0
    /\ UNCHANGED <<initialized, oomBlock, env>>

\* Every chunk but the first goes back to dlmalloc; the first is rewound.
arena_reset ==
    /\ chain # <<>>
    /\ heap' = free_chunks({chain[i] : i \in 2 .. Len(chain)})
    /\ chain' = <<[First EXCEPT !.cursor = 0]>>
    /\ totalUsed' = 0
    /\ totalCap' = First.capacity
    /\ live' = {}
    /\ ret' = 0
    /\ UNCHANGED <<initialized, oomBlock, env>>

\* Before arena_init, a reset does nothing.
ResetBeforeInit ==
    /\ chain = <<>>
    /\ ret' = 0
    /\ UNCHANGED <<arenaVars, env>>

-----------------------------------------------------------------------------
(* The other users of the heap *)

EnvMalloc(n) ==
    /\ \E b \in Malloc(heap, n) : heap' = heap \cup {b} /\ env' = env \cup {b}
    /\ UNCHANGED <<chain, totalUsed, totalCap, initialized, oomBlock, live, ret>>

EnvFree ==
    /\ \E b \in env : heap' = heap \ {b} /\ env' = env \ {b}
    /\ UNCHANGED <<chain, totalUsed, totalCap, initialized, oomBlock, live, ret>>

Next ==
    \/ \E cap \in Caps : arena_init(cap)
    \/ \E n \in Requests : arena_alloc(n)
    \/ arena_reset
    \/ ResetBeforeInit
    \/ \E n \in EnvSizes : EnvMalloc(n)
    \/ EnvFree

Spec == Init /\ [][Next]_vars

-----------------------------------------------------------------------------
(* What the arena promises *)

TypeOK ==
    /\ heap \subseteq Block /\ env \subseteq Block /\ live \subseteq Block
    /\ chain \in Seq(Chunk)
    /\ totalUsed \in 0 .. (Word - 1) /\ totalCap \in 0 .. (Word - 1)
    /\ initialized \in BOOLEAN
    /\ oomBlock \in Nat
    /\ ret \in Nat \cup {Trap}

\* Two allocations made since the last arena_reset never share a byte, and
\* none reaches into the emergency block or into a block of another user of
\* the heap, across growths, failed growths, resets and foreign malloc/free.
AllocationsDisjoint ==
    \A a \in live :
        /\ \A b \in live \ {a} : Disjoint(a, b)
        /\ \A b \in OomBlocks(oomBlock) : Disjoint(a, b)
        /\ \A b \in env : Disjoint(a, b)

\* Every allocation made since the last reset is 8-aligned and not at the null
\* offset, and all the bytes that were asked for, not those the rounded size
\* stands for, lie inside one buffer malloc still has given out, below the
\* cursor from which the next allocation is taken: a request near the end of
\* the word gets no small block, one above the growth cap gets a chunk that
\* holds it, and a pointer kept within one evaluation never dangles.
AllocationsBacked ==
    \A a \in live :
        /\ a.at % Align = 0 /\ a.at > 0
        /\ \E i \in 1 .. Len(chain) :
             /\ Within(a, Buf(chain[i])) /\ Buf(chain[i]) \in heap
             /\ Within(a, Used(chain[i]))

\* dlmalloc's live blocks are exactly those the arena, the emergency block
\* and the other users account for: neither a failed alloc_chunk nor a reset
\* leaks a block, and none is freed while it is reachable.
HeapExactlyOwned == heap = OwnedBy(chain, oomBlock, env)

Total(s) ==
    LET upTo[i \in 0 .. Len(s)] == IF i = 0 THEN 0 ELSE upTo[i - 1] + s[i]
    IN  upTo[Len(s)]

\* total_used and total_cap are the sums over the chain that the struct's
\* comments say they are, after any mix of growths and resets: the additions
\* in a uint32_t never wrap.
Accounting ==
    /\ totalUsed = Total([i \in DOMAIN chain |-> chain[i].cursor])
    /\ totalCap  = Total([i \in DOMAIN chain |-> chain[i].capacity])

=============================================================================
