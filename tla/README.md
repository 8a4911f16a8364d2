# A TLA+ development for cel-spec-wasm

The repository compiles a CEL expression ahead of time to a WebAssembly module
and evaluates it with wasmtime. The compiler binds the names of the checked
expression, assigns every node a place in linear memory and emits one function,
`$eval`; a runtime of C kernels, linked with it, works on 24-byte `CelValue` cells
and a bump arena; the C++ host plans the module, marshals the caller's bindings
into linear memory, calls `$eval`, serves its host calls and decodes what it
returns.

This directory models the parts of that system where state is shared, reused or
carried from one step to the next, and the algorithms whose edge cases a test
hardly reaches: number ranges, calendar, hash index, protobuf fields.

## 1. Inventory

Status: **M** modelled, **P** partly, **-** not modelled (what is left out is in
`PROJECT.json` and section 8).

| Component (source) | State | Operations | Hard behaviour | What makes it correct | |
|---|---|---|---|---|---|
| Bump arena (`runtime/cel_arena.c`) | chunk chain, cursors, totals, emergency block | `arena_init`, `arena_alloc`, `arena_reset` | rounding near 2^32, growth, failing `malloc`, reset after growth | live allocations are disjoint and hold the bytes asked for; reset frees exactly what grew | M |
| 3VL kernels (`cel_3vl.c`, `cel_internal.h`) | cells | `cel_and`, `cel_or`, `cel_not`, strict absorption | output aliases an operand; precedence; OOM while merging | a known answer is final unless it is an error raised over an unknown; an unknown names all it depends on but what a host call left out | M |
| Unknown merge (`cel_3vl.c`) | two sorted id arrays | one walk | duplicates, unequal lengths | sorted union within the buffer | M |
| Number kernels (`cel_arith.c`, `cel_compare.c`, `cel_convert.c`, `cel_math_ext.c`) | cells | one function each | overflow, integers no double represents, NaN | the result is the exact one, or an error exactly when it is out of range | P |
| Time kernels (`cel_time.c`, `cel_host_time.cc`) | cells | arithmetic, order, accessors | borrow and carry of nanos, leap years, negative times, messages whose fields are not normalised | sums are those of the instants; order and fields are, unless the fraction carries a second | P |
| Equality (`cel_compare.c`, `cel_host_eq.cc`) | cells, host values | `==`, `in`, `+` of lists | two representations of each value, four walks | the origin does not show, except of fractional times before 1970 | M |
| List and map kernels, map index (`cel_runtime.c`, `cel_map_index.c`, `cel_map_hash.h`) | arena objects, control bytes | create, append, insert, merge, look up, iterate | growth, collisions, index against scan, exhaustion half-way | a dictionary or a sequence | P |
| Optionals (`cel_optional.c`) | cells | constructors, selects, optional entries | absent against error | an optional agrees with the plain operation | P |
| Static memory (`static_memory_builder.cc`) | rodata | pack lists, maps, index | a second implementation of the index | packed is what would have been built | P |
| Resolve pass (`resolve_pass.cc`) | scope stack, variable table | one traversal | shadowing, nested `@result` | names are lexical | P |
| Layout and slots (`layout_pass.cc`, `slot_allocator.cc`) | storage annotations, free list, peak | passes A-E | cells shared by nodes of two traversals | nobody writes a cell still to be read | P |
| Lowering (`expr_lower.cc`, `expr_lower_comprehension.cc`) | the emitted code | `Emit*`, `LowerComprehension` | address by annotation or by value, branches, loops, absorption | operands are found where they were left | P / M |
| Compile driver (`compiler/internal/compile.cc`, `module.cc`, `abi/cel_abi_emit.cc`) | module, ABI section | compile in two link modes | imports dropped by the optimizer, window overflow | what is emitted is what Plan accepts | P |
| Declarations (`compiler/celfn/function_library.cc`, `compiler.cc`) | function table | declare | overload ids that coincide, with one another and with the runtime's names; arity limits | a call reaches what was declared unless the module has the name already | P |
| Engine and plan (`eval/engine.cc`, `required_fn_check.cc`, `module_imports.cc`) | registry, store, linker, memory references | register, plan, destroy | failure at every step, two plans, order of destruction | references are released; host and module use one memory | P |
| Host functions (`host_call_context.cc`, `typed_function.h`) | argument slots | decode, call, encode | wrong kinds, failing callbacks | the callback gets what was declared | P |
| Linear-memory view (`cel_host_wasmtime.h`) | cached size | read, refresh | growth during `$eval` | grown pages are visible | M |
| Activation (`eval/activation.cc`) | bindings, lazy binders, memo | `Bind`, `BindLazy`, `Resolve` | failing and repeated binders | one value per call | M |
| Instance (`eval/instance.cc`) | variable slots, activation buffer, patterns | `Eval(act)`, `PartialEval`, `Eval()` | two passes over the bindings, failure half-way, state left by the last call | slots denote the activation of this call | P |
| Externref table (`cel_host_wasmtime.cc`) | handles, index by address | `Intern*`, `Lookup*`, `Reset` | addresses used again, results that outlive `Reset` | a handle leads to its message | M |
| Message fields (`cel_host_set_field.cc`, `cel_host_message.cc`, `cel_host_backing.cc`) | messages, access-site cache | make, set, get, has | forty field types, narrowing, presence, nulls, poison half-way, a site that meets two types | a field reads as it was written | P |
| Host lists and maps (`cel_host_list.cc`, `cel_host_map.cc`) | backings, snapshots | size, get, snapshot | snapshot without room | the same answers as the arena's | P |
| Attribute patterns (`instance.cc`, `cel_host_message.cc`) | pattern list | match | a pattern left from the last call | an unknown exactly where a pattern says | P |
| Values, string/network/encoder extensions, front end, binary tools, runner | | pure functions, I/O | | | - |

Nothing in the system runs concurrently: an `Instance` and its store belong to
one thread, and `engine.h` wants registration finished before plans overlap. What
is hard is sequencing: steps of one call that fail half-way, calls in any order
on one instance, plans and destructions in any order, and code that is emitted
in one order, laid out in another and executed in a third. `PROJECT.json` lists
the hazards at their lines with the properties about them.

## 2. Modules

| Module | Models | Used by |
|---|---|---|
| `Arena` | `runtime/cel_arena.c`, wasm build | `MCArena`, `ArenaProofs` |
| `ThreeValued` | the logical and strict kernels, the user-function trampoline's poison rule | `MCThreeValued`, `UnknownProofs` |
| `UnknownSet` | the sorted array of attribute ids | `ThreeValued`, `UnknownMerge` |
| `UnknownMerge` | the merge walk | `MCThreeValued`, `UnknownProofs` |
| `Numeric` | integers and doubles of the runtime, scaled down: arithmetic, order, keys, hash tokens, conversions, indexes | `TimeKernels`, `MapTable` |
| `TimeKernels` | durations, timestamps, calendar | `Equality` |
| `Equality` | equality, membership and concatenation over arena and host values | `Kernels`, `ProtoFields` |
| `Kernels` | one kernel call on any operands; the properties of the three above | `MCKernels` |
| `MapTable` | the arena map and its hash index | `StaticMemory` |
| `StaticMemory` | constant lists and maps as the compiler packs them | `Collections` |
| `CollectionContract` | abstract: what building a collection promises | instantiated by `Collections` |
| `Collections` | literals, comprehensions, lookups and optionals over one collection | `MCCollections`, `CollectionsProofs` |
| `ProtoFields` | writing and reading one protobuf field | `HostFields` |
| `HostFields` | message literals, selects, presence, access sites | `MCHostFields` |
| `Declarations` | custom functions and their overload ids | `Compiling` |
| `Compiling` | compile driver, ABI section, static window | `Planning` |
| `HostCall` | one call of a custom function | `Planning` |
| `Planning` | engine, plans, instances, memory | `MCPipeline`, `PlanningProofs` |
| `EvalContract` | abstract: what `Eval` and `PartialEval` promise an embedder | instantiated by `Evaluation` |
| `Evaluation` | one `Instance` with one `Activation` | `MCEvaluation`, `EvaluationProofs` |
| `HostRefs` | the externref table, message lifetimes, results | `MCHostRefs`, `HostRefsProofs` |
| `SlotLayout` | resolve and layout passes, the lowering, the run of the emitted code | `MCSlotLayout`, `SlotLayoutProofs`, `LoweringProofs` |

How they fit: `Planning` makes the instances that `Evaluation` calls. `Evaluation`
composes activation, marshal, buffer, a coarse handle table and an arbitrary
`$eval` body. `HostRefs` takes the handle table alone, with addresses that are freed
and used again; `HostFields` takes the messages behind the handles. `ThreeValued`
treats a set of ids as a set; `UnknownMerge` shows that the array code computes the
union it uses. `SlotLayout` says in which cells a literal or a comprehension works and
justifies the aliasing that `ThreeValued` admits; `Collections` says what is in them.

Definitions marked *Mutant* are variants of the definition below them with a
plausible slip; they are not part of the model and serve to show that the
properties notice.

### Arena
`chain` is `head..tail`, a chunk its header block, buffer, capacity and
cursor; `totalUsed` and `totalCap` are `uint32_t` modulo `Word`. `malloc` is external:
any aligned free range, or failure, so chunks lie in any order among the
blocks of the other users (`env`). `live` is a history variable: where each allocation
is and the bytes that were *asked for*, before any rounding or wrapping (`Asked`), so that a block
smaller than its request is not taken for a good one. An allocation is
one of five actions, one per exit of `arena_alloc`.

### ThreeValued
A cell holds a kind and, for an unknown, its id set. Beside each cell the model
keeps what it *denotes*: for every completion of the unknown ids, the value the
same operations compute once the ids are known. The kernels cannot touch it. Where a kernel departs from
it, the departure is recorded and inherited: `early` says that an error goes back to one
raised over an unknown operand (`other && unknown`, or a merge without memory), and `dropped` has the
ids that a host call with several unknown arguments left out. One action per kernel writes any output cell, operands
included; where the code can run out of arena it may leave an error instead.
`Strict` stands for every kernel that begins with `absorb_3vl_binary`; what
it computes on concrete operands is a constant operator. A host function has up to
`HostArity` arguments.

### UnknownMerge
The two-pointer loop, one action per branch, on inputs that are any sorted arrays
or results of earlier merges. `MCThreeValued` takes it together with the kernels: a behaviour
is a program or a chain of merges, since the kernels see of a merge only its result.

### Numeric, TimeKernels, Equality, Kernels
The kernels are pure, so each is an operator that follows the C function branch by
branch, including its order of checks and its casts. The machine is scaled
down and keeps what makes the real one hard: integers of `W` bits and doubles
with a `P`-bit significand, `W - P >= 2`, so that there are integers between two
neighbouring doubles, as there are above 2^53; halves, so that there are
doubles that are no integers; infinities and NaN. A time has seconds and a
fraction. Parsing and arithmetic give both the same sign; a time bound as a protobuf
message keeps the message's fields (`TryEncodeWktTimeMessage`), so that a slot can hold -1 s and
+0.5 s, or a fraction of more than a second. `Carry` is what the fraction adds to the seconds, and the properties state
the exceptions by it, in both directions. The calendar and the clock
keep their real numbers, and a time zone is `UTC`, hours and minutes, or a name that
absl knows or does not know. `Equality` has every value in an
arena and in a host representation, and one walk for each pair, as the code has.
`Kernels` calls one operator on any operands; what a property compares it with is a
definition over exact numbers, over a count of days, or over abstract contents.

### MapTable, StaticMemory, CollectionContract, Collections
A map is its entry run, capacity and index: control bytes with the mirrored first
group, and slots. The hash is *any* function from key tokens to the probe start
and the control byte, so that every collision happens. `StaticMemory` has the
compiler's copy of geometry and placement, in bytes, and its result is read with the
runtime's geometry. `Collections` runs what the lowering emits: create with the
literal's or the source's count, one insert, append or merge per step, the
index last, then lookups. `room` is what the arena has left; every allocation may
fail. `CollectionContract` has a dictionary or a sequence and a failure that stays. A key
given twice is a failure there, as the repository's test has it; that
comprehensions and optional entries replace the value instead is a step by itself,
`KnownBugCELW0011`, which a plain literal cannot take. The refinement mapping forgets order, capacity, index and room.

### ProtoFields, HostFields
A field has a type, a cardinality and presence or not; descriptors are arbitrary. The
write follows `CelSetFieldImpl` by the arms it has for scalars, enums, wrappers,
times, JSON, Any, messages, repeated and map fields, from values of either
origin, with its three kinds of refusal (a trap, an error value, an element left
out). Narrow integers and floats have fewer bits. `HostFields` builds a
literal field by field, poison included, and selects from it and from a second
message of another descriptor through the same access sites, whose cache
is a variable.

### Declarations, Compiling, HostCall, Planning
A name is the sequence of its pieces between underscores: that is where overload
ids of different functions coincide, with one another and with the names of the
runtime. Compile makes a record with imports, ABI
section and extents, or fails. An import whose name the module has already is skipped
(`NamesTaken`: the adopted runtime in a static module, what was imported before in either mode), and validation
accepts any callee of the call's type, so a call of such a function goes to the module's own
(`CallShadowing`) and one of another type does not compile. `Planning` registers, plans in steps that may each
fail, runs, grows memory, and destroys engine and instances in any
order; the program may also come from elsewhere and be mislabelled. A memory
reference is an element of `held`; the view keeps a size that it refreshes on a miss.

### EvalContract and Evaluation
`Evaluation` follows a call through `prepass`, `marshal` and `run`. Values carry a kind,
a content and a size; the buffer holds payloads by offset; slots hold what
the encoders write and `Decode` reads them back through buffer and tables *as they
are now*. The pre-pass and the marshal are separate actions per variable,
and each may fail where the code returns a status. `$eval`'s body is any program: it
may intern messages, trap, return a variable or something computed. `EvalContract` has
no slots, buffers or tables; the refinement mapping forgets them. Its bare `Eval()` may return
what any earlier call left in a slot, which is all that the code promises of it.

### HostRefs
Messages have an identity (a birth number) and an address; the allocator may
use a freed address again at once. Backings own or borrow. `Reset` is the
code's, with its early return; the results the caller holds are tracked.

### SlotLayout
A tree of node kinds and names goes through `ScopedIdentResolver` and the layout passes
(selects, then the other nodes, then comprehensions), each a traversal by a
work stack; the lowering checks the storages in its order of emission; then the
code runs. A cell holds a stamp, fresh at every write, so that "the operand is
still there" is visible without values. A variable that moves over the elements of a
list is read-only; the key, value or index of the other loops has a cell that every
iteration rewrites. The step shapes of comprehensions (append, guarded append,
insert, merge, generic) determine which nodes one iteration runs. What the model takes
for granted of an expression is `SlotLayoutAssumption`: ids in pre-order, one parent per
node, the number of kids each kind has, and the shape of names, all of which the
parser gives a `cel::Expr`; TLC evaluates it for every expression of the run.

## 3. Runs

| Run | Result (states) | What it shows |
|---|---|---|
| `arena` | pass | any order of init, alloc, reset and foreign mallocs keeps allocations disjoint, aligned, and with room for the bytes asked for, the heap exactly owned and the totals true |
| `evaluation` | 158 291 | `Eval`, `PartialEval` and `Eval()` in any order, for a program with a string and a message and one with an int and a list, lazy and failing binders, wrapper messages, failing `malloc`: slots denote, the budget suffices, binders run once, every call ends, the contract is implemented |
| `three_valued` | pass | programs over three cells, two ids and host calls of up to two arguments: known answers are final unless they are errors raised over an unknown, unknowns name everything but what host calls drop. The merge under them: sorted union, within the buffer, ends |
| `host_refs` | 22 282 | handles lead to their messages although addresses recur; a message handed to the caller stays what it was |
| `slot_layout` | 612 109 | 1025 expressions: names are lexical, no cell is overwritten before it is consumed, annotations agree with addresses, the workspace covers every cell, the compiler aborts on exactly the expressions whose storage it cannot read |
| `kernels` | 473 373 | numbers, order, times and equality against definitions over exact numbers and abstract contents, with the exact exceptions of fractional times before 1970 |
| `collections` | 284 010 | literals, constant literals and comprehensions over both origins, every hash, the arena running out anywhere: a dictionary or a sequence (repeated keys of comprehensions and optional entries apart); a poisoned range is the result; capacities suffice; optionals agree; packed is built |
| `host_fields` | 889 555 | a field reads as it was written or the literal fails as it must; presence; access sites shared by two types |
| `pipeline` | 1 429 656 | declare, compile, register, plan, run, destroy: refusals are justified, calls reach the declared callback or, under a taken name, the module's function, references are released, host and module use one memory and see its growth, the static region respects its window |
| `collections_oom` | violation | a host source whose snapshot finds no room is walked as an empty one |
| `host_fields_unknown` | violation | a message literal traps on the field after an unknown one |
| `pipeline_shadowed` | violation | a program compiles that does not import the custom function it calls |

The three violation runs each state a sentence of a comment of the repository, quoted
under `findings`.

Bounds, and why they suffice:

* *Arena*: an 8-bit word, 160 bytes of heap, at most three chunks and three live
  allocations, requests {0, 9, 16, 40, 248, 255}: zero, one that needs rounding, an
  exact fit, one above the growth cap, and the two sides of the wrap of
  `align_up_8`, of which the model records what was asked for. Two growths and a reset are the longest interplay of the code.
* *Evaluation*: two variables, so that a failure can come after a success;
  `Page` is 16 in place of 4096 so that the buffer is replaced; up to two interned
  messages. Calls repeat without bound.
* *ThreeValued*: three cells (two operands and a separate output, or aliases), two
  ids, four kernel calls, host functions of up to two arguments, the least that drops an
  id; the theorems remove the bounds.
* *UnknownMerge*: four ids, all sorted inputs; the theorems remove the bound.
* *HostRefs*: four addresses, four births, four handles: a nested message, its owner,
  a free and a reuse. Addresses are symmetric; no liveness is checked there.
* *SlotLayout*: each constructor over each constructor over leaves, the map macros
  over one level, names repeated at three levels; two iterations. A cell conflict
  involves a producer, a consumer and one intruder, and a capture two declarations and a use,
  which the expressions contain. The ternary without a bool and the poisoned range are branches.
* *Kernels*: `W = 6`, `P = 4`: two bits of integer precision that a double lacks, as
  64 against 53 has eleven; the operands are the limits of each kind, their
  neighbours, the rounding boundaries and the non-numbers. Times run from below the lower to above the
  upper limit, years around each kind of leap year and era end; seconds of the day at each
  end of a minute, an hour and a day, for the dates whose second a 32-bit checker can
  count (`NearDays`); durations around each unit; zones with and without a minute part,
  of both signs, past the limits, known and unknown. A second has four parts, a
  "millisecond" two, so that both round. The fields of time messages are those around 1970 with
  fractions of either sign, below and above a second, and some beyond the limits. Each content is
  compared in every form it has: either origin, and for a time the messages whose seconds are one off
  either way. Values are nested once.
* *Collections*: groups of two control bytes and an index from two entries, so that
  three entries span groups, wrap and mirror; every assignment of two probe starts and
  two control bytes to the keys; rooms that fail at each allocation.
* *HostFields*: each field type and cardinality first, a narrow integer second; a 3-bit
  `int32` and a 1-bit float significand make narrowing lose what it can lose.
* *Pipeline*: two plans of one engine (interchangeable, hence symmetric), two
  registered functions, two pages. Five custom functions are
  named like what a module may have: three have its type and two do not, in both link modes. The byte that holds an arity has six values and a window of 48 bytes
  is filled to either side of its limit.

Deadlock is checked for `arena` and `evaluation`. In the others an expression,
a program, a kernel call, a collection or an engine comes to its end, or a named bound is
reached.

## 4. Fairness

`Evaluation` has `WF_vars(Step)`, where `Step` is the disjunction of the steps *inside* a
call: the host code is sequential and a wasm call returns or traps, so a started
call goes on. Nothing obliges the caller to make another. `$eval` contains no
unbounded loop (CEL terminates), which the model has as a bound on what it
interns. The merge loop has weak fairness of its steps (`WF_mergeVars(Step)`, in `MergeSpec` and in
the `RunSpec` of `MCThreeValued`) for the same reason. No
other module has fairness, and none of the violation runs is a liveness
violation.

## 5. Proofs

Checked by TLAPS, for every value of the constants that satisfies the named
assumptions.

Every safety theorem has the form `Spec => []P` and rests on an inductive invariant `IInv`
of its module (`Invariance`). Numbers of variables, messages, plans, functions, entries, iterations and
pages, sizes, hashes and the order of calls are arbitrary in all of them.

**ArenaProofs** (`ArenaAssumption`: the word is a multiple of 8, `malloc`'s addresses
are aligned and in the heap, the growth limits are ordered). The theorems are
`TypeCorrect`, `AllocationsNeverOverlap`, `AllocationsStayBacked`, `NoLeak`, `TotalsExact`.
`AllocationsDisjoint` is not inductive: a new allocation is taken at a cursor, and
only if all earlier ones lie in *used prefixes* of *disjoint* chunks is it apart
from them. `IInv` therefore adds: cursors are aligned and within capacity, blocks of
different owners are disjoint, the heap is exactly the union of the owners,
every allocation, with the bytes asked for, lies in a used prefix. It is stated as `Safe(h, cs, o, e, lv)` over
explicit components, so that growth and bump, one step of the code, are proved as two
lemmas (`GrowSafe`, `BumpSafe`) and composed. `NeedCovers` is where the guard
against wrapping enters (the rounded need is not below the request), `GrowCovers` where the growth
policy does (a new chunk holds the need).
`TotalsExact` (`Accounting`) says that the `uint32_t` additions never wrap. Its invariant
`AccountInv` carries the running sums of the chain as a *ledger*, a function that exists, instead of
a recursion; the capacities sum to the number of bytes in the buffers, which are
disjoint parts of the heap, hence below `Word`.

**HostRefsProofs** (any set of addresses). `HandlesAlwaysResolve`, `ResultsStayOwned`. The table finds a
message by its address, and addresses recur, so the invariant has to say when an
indexed address is still that of a live message: during an evaluation always
(`IndexAlive`); between two of them only if the program declares no message variable,
for otherwise the caller may free what the index still names, and the next call's
`Reset` comes before the first lookup. `IndexCoherent` says that the index leads back to the address
it is asked for, `MessagesApart` that live messages do not share one.

**EvaluationProofs** (`EvaluationAssumption`: distinct variable names, values with a kind, a content and
a size, equal contents for empty payloads, a page that is a multiple of 8;
`MarkersAssumption`: no value is one of the model's markers). `SlotsAlwaysDenote`, `BudgetAlwaysSuffices`,
`BinderAlwaysAtMostOnce`, `Refinement`. The pre-pass and the marshal go over the
variables separately, so the invariant ties them together with a ledger again: the
pre-pass has added up the costs of the variables it passed, and the cursor of the marshal is the same ledger
at the variable it has come to (`BudgetInv`). That needs the two passes to see the same value of a lazy
variable, hence `BindersInv` and `SizedInv`; a failure half-way leaves any slots behind, hence
`Placed` is claimed of the variables passed in *this* call only. `Refinement` proves that every
step is one of `EvalContract`'s or none of its concern; the contract has no fairness.

**PlanningProofs** (`ProgramsAssumption`, `RegistrationsAssumption`, `ArgsAssumption`, with
`BuiltinsAssumption` of `Declarations` and `RuntimeAssumption` of `Compiling`: what the checker lets
through, what the overload table and the runtime name, each with its number of parameters, and what a
callable may answer). Seven
theorems: `MemoryAlwaysReleased`, `AlwaysOneMemory`, `WindowAlwaysRespected`,
`GrownPagesAlwaysVisible`, `DiagnosticsAlwaysExact`, `CallsAlwaysReachDeclared` and `Invariance`. The invariant
has what a plan holds at each of its stages (`MemoryOK`), that a plan that went on was
checked against a registry that still agrees (`CheckedOK`: registrations add, and
an id once taken is refused), that its environments point at the entries of the registry (`EnvsOK`),
and what this compiler promises of a program (`Sound`): each import is of the runtime, of the
host or of a row of its ABI section and untaken by the module, and each call has a row or is
shadowed. `CallsReachDeclared` follows the declaration through overload
id, import, row, registration and environment, and says when it does not get there: exactly when
the id was a name of the module before, the callee then having the call's type (`CallShadowed`).

**CollectionsProofs** (`CollectionsAssumption`: a range and a merged map have a length).
`PresizeAlwaysSuffices`, `PoisonedRangeAlwaysResult`. While a literal is filled or a range
walked, the entries in place and those to come fit the capacity (`FillInv`, `LoopInv`);
each kernel takes at most one entry. The one gap of the pre-size is a host map whose count finds no
room, so that the capacity is 0: `UncountedIsLost` shows that its walk then finds no
room either. A merge is not counted; `MergeFine` shows by induction over the
merged entries that its insert, which grows the map, never traps.

**SlotLayoutProofs** and, on top of it, **LoweringProofs** (`SlotLayoutAssumption`): six theorems, the last two in
`LoweringProofs`, about every expression, however
large, however nested, whatever its names.

* `WorkspaceIsCovered`. `WorkspaceCovers` needs that no cell is released twice, which is a fact
  about the traversal: a node's operands are released at its "post" visit, a node has one parent,
  and the work stack holds each node still to be visited once, in order (`Passing`: the stack
  nests). `LayoutInv` adds the allocator's part: cells are handed out or free, never both, never
  twice on the list (`Sound`), so `bump = live + Len(free) = peak`.
* `CellsStayApart`. Two nodes one of which is written while the other waits (`Clash`: what follows
  it below its parent, the operands of an aggregate, everything after a comprehension's result) have
  different cells. `PairInv` carries it through the passes; a select is the one node that hands its
  cell to its parent, hence `PassedOn`.
* `AnnotationsAlwaysAgree`. A ternary and a comprehension read their operands through
  annotations. `PlaceInv` says where each pass leaves each kind of node, in particular a
  comprehension, which is laid out after the `dyn` around it; `RunInv` says of the work stack of the running code that an item lies
  inside those below it (`Nested`) and that what it reads through an annotation is
  there or is still to be left there by an item above it (`Fed`). An accumulator is the
  one place that moves.
* `NamesAlwaysLexical`. The work stack of `ResolvePass` determines the stack of scopes
  (`Chain`: the list of frames each item must find, and the one it leaves), and the frames are, innermost last,
  the comprehensions around the node on top (`Lists`); so the innermost scope with the name is
  the largest comprehension that shows it. `NameInv` also has what the table of variables holds
  of each comprehension entered, and that a free name is in it once.
* `OperandsAlwaysIntact`, from all of these. `SafeInv` speaks of the work stack of the running code:
  what each item may still write (`Writes`) and which operands it consumes (`Consumes`). Two
  things have to be kept. `Guarded`: an item writes only nodes whose code comes after
  what the items above it leave, unless one in between has consumed that by then (`Taken`).
  `Sheltered`: the same of an operand that waits already (`Meanwhile`). A step
  replaces the item on top by a short stack, and the proof is one lemma per kind of item: its
  parts hand their results to one another (`Handover`) and leave the operands below
  alone (`Waiting`). `Housed` says where a waiting operand is: in its own cell, in that of the comprehension
  result its code ends in (`Stands`), in a variable's cell, or, as the init of a loop, in the cell of the
  accumulator (`Token`). `CellsApart` then separates cells, `NameInv` the variables of
  loops (an ident that means one is inside its loop), and the slots of variables are distinct
  and lie below `SlotsBase`.
* `AbortsAlwaysExact`. `LaidInv` says which storage each pass has left on each node, and `Place`, read
  off the tree, is what that comes to (`Matches`). `Place` and `Outcome` at a node read only later
  nodes, so that a function that satisfies their recursion exists and they unfold
  (`OutcomeUnfolds`). A crash of the root is then traced
  down the nodes that are emitted to the check that fails, a fault of `Unplaced` (`CrashFault`). Conversely,
  from a root that compiles every node is emitted and compiles, or no code is asked of it
  (`Silent`: a recognised loop condition, the skeleton of a specialised loop step), and no
  silent node is a fault (`OkFaultless`).

**UnknownProofs** (`ThreeValuedAssumption`, `UnknownMergeAssumption`), about the kernels and the walk
under them. `KnownAnswersAreFinal`: by induction on the program, each kernel
maps operands that are final to a result that is; the case split is on whether an
operand is the absorbing value, an unknown or neither. A bool or another ordinary value is final whatever
happened before it; an error is if it is not `early`. `UnknownsNameAll` uses the
merge (union) and holds for host functions of any arity: what the trampoline loses is in `dropped`.
`UnaryHostCallsDropNothing` is the sentence of `instance.h` without that exception, under
`HostArity <= 1`, where nothing is ever dropped. `KInv` carries both, with the types; `PutKInv` is the one place
where a cell changes, and asks of each kernel that its result is `Settled`.
`MergeIsUnion` and `MergeStaysInBuffer` come from an invariant of the loop
(`Walked`): what is written is what has been read, in order, and below
everything left, which is what makes the next append keep the order and the
equal case drop exactly one copy. `MergeIsTheKernels` ties the two models: what a walk leaves is
a result that `cel_unknown_merge` of `ThreeValued` has.

Where an argument needs induction over data (a sum over the chain, the entries of a
merge, an index in a table), it is a minimal counterexample: `LeastIndex`, from the library's `WFMin`, gives the
first place at which the claim fails, and the place before it a contradiction.

What the attempts changed in the models: a `CASE` with overlapping arms in `Evaluation` (an
unordered choice to the prover, an ordered one to TLC) became an `IF`; `SlotLayout`'s workspace `mem` exists
only when the code runs, `Release`, `Place` and `Outcome` are recursive functions, a leaf of `$eval` has to be one that is
loaded, a loop condition of an unknown shape is refused between the operands emitted before and after it, and
`NamesLexical` says directly which part of a comprehension shows which name; the bare
`Eval()` of `EvalContract` was too narrow for an instance that a longer history had left
with an unknown in a slot; constants got the assumptions that had been implicit in the instances; `Accounting` and
`MergeEntries` are recursive functions in place of folds.

Only model-checked, and why:

* liveness (`CallsEnd`, `MergeEnds`): fairness and `ENABLED` are out of the prover's reach;
* `Kernels` and `HostFields` (`NumbersExact`, `OrderExact`, `TimesExact`, `EqualityExact`, `ConstructionExact`, `SelectionExact`,
  `PresenceExact`): equality and message contents are recursive operators over nested values,
  in whose presence no arithmetic can be proved, and the number kernels speak of `2^W`;
* `Collections`' refinement of its contract, `OptionalAgrees` and `BakedIsBuilt`: they need that the triangular probe
  visits every group of a power of two, and a fold over control bytes.

## 6. Findings

Three, in `PROJECT.json`, each in code whose own comment states the intention: a
host list or map whose snapshot for iteration finds no room in the arena is walked
as an empty one (`xs.all(...)` is then true), and a message literal with an unknown
field followed by another field traps instead of being unknown; and a custom function without
parameters whose name and type are those of a function the module has already (of the host or
the runtime's imports in either link mode, of the whole runtime in a static module) is not imported, and its calls
run that function (`compile.cc:359`, against the comment at 351-353).

Observations met while modelling, which the models contain as the code has them:

*Compiler.*
`cel.bind` of a bare variable, or of a comprehension that results in its
accumulator, aborts (`expr_lower_comprehension.cc:419`), and so does a ternary on `dyn` of a
comprehension (`layout_pass.cc:548-556`); `AbortsExactly` says that nothing else of
this kind does. The attribute path of `.y` keeps its dot (`resolve_pass.cc`, `AttributePathResolver`)
while the variable does not. `ReserveVariableSlots` is commented with a 24-byte
stride and uses 32. The guard band below libc's data holds because window,
guard and stride are multiples of 16: `CheckStaticWindowFits` measures from an
end that is aligned afterwards. `IsConstMaterializable` packs maps with double or null
keys, which the runtime's insert refuses.

*Engine and host functions.*
`BindFunction` checks neither return kind nor the concrete message type
although `engine.h` says that the signature is validated at registration. A null
given to a message, duration or timestamp parameter traps. A function of two unknown
arguments keeps the first one's set (`engine.cc:661-664` notes it; `instance.h:79-81` promises the
merged one). `arena_init` cannot report
its failure to `Plan` (`engine.cc:398`).

*Instance.*
`Eval()` without an activation does not reset the externref table that
`cel_host_wasmtime.h:106` calls per-eval. `EnsureActivationBuffer` never frees the buffer it
replaces (its comment says that dlmalloc reclaims it). The messages inside a returned
list are borrowed and destroyed by the next `Reset` (`instance.cc:160`).

*Runtime.*
`other && unknown` is an error at once, although the unknown may turn out false and make the
whole false (`cel_3vl.c:149-156` says so of errors, for which unknown wins). A time bound as a
protobuf message keeps fields that are not normalised (`instance.cc:841`, whose comment at 776-777 has the
same surface as a bound value): an instant before 1970 with a fraction, parsed and bound as a
`Timestamp`, is neither equal to itself nor in order with its neighbours, and a `Duration` of -1 s and +0.5 s has
the seconds -1. The UTC accessors and `int()` of a fractional time before 1970 give the next second
(`cel_time.c:415`, `:509`), the zoned ones do not; a host list finds such a timestamp only when
it is asked for as a message (`cel_host_eq.cc:213` floors, `cel_host_common.cc:50` truncates). A list index of the double
2^63 is cast without a check (`cel_runtime.c:731`). `{'a': 1, ?'a': optional.of(2)}` and `transformMapEntry` overwrite where
the plain literal reports a duplicate; the repository records the latter as CELW-0011
(`e2e/known_bugs_test.cc:522-555`, skipped). Host maps refuse double keys that arena maps
accept. `pick_grow_size` serves a request above the per-chunk cap with a chunk above the cap.

*Message fields.*
Host lists and maps given to JSON and Any fields, scalars given to repeated wrapper
fields, and times given to Any trap. An arena time is written to a Timestamp field with negative
nanos where a host time is floored. Nulls in repeated message fields are left out.

## 7. Plan

Done: Arena, ThreeValued, UnknownMerge and their proofs; Evaluation and its contract;
HostRefs; SlotLayout with name resolution; the kernels; collections and their contract;
message fields; the pipeline from declaration to destruction; proofs of `HostRefs`, `Evaluation` with
its refinement, `Planning`, the arena's totals and the capacities of `Collections`; proofs of
`SlotLayout`: workspace, cells, annotations, names, operands, aborts.

Next, most important first:

1. Lemmas about `Numeric`'s checks at any width, in a module apart from the recursive ones.
2. `BakedIsBuilt`: the two placements in lockstep over the entries.
3. Attribute patterns with several qualifiers and wildcards; element-wise decoding of results.
4. RFC 3339 and duration texts.

## 8. Not modelled

The front end wraps cel-cpp, which is not in the repository. Values and error
formatting change no state. String, network and encoder extensions convert
characters; the conformance tests serve them better. The readers and writers of
wasm sections, the celfn text format, the conformance runner and the command-line tools are pure functions
of bytes or drivers outside the system. Binaryen, wasmtime, protobuf reflection,
the zone database and libc are external: they appear as what the code may assume
of them. Within modelled components the following are left out: byte layouts and string pooling,
debug layouts and logging, the formatting of doubles, texts of times (their range checks are in), the choice
of a kernel by overload id, the import of `cel_copy_slot` (installed after the custom functions), list and map origins and message-type ids, extensions and groups, backings that
the embedder writes. Sizes above 2^32 (the pre-pass total at
`instance.cc:1038`) are not explored: the encoders check each copy against the real capacity.
