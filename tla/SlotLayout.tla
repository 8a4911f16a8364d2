----------------------------- MODULE SlotLayout -----------------------------
(***************************************************************************)
(* From a checked expression to memory: ResolvePass binds every name       *)
(* (compiler/codegen/resolve_pass.cc), LayoutPass assigns every node its   *)
(* storage (compiler/codegen/layout_pass.cc, slot_allocator.cc), the       *)
(* lowering turns the nodes into code that reads and writes those cells    *)
(* (expr_lower.cc, expr_lower_comprehension.cc), and $eval runs it.  Cells *)
(* are shared: a cell is handed out again once layout believes that its    *)
(* value has been consumed.                                                *)
(*                                                                         *)
(* The AST traversals and the emitted code are run by one work stack.  What*)
(* a kernel computes does not matter here; every write of a cell gets a    *)
(* fresh stamp, and a consumer must find the stamp its operand left.       *)
(***************************************************************************)
EXTENDS Naturals, SequencesExt, FiniteSetsExt

CONSTANTS
    Trees,      \* the expressions compiled
    MaxIters    \* bound on the iterations of a comprehension

\* One op per cel::Expr kind; add is the call of _+_, put that of cel.@mapInsert.
Calls      == {"call", "add", "put", "cond"}
Aggregates == {"list", "map", "struct"}
Ops == {"const", "ident", "select", "dyn", "comp"} \cup Calls \cup Aggregates

\* A tree: the op, the name and the kids of each node, in pre-order.  The kids
\* of a map alternate keys and values; those of a comprehension are its range,
\* accumulator init, loop condition, loop step and result.  The name of an
\* ident is <<name>>, or <<".", name>> with a leading dot; a comprehension
\* declares [iter, iter2, accu], iter2 empty for most, over a "list" or "map".
Arity(o) == CASE o \in {"const", "ident"} -> {0}
              [] o \in {"select", "dyn"} -> {1}
              [] o = "add" -> {2}
              [] o = "put" -> {2, 3}
              [] o = "cond" -> {3}
              [] o = "comp" -> {5}
              [] o = "map" -> {k \in Nat : k % 2 = 0}
              [] OTHER -> Nat

\* Ids in pre-order: kids follow their parent in order, a node has one parent,
\* and what lies between a node and one of its kids descends from the node.
PreOrder(kids) ==
    /\ \A n \in DOMAIN kids : \A i \in DOMAIN kids[n] :
         /\ kids[n][i] \in (n + 1) .. Len(kids)
         /\ \A j \in 1 .. (i - 1) : kids[n][j] < kids[n][i]
         /\ \A p \in DOMAIN kids : kids[n][i] \in ToSet(kids[p]) => p = n
         /\ \A m \in (n + 1) .. kids[n][i] : \E p \in n .. (m - 1) : m \in ToSet(kids[p])
    /\ \A m \in 2 .. Len(kids) : \E p \in 1 .. (m - 1) : m \in ToSet(kids[p])

NameShape(o, nm) ==
    CASE o = "ident" -> nm \in Seq(STRING) /\ Len(nm) \in {1, 2}
      [] o = "comp"  -> nm \in [iter : STRING, iter2 : STRING, accu : STRING, source : STRING]
      [] OTHER -> TRUE

ASSUME SlotLayoutAssumption ==
    /\ MaxIters \in Nat
    /\ \A t \in Trees :
         /\ t.op \in Seq(Ops) /\ t.op # <<>>
         /\ t.kids \in Seq(Seq(Nat)) /\ Len(t.kids) = Len(t.op) /\ PreOrder(t.kids)
         /\ \A n \in 1 .. Len(t.op) : /\ Len(t.kids[n]) \in Arity(t.op[n])
                                      /\ NameShape(t.op[n], t.name[n])

VARIABLES
    tree,
    stage,     \* "resolve", "select", "aggregate", "locals", "emit", "run", "done" or "crash"
    todo,      \* the work stack of the traversal, then of the running code
    scopes,    \* ScopedIdentResolver::scopes_, innermost last
    variables, \* the ResolvedVariables
    binding,   \* NodeAnnotation::local_index of an ident, counted from 1
    storage,   \* NodeAnnotation::storage
    free,      \* SlotAllocator::free_list_, top last
    bump, live, peak,
    mem,       \* the stamp last written to each cell of the workspace
    clock,     \* stamps given out
    where,     \* the address each node's code yielded when it last ran
    val,       \* the stamp it left there
    pending    \* nodes that have run and whose consumer has not

allocVars  == <<free, bump, live, peak>>
nameVars   == <<tree, scopes, variables, binding>>
layoutVars == <<nameVars, storage, free, bump, live, peak>>
runVars    == <<mem, clock, where, val, pending>>
vars == <<tree, stage, todo, scopes, variables, binding, storage, free, bump, live, peak, mem, clock, where, val, pending>>

Nodes == 1 .. Len(tree.op)
Op(n) == tree.op[n]
Kids(n) == tree.kids[n]
Kid(n, i) == tree.kids[n][i]
KidSet(n) == ToSet(Kids(n))

Comps == {n \in Nodes : Op(n) = "comp"}
IterRange(c) == Kid(c, 1)
AccuInit(c) == Kid(c, 2)
LoopBody(c) == Kid(c, 4)
Result(c) == Kid(c, 5)

-----------------------------------------------------------------------------
(* Addresses.  0 stands for memory that $eval never writes: rodata and the *)
(* arena elements an iteration variable points at.                         *)

ReadOnly == 0

\* ReserveVariableSlots: one cell per variable, in order, ahead of the cells of
\* the SlotAllocator; a variable that moves over a list's elements has none.
SlotOf(i) ==
    IF variables[i].moves THEN ReadOnly
    ELSE Cardinality({j \in 1 .. i : ~variables[j].moves})
VarOf(c, role) ==
    CHOOSE i \in DOMAIN variables : variables[i].of = c /\ variables[i].role = role
AccuSlot(c) == SlotOf(VarOf(c, "accu"))
SlotsBase == Cardinality({i \in DOMAIN variables : ~variables[i].moves}) + 1
Addresses == 1 .. (SlotsBase + peak - 1)

None    == [kind |-> "none", at |-> 0]
Rodata  == [kind |-> "rodata", at |-> ReadOnly]
Slot(a) == [kind |-> "slot", at |-> a]
Local(a) == [kind |-> "local", at |-> a]

\* The nodes below n, itself included: ids are in pre-order.
Below(n) == {m \in Nodes : m >= n /\ \A k \in Nodes : k > n /\ k <= m =>
                \E p \in n .. (k - 1) : k \in KidSet(p)}

\* IsConstMaterializable: nothing but literals below, in lists and maps.
IsConstMaterializable(n) == \A m \in Below(n) : Op(m) \in {"const", "list", "map"}

\* What passes A, B and C leave: literals and constant aggregates in rodata
\* (an accumulator's init is built afresh by every run), variables in locals.
LeafStorage(n) ==
    CASE Op(n) = "const" -> Rodata
      [] Op(n) = "ident" -> Local(SlotOf(binding[n]))
      [] Op(n) \in {"list", "map"} /\ IsConstMaterializable(n)
              /\ n \notin {AccuInit(c) : c \in Comps} -> Rodata
      [] OTHER -> None

Item(do, n, ks) == [do |-> do, n |-> n, ks |-> ks]
Visit(n) == Item("pre", n, <<>>)
Eval(n)  == Item("eval", n, <<>>)
Each(f(_), s) == [i \in 1 .. Len(s) |-> f(s[i])]

Init ==
    /\ tree \in Trees
    /\ stage = "resolve" /\ todo = <<Visit(1)>>
    /\ scopes = <<>> /\ variables = <<>> /\ binding = [n \in Nodes |-> 0]
    /\ storage = [n \in Nodes |-> None]
    /\ free = <<>> /\ bump = 0 /\ live = 0 /\ peak = 0
    /\ mem = <<>> /\ clock = 0
    /\ where = [n \in Nodes |-> ReadOnly] /\ val = [n \in Nodes |-> 0]
    /\ pending = {}

-----------------------------------------------------------------------------
(* SlotAllocator *)

\* Mutant: the peak is taken before the new cell is counted.
AcquirePeakLate(s) ==
    IF s.free # <<>>
      THEN [s EXCEPT !.free = SubSeq(@, 1, Len(@) - 1), !.live = @ + 1,
                     !.got = s.free[Len(s.free)]]
      ELSE [s EXCEPT !.bump = @ + 1, !.live = @ + 1, !.peak = Max({@, s.live}),
                     !.got = SlotsBase + s.bump]

Acquire(s) ==
    IF s.free # <<>>
      THEN [s EXCEPT !.free = SubSeq(@, 1, Len(@) - 1), !.live = @ + 1,
                     !.got = s.free[Len(s.free)]]
      ELSE [s EXCEPT !.bump = @ + 1, !.live = @ + 1, !.peak = Max({@, s.live + 1}),
                     !.got = SlotsBase + s.bump]

\* ReleaseIfWorkspaceSlot of each of the nodes ks, in order.
Release(s, ks) ==
    LET after[i \in 0 .. Len(ks)] ==
            IF i = 0 THEN s
            ELSE IF storage[ks[i]].kind # "slot" THEN after[i - 1]
            ELSE [after[i - 1] EXCEPT !.free = Append(@, storage[ks[i]].at), !.live = @ - 1]
    IN  after[Len(ks)]

Slots == [free |-> free, bump |-> bump, live |-> live, peak |-> peak, got |-> 0]

Allocator(s) == free' = s.free /\ bump' = s.bump /\ live' = s.live /\ peak' = s.peak

\* Store the cell that s handed out on node n.
Stamp(n, s) ==
    /\ Allocator(s)
    /\ storage' = [storage EXCEPT ![n] = Slot(s.got)]

-----------------------------------------------------------------------------
(* AstTraverse *)

Top == todo[1]
Doing(st, do) == stage = st /\ todo # <<>> /\ Top.do = do
Push(items) == todo' = items \o Tail(todo)
Descend(n) == Push(Each(Visit, Kids(n)) \o <<Item("post", n, <<>>)>>)

-----------------------------------------------------------------------------
(* ResolvePass: ScopedIdentResolver *)

Variable(name, role, of, moves) == [name |-> name, role |-> role, of |-> of, moves |-> moves]

\* PreVisitComprehension: the variables it declares, an accumulator always in a
\* cell, an iteration variable unless it moves over the elements of a list
\* (IterKindsFor).
Declared(c) ==
    LET d == tree.name[c]
        two == d.iter2 # ""
    IN  <<Variable(d.iter, "iter", c, d.source = "list" /\ ~two)>> \o
        (IF two THEN <<Variable(d.iter2, "iter2", c, d.source = "list")>> ELSE <<>>) \o
        <<Variable(d.accu, "accu", c, FALSE)>>

ResolvePre ==
    /\ Doing("resolve", "pre")
    /\ IF Op(Top.n) = "comp"
         THEN /\ variables' = variables \o Declared(Top.n)
              /\ Push(<<Visit(IterRange(Top.n)), Visit(AccuInit(Top.n)), Item("loop", Top.n, <<>>),
                        Visit(Kid(Top.n, 3)), Visit(LoopBody(Top.n)), Item("pop", Top.n, <<>>),
                        Item("result", Top.n, <<>>), Visit(Result(Top.n)), Item("pop", Top.n, <<>>)>>)
         ELSE Descend(Top.n) /\ UNCHANGED variables
    /\ UNCHANGED <<tree, scopes, binding, storage, allocVars, stage, runVars>>

\* PreVisitComprehensionSubexpression: condition and step see every variable,
\* the result only the accumulator.
EnterScope ==
    /\ Doing("resolve", "loop") \/ Doing("resolve", "result")
    /\ LET roles == IF Top.do = "loop" THEN {"iter", "iter2", "accu"} ELSE {"accu"} IN
       scopes' = Append(scopes, {i \in DOMAIN variables :
                                   variables[i].of = Top.n /\ variables[i].role \in roles})
    /\ Push(<<>>)
    /\ UNCHANGED <<tree, variables, binding, storage, allocVars, stage, runVars>>

\* Mutant: the scope of the loop stays open when the result's is entered.
PopResultOnly == IF Len(todo) > 1 /\ todo[2].do = "result" THEN scopes ELSE Front(scopes)

\* PostVisitComprehensionSubexpression.
PopScope == Front(scopes)

LeaveScope ==
    /\ Doing("resolve", "pop")
    /\ scopes' = PopScope
    /\ Push(<<>>)
    /\ UNCHANGED <<tree, variables, binding, storage, allocVars, stage, runVars>>

\* TryResolveScope: the variable of that name in the innermost scope with one.
InScopes(name) ==
    LET has == {d \in DOMAIN scopes : \E i \in scopes[d] : variables[i].name = name}
    IN  IF has = {} THEN {} ELSE {i \in scopes[Max(has)] : variables[i].name = name}

\* PostVisitIdent: a leading dot skips the scopes; a free variable is entered
\* in the table when it is first met (ResolveFreeVariable).
PostVisitIdent(n) ==
    LET dotted == Len(tree.name[n]) = 2
        name   == Last(tree.name[n])
        scoped == IF dotted THEN {} ELSE InScopes(name)
        known  == {i \in DOMAIN variables : variables[i].role = "free" /\ variables[i].name = name}
        found  == IF scoped # {} THEN scoped ELSE known
    IN  IF found # {}
          THEN binding' = [binding EXCEPT ![n] = Min(found)] /\ UNCHANGED variables
          ELSE /\ variables' = Append(variables, Variable(name, "free", 0, FALSE))
               /\ binding' = [binding EXCEPT ![n] = Len(variables) + 1]

ResolvePost ==
    /\ Doing("resolve", "post")
    /\ IF Op(Top.n) = "ident" THEN PostVisitIdent(Top.n) ELSE UNCHANGED <<variables, binding>>
    /\ Push(<<>>)
    /\ UNCHANGED <<tree, scopes, storage, allocVars, stage, runVars>>

\* What the passes of LayoutPass before the selects leave.
StartLayout ==
    /\ stage = "resolve" /\ todo = <<>>
    /\ storage' = [n \in Nodes |-> LeafStorage(n)]
    /\ stage' = "select" /\ todo' = <<Visit(1)>>
    /\ UNCHANGED <<nameVars, allocVars, runVars>>

-----------------------------------------------------------------------------
(* LayoutPass *)

\* Pass D begins with the selects alone.
SelectPre ==
    /\ Doing("select", "pre")
    /\ Descend(Top.n)
    /\ UNCHANGED <<layoutVars, stage, runVars>>

\* SelectStorageVisitor::PostVisitSelect; the other kinds are left alone.
SelectPost ==
    /\ Doing("select", "post")
    /\ IF Op(Top.n) = "select"
         THEN Stamp(Top.n, Acquire(Release(Slots, Kids(Top.n))))
         ELSE UNCHANGED <<storage, allocVars>>
    /\ Push(<<>>)
    /\ UNCHANGED <<nameVars, stage, runVars>>

\* Mutant: the cell of an aggregate is not held while its operands are laid out.
PreVisitExprUnpinned(n) ==
    IF Op(n) \in Aggregates /\ storage[n].kind # "rodata"
      THEN LET s == Acquire(Slots) IN Stamp(n, [s EXCEPT !.free = Append(@, s.got)])
      ELSE UNCHANGED <<storage, allocVars>>

\* AggregateStorageVisitor::PreVisitExpr: an aggregate gets its cell before
\* its operands are visited.
PreVisitExpr(n) ==
    IF Op(n) \in Aggregates /\ storage[n].kind # "rodata"
      THEN Stamp(n, Acquire(Slots))
      ELSE UNCHANGED <<storage, allocVars>>

AggregatePre ==
    /\ Doing("aggregate", "pre")
    /\ PreVisitExpr(Top.n)
    /\ Descend(Top.n)
    /\ UNCHANGED <<nameVars, stage, runVars>>

\* PostVisitList / Map / Struct release the operands, PostVisitCall releases
\* them and takes a cell, dyn(x) shares the storage of x.
PostVisit(n) ==
    CASE Op(n) \in Aggregates -> Allocator(Release(Slots, Kids(n))) /\ UNCHANGED storage
      [] Op(n) \in Calls -> Stamp(n, Acquire(Release(Slots, Kids(n))))
      [] Op(n) = "dyn" -> /\ storage' = [storage EXCEPT ![n] = storage[Kid(n, 1)]]
                          /\ UNCHANGED allocVars
      [] OTHER -> UNCHANGED <<storage, allocVars>>

AggregatePost ==
    /\ Doing("aggregate", "post")
    /\ PostVisit(Top.n)
    /\ Push(<<>>)
    /\ UNCHANGED <<nameVars, stage, runVars>>

\* Pass E: a comprehension is where its result is.
LocalsPre ==
    /\ Doing("locals", "pre")
    /\ Descend(Top.n)
    /\ UNCHANGED <<layoutVars, stage, runVars>>

\* Mutant: a comprehension is stamped with the address of its accumulator.
CompStorageIsAccu(c) == [storage[Result(c)] EXCEPT !.at = AccuSlot(c)]

CompStorage(c) == storage[Result(c)]

\* PostVisitComprehension, with its CHECK that the result has a storage.
LocalsPost ==
    /\ Doing("locals", "post")
    /\ IF Op(Top.n) = "comp"
         THEN /\ storage' = [storage EXCEPT ![Top.n] = CompStorage(Top.n)]
              /\ stage' = IF storage[Result(Top.n)] = None THEN "crash" ELSE stage
         ELSE UNCHANGED <<storage, stage>>
    /\ Push(<<>>)
    /\ UNCHANGED <<nameVars, allocVars, runVars>>

NextPass ==
    /\ stage \in {"select", "aggregate", "locals"} /\ todo = <<>>
    /\ stage' = CASE stage = "select" -> "aggregate"
                  [] stage = "aggregate" -> "locals"
                  [] OTHER -> "emit"
    /\ todo' = <<Visit(1)>>
    /\ UNCHANGED <<layoutVars, runVars>>

-----------------------------------------------------------------------------
(* The lowering: the order in which it emits the nodes, and its checks on  *)
(* the storage it reads off the annotations.                               *)

\* ClassifyLoopStep: the operands whose code one iteration runs before each
\* update of the accumulator; <<>> for the generic step, which runs whole.
IsAccu(c, n) == Op(n) = "ident" /\ tree.name[n] = <<tree.name[c].accu>>
Wrapped(c) == Op(LoopBody(c)) = "cond" /\ IsAccu(c, Kid(LoopBody(c), 3))
Body(c) == IF Wrapped(c) THEN Kid(LoopBody(c), 2) ELSE LoopBody(c)
Pred(c) == IF Wrapped(c) THEN <<Kid(LoopBody(c), 1)>> ELSE <<>>
IsAppend(c, b) == /\ Op(b) = "add" /\ IsAccu(c, Kid(b, 1))
                  /\ Op(Kid(b, 2)) = "list" /\ Len(Kids(Kid(b, 2))) = 1
IsInsert(c, b) == Op(b) = "put" /\ IsAccu(c, Kid(b, 1))
Literal(b) == Len(Kids(b)) = 2 /\ Op(Kid(b, 2)) = "map"
Updates(c) ==
    LET b == Body(c)
        entries == Kids(Kid(b, 2))
        Entry(i) == SubSeq(entries, 2 * i - 1, 2 * i) IN
    CASE IsAppend(c, b) -> <<Pred(c) \o entries>>
      [] IsInsert(c, b) /\ ~Literal(b) -> <<Pred(c) \o Tail(Kids(b))>>
      [] IsInsert(c, b) /\ Literal(b) /\ ~Wrapped(c) ->
           [i \in 1 .. (Len(entries) \div 2) |-> Entry(i)]
      [] IsInsert(c, b) /\ Literal(b) /\ Wrapped(c) ->
           IF Len(entries) <= 2 THEN <<Pred(c) \o entries>>
                                ELSE <<Pred(c) \o Tail(Kids(b))>>
Specialised(c) == IsAppend(c, Body(c)) \/ IsInsert(c, Body(c))

\* The nodes whose code is emitted below n, in that order: a comprehension's
\* range and init, then everything else.  No code is emitted for a loop condition
\* (BuildLoopCondExit) nor for the outer nodes of a specialised step.
EmittedFirst(n) == IF Op(n) = "comp" THEN <<IterRange(n), AccuInit(n)>> ELSE <<>>
EmittedThen(n) ==
    IF Op(n) = "comp"
      THEN (IF Specialised(n) THEN FlattenSeq(Updates(n)) ELSE <<LoopBody(n)>>) \o <<Result(n)>>
      ELSE Kids(n)

\* EmitSlotBaseAddress of a ternary's condition, after its operands.
CondAddressable(n) == Op(n) = "cond" => storage[Kid(n, 1)] # None
\* ResolveCompSourceAddress refuses politely.
RangeSupported(n) == Op(n) = "comp" => storage[IterRange(n)] # None
\* Mutant: only a missing storage is refused.
InitPlaced(n) == Op(n) = "comp" => storage[AccuInit(n)] # None
\* ResolveCompContext: the storage kinds accepted for accu_init.
InitAddressable(n) == Op(n) = "comp" => storage[AccuInit(n)].kind \in {"rodata", "slot"}

\* BuildLoopCondExit refuses what is neither a literal nor @not_strictly_false of
\* the accumulator or of its negation (which function a call names is left out).
OfAccu(c, k) == Op(k) = "call" /\ Len(Kids(k)) = 1 /\ IsAccu(c, Kid(k, 1))
ConditionRecognised(c) ==
    Op(c) = "comp" => LET k == Kid(c, 3) IN
        \/ Op(k) = "const" \/ OfAccu(c, k)
        \/ Op(k) = "call" /\ Len(Kids(k)) = 1 /\ OfAccu(c, Kid(k, 1))

\* The first node in emission order that fails ends the compilation; a module
\* that is emitted starts with a workspace of the size that layout found.
FirstFailure(s) ==
    LET failed == {i \in DOMAIN s : s[i] # "ok"} IN IF failed = {} THEN "ok" ELSE s[Min(failed)]
EntryCheck(n) == IF ~RangeSupported(n) THEN "done" ELSE IF ~InitAddressable(n) THEN "crash" ELSE "ok"
LoopCheck(n) == IF ConditionRecognised(n) THEN "ok" ELSE "done"
ExitCheck(n) == IF CondAddressable(n) THEN "ok" ELSE "crash"
Outcome ==
    LET of[n \in Nodes] ==
            FirstFailure(<<EntryCheck(n)>> \o [i \in DOMAIN EmittedFirst(n) |-> of[EmittedFirst(n)[i]]] \o
                         <<LoopCheck(n)>> \o [i \in DOMAIN EmittedThen(n) |-> of[EmittedThen(n)[i]]] \o
                         <<ExitCheck(n)>>)
    IN  of

Emit ==
    /\ stage = "emit"
    /\ \/ /\ Outcome[1] = "ok" /\ stage' = "run" /\ todo' = <<Eval(1)>>
          /\ mem' = [a \in Addresses |-> 0]
       \/ Outcome[1] \in {"done", "crash"} /\ stage' = Outcome[1] /\ todo' = <<>> /\ UNCHANGED mem
    /\ UNCHANGED <<layoutVars, clock, where, val, pending>>

-----------------------------------------------------------------------------
(* The emitted code *)

\* Write a fresh value to address a as what node n yields; ks are consumed.
Yield(n, a, ks) ==
    /\ mem' = [mem EXCEPT ![a] = clock + 1] /\ clock' = clock + 1
    /\ where' = [where EXCEPT ![n] = a] /\ val' = [val EXCEPT ![n] = clock + 1]
    /\ pending' = (pending \ ks) \cup {n}

\* Node n yields what is at address a as it stands.
YieldInPlace(n, a, ks) ==
    /\ where' = [where EXCEPT ![n] = a]
    /\ val' = [val EXCEPT ![n] = IF a = ReadOnly THEN 0 ELSE mem[a]]
    /\ pending' = (pending \ ks) \cup {n}
    /\ UNCHANGED <<mem, clock>>

Running(do) == Doing("run", do) /\ UNCHANGED <<layoutVars, stage>>

\* EmitKConstLoad, EmitKIdentLoad and a materialized aggregate.
EvalLeaf ==
    /\ Running("eval")
    /\ \/ Op(Top.n) \in {"const", "ident"}
       \/ Op(Top.n) \in Aggregates /\ storage[Top.n].kind = "rodata"
    /\ YieldInPlace(Top.n, storage[Top.n].at, {})
    /\ Push(<<>>)

\* EmitKSelect, EmitKIndexCall, EmitGeneralCall: operands, then the kernel.
EvalCall ==
    /\ Running("eval")
    /\ Op(Top.n) \in (Calls \ {"cond"}) \cup {"select"}
    /\ Push(Each(Eval, Kids(Top.n)) \o <<Item("kernel", Top.n, Kids(Top.n))>>)
    /\ UNCHANGED runVars

\* The helper reads its operands before it writes its out slot.
Kernel ==
    /\ Running("kernel")
    /\ Yield(Top.n, storage[Top.n].at, ToSet(Top.ks))
    /\ Push(<<>>)

\* EmitKListExpr / EmitKMapExpr / EmitKStructExpr: create, then operand by
\* operand (a map's by key and value) evaluate and add.
EvalAggregate ==
    /\ Running("eval")
    /\ Op(Top.n) \in Aggregates /\ storage[Top.n].kind # "rodata"
    /\ Yield(Top.n, storage[Top.n].at, {})
    /\ Push(<<Item("fill", Top.n, Kids(Top.n))>>)

Fill ==
    /\ Running("fill")
    /\ LET w == IF Op(Top.n) = "map" THEN 2 ELSE 1
           now == SubSeq(Top.ks, 1, w)
           rest == SubSeq(Top.ks, w + 1, Len(Top.ks)) IN
       IF Top.ks = <<>> THEN Push(<<>>)
       ELSE Push(Each(Eval, now) \o <<Item("put", Top.n, now), Item("fill", Top.n, rest)>>)
    /\ UNCHANGED runVars

\* cel_list_append and its kin read the operands and the aggregate's handle.
PutOperands ==
    /\ Running("put")
    /\ pending' = pending \ ToSet(Top.ks)
    /\ Push(<<>>)
    /\ UNCHANGED <<mem, clock, where, val>>

\* dyn(x) is the code of x.
EvalDyn ==
    /\ Running("eval") /\ Op(Top.n) = "dyn"
    /\ Push(<<Eval(Kid(Top.n, 1)), Item("same", Top.n, <<Kid(Top.n, 1)>>)>>)
    /\ UNCHANGED runVars

\* A block ends in another node's block: it yields that node's address.
Same ==
    /\ Running("same")
    /\ YieldInPlace(Top.n, where[Top.ks[1]], ToSet(Top.ks))
    /\ Push(<<>>)

EvalCond ==
    /\ Running("eval") /\ Op(Top.n) = "cond"
    /\ Push(<<Eval(Kid(Top.n, 1)), Item("branch", Top.n, <<Kid(Top.n, 1)>>)>>)
    /\ UNCHANGED runVars

\* EmitConditional loads the condition from its annotated storage, then runs
\* one arm and copies it, or copies a condition that is not a bool.
BranchArm ==
    /\ Running("branch")
    /\ \E i \in {2, 3} :
         Push(<<Eval(Kid(Top.n, i)), Item("kernel", Top.n, <<Kid(Top.n, i)>>)>>)
    /\ pending' = pending \ ToSet(Top.ks)
    /\ UNCHANGED <<mem, clock, where, val>>

BranchPoison ==
    /\ Running("branch")
    /\ Yield(Top.n, storage[Top.n].at, ToSet(Top.ks))
    /\ Push(<<>>)

-----------------------------------------------------------------------------
(* LowerComprehension *)

\* The accumulator's cell is tracked as the pending value of the init node,
\* which the prologue copies there.
AccuIs(c, ks) == Yield(AccuInit(c), AccuSlot(c), ks)

EvalComp ==
    /\ Running("eval") /\ Op(Top.n) = "comp"
    /\ Push(<<Eval(IterRange(Top.n)), Eval(AccuInit(Top.n)),
              Item("prologue", Top.n, <<IterRange(Top.n), AccuInit(Top.n)>>)>>)
    /\ UNCHANGED runVars

Finish(c) == <<Eval(Result(c)), Item("leave", c, <<Result(c), AccuInit(c)>>)>>

\* EmitRangeAbsorptionGuard: a poisoned range becomes the accumulator.
PrologueAbsorbs ==
    /\ Running("prologue")
    /\ AccuIs(Top.n, ToSet(Top.ks))
    /\ Push(Finish(Top.n))

\* EmitCompPrologue: the accumulator is pre-sized or copied from its init.
PrologueStarts ==
    /\ Running("prologue")
    /\ AccuIs(Top.n, ToSet(Top.ks))
    /\ Push(<<Item("loop", Top.n, <<>>)>> \o Finish(Top.n))

\* The range of cel.bind: no iteration.
EmptyLiteral(n) == Op(n) = "list" /\ Kids(n) = <<>>

\* A guarded empty literal inserts nothing: EmitMapMergeIf drops the predicate.
Into(c, ks) ==
    LET b == Body(c)
        nothing == IsInsert(c, b) /\ Literal(b) /\ Kids(Kid(b, 2)) = <<>> IN
    Each(Eval, ks) \o <<Item(IF nothing THEN "put" ELSE "into", c, ks)>>

\* EmitListLoopHead / EmitMapLoopHead: the index, the key or the value is
\* written to its variable's cell.
NextElement(c) ==
    LET cells == {SlotOf(i) : i \in {j \in DOMAIN variables :
                    variables[j].of = c /\ variables[j].role # "accu"}} \ {ReadOnly} IN
    /\ mem' = [a \in Addresses |-> IF a \in cells THEN clock + 1 ELSE mem[a]]
    /\ clock' = (IF cells = {} THEN clock ELSE clock + 1)
    /\ UNCHANGED <<where, val, pending>>

\* One iteration: EmitCompLoopStep.
LoopStep ==
    /\ Running("loop") /\ Len(Top.ks) < MaxIters
    /\ ~EmptyLiteral(IterRange(Top.n))
    /\ NextElement(Top.n)
    /\ LET c == Top.n
           s == LoopBody(c)
           again == Item("loop", c, Append(Top.ks, s)) IN
       IF Specialised(c)
         THEN Push(FlattenSeq(Each(LAMBDA ks : Into(c, ks), Updates(c))) \o <<again>>)
         ELSE Push(<<Eval(s), Item("copy", c, <<s>>), again>>)

\* cel_list_append_at, cel_map_insert_at, ... : a poison replaces the accumulator.
IntoAccu ==
    /\ Running("into")
    /\ AccuIs(Top.n, ToSet(Top.ks))
    /\ Push(<<>>)

\* EmitGenericStep: copy the step's annotated storage into the accumulator.
CopyStep ==
    /\ Running("copy")
    /\ IF storage[Top.ks[1]] = None
         THEN pending' = pending \ ToSet(Top.ks) /\ UNCHANGED <<mem, clock, where, val>>
         ELSE AccuIs(Top.n, ToSet(Top.ks))
    /\ Push(<<>>)

\* The range is exhausted, or BuildLoopCondExit leaves early.
LoopExit ==
    /\ Running("loop")
    /\ Push(<<>>)
    /\ UNCHANGED runVars

\* The block ends in the result's block.
Leave ==
    /\ Running("leave")
    /\ YieldInPlace(Top.n, where[Top.ks[1]], ToSet(Top.ks))
    /\ Push(<<>>)

Return ==
    /\ stage = "run" /\ todo = <<>>
    /\ stage' = "done"
    /\ UNCHANGED <<layoutVars, todo, runVars>>

-----------------------------------------------------------------------------
Next ==
    \/ ResolvePre \/ EnterScope \/ LeaveScope \/ ResolvePost \/ StartLayout
    \/ SelectPre \/ SelectPost \/ AggregatePre \/ AggregatePost
    \/ LocalsPre \/ LocalsPost \/ NextPass \/ Emit
    \/ EvalLeaf \/ EvalCall \/ Kernel \/ EvalAggregate \/ Fill \/ PutOperands
    \/ EvalDyn \/ Same \/ EvalCond \/ BranchArm \/ BranchPoison
    \/ EvalComp \/ PrologueAbsorbs \/ PrologueStarts \/ LoopStep \/ IntoAccu
    \/ CopyStep \/ LoopExit \/ Leave \/ Return

Spec == Init /\ [][Next]_vars

-----------------------------------------------------------------------------
Address(s) == s.at

\* Between the code that computes a node and the code that consumes it, no
\* other code writes the cell it was left in: an aggregate under
\* construction, a range, an accumulator or an operand waiting for its
\* siblings is never overwritten, whatever branches and iterations run; nor is
\* a marshalled variable.
OperandsIntact == stage = "run" =>
    /\ \A i \in DOMAIN variables : variables[i].role = "free" => mem[SlotOf(i)] = 0
    /\ \A n \in pending : where[n] # ReadOnly => mem[where[n]] = val[n]

\* The code that reaches an operand through its annotation (a ternary's
\* condition, a comprehension's range, init and step) finds it where the
\* operand's own code left it.
AnnotationsAgree ==
    stage = "run" /\ todo # <<>> /\ Top.do \in {"branch", "prologue", "copy"} =>
        \A k \in ToSet(Top.ks) : storage[k] # None => Address(storage[k]) = where[k]

\* The workspace that peak_slots() sizes covers every cell handed out, so the
\* arena and libc's data start past all of them, and no cell is released twice
\* (SlotAllocator::Release aborts on an underflow of live).
WorkspaceCovers ==
    /\ live >= 0
    /\ stage = "run" => \A n \in Nodes : storage[n].kind = "slot" =>
                           storage[n].at < SlotsBase + peak

\* The scoping rules, read off the tree: the comprehensions that show a
\* variable named nm to node n, which is in their condition or step, or, for
\* the accumulator, in their result.
Shows(c, n, nm) ==
    LET d == tree.name[c] IN
    \/ /\ \E i \in {3, 4} : n \in Below(Kid(c, i))
       /\ nm \in {d.iter, d.accu} \cup ({d.iter2} \ {""})
    \/ n \in Below(Result(c)) /\ nm = d.accu

\* A name means the variable of the innermost comprehension around it that
\* declares one by that name, however names are repeated and nested, and
\* otherwise, or behind a leading dot, the one free variable of that name
\* (ScopedIdentResolver's stack of scopes).
NamesLexical ==
    stage \in {"emit", "crash"} => \A n \in Nodes : Op(n) = "ident" =>
        LET v == variables[binding[n]]
            around == {c \in Comps : Shows(c, n, v.name)} IN
        /\ v.name = Last(tree.name[n])
        /\ v.of = IF Len(tree.name[n]) = 2 \/ around = {} THEN 0 ELSE Max(around)
        /\ v.of = 0 => \A i \in DOMAIN variables :
                          variables[i].of = 0 /\ variables[i].name = v.name => i = binding[n]

\* Where a node's value is, read off the tree: in a variable, nowhere that the
\* annotations tell (dyn of a comprehension, which is laid out later), or in a
\* cell of its own.
Place ==
    LET of[n \in Nodes] ==
            IF Op(n) = "ident" THEN "variable"
            ELSE IF Op(n) = "comp" THEN of[Result(n)]
            ELSE IF Op(n) # "dyn" THEN "cell"
            ELSE IF Op(Kid(n, 1)) = "comp" THEN "nowhere" ELSE of[Kid(n, 1)]
    IN  of

\* The compiler aborts only on a comprehension whose accumulator starts as a
\* variable or as dyn of a comprehension, a comprehension that results in dyn
\* of one, and a ternary on dyn of one (unless it is the guard of a filter or
\* transform, which has no ternary's code); and it compiles none of these (the
\* ABSL_CHECKs of ResolveCompContext, EmitSlotBaseAddress and
\* PostVisitComprehension against what the layout passes stamp).
Unplaced ==
    \E n \in Nodes :
        \/ Op(n) = "comp" /\ Place[AccuInit(n)] \in {"variable", "nowhere"}
        \/ Op(n) = "comp" /\ Place[Result(n)] = "nowhere"
        \/ /\ Op(n) = "cond" /\ Place[Kid(n, 1)] = "nowhere"
           /\ \A c \in Comps : Specialised(c) => LoopBody(c) # n
AbortsExactly == /\ stage = "crash" => Unplaced
                 /\ stage = "run" => ~Unplaced

=============================================================================
