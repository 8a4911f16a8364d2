------------------------------ MODULE Planning ------------------------------
(***************************************************************************)
(* The engine (eval/engine.cc): functions are registered, a program        *)
(* compiled here or elsewhere is planned, several times perhaps, into      *)
(* instances, and the instances outlive the engine object or not.          *)
(*                                                                         *)
(* A plan decodes the cel.abi section, checks the functions the program    *)
(* requires, makes store, linker and module, and then goes one of two ways *)
(* by what the module imports: a dynamic module gets an instance of the    *)
(* runtime whose memory and functions it imports; a static one carries the *)
(* runtime and its memory in itself.  Any call of wasmtime may fail, and a *)
(* plan that fails destroys what it made.                                  *)
(*                                                                         *)
(* Registration is set-up: engine.h wants it finished before plans run     *)
(* concurrently, so it never overlaps a plan, but may follow one.          *)
(***************************************************************************)
EXTENDS Compiling, HostCall

CONSTANTS
    Plans,         \* the calls of Engine::Plan
    Programs,      \* [calls, variables, expr, mode, level]: what is compiled
    Foreign,       \* programs this compiler did not make
    Registrations, \* [via, id, decl, arity, fn]: what is registered
    Args(_),       \* the argument slots a call of a declaration may find
    MaxFunctions,  \* bound: registered functions
    MaxPages       \* bound: pages of a memory

ASSUME PlanningBounds == MaxFunctions \in Nat /\ MaxPages \in Nat \ {0} /\ "engine" \notin Plans

\* Programs of another compiler call no declaration of ours.
ASSUME ProgramsAssumption ==
    /\ \A c \in Programs : /\ AllDecls(c.calls) \in Seq(Declaration)
                          /\ c.mode \in {"static", "dynamic"}
                          /\ c.expr.rodata \in Nat /\ c.expr.temps \in Nat /\ IsFiniteSet(c.expr.vars)
    /\ \A x \in Foreign : x.origin = "foreign" /\ x.calls = {}

\* What a callable may answer: a status, or a value that EncodeValueToSlot
\* takes, aggregates of elements that decode again.
Answers(x) ==
    \/ x = Trap
    \/ /\ x.kind \in {"list", "map"} /\ x = Cell(x.kind, [i \in DOMAIN x.v |-> x.v[i]])
       /\ \A i \in DOMAIN x.v : x.v[i].kind \notin {"optional", "trap"}
    \/ x.kind \notin {"list", "map", "type", "optional", "list_arena", "list_host", "map_arena", "map_host"}

\* An arity is a uint8_t.
ASSUME RegistrationsAssumption ==
    \A r \in Registrations :
        /\ r.via \in {"raw", "typed", "bind"} /\ r.arity \in 0 .. ByteValues - 1
        /\ r.decl \in Declaration /\ r.fn.kinds \in Seq(STRING) /\ Answers(r.fn.answer)

Poisoned(x) == x.kind \in {"error", "unknown"}

\* What the checker lets into a slot of type t: poison, a null, or a value of t.
SlotOf(t, x) ==
    \/ Poisoned(x) \/ x.kind = "null"
    \/ x.kind = t[1] /\ t[1] \in {"bool", "int", "uint", "double", "string", "bytes", "duration", "timestamp", "type"}
    \/ t[1] = "message" /\ x.kind = "message" /\ x.v = t[2]
    \/ /\ (t[1] = "list" /\ IsList(x)) \/ (t[1] = "map" /\ IsMap(x))
       /\ \A i \in DOMAIN x.v : x.v[i].kind \notin {"optional", "trap"}

ASSUME ArgsAssumption ==
    \A c \in Programs : \A d \in c.expr.calls : \A args \in Args(d) :
        /\ DOMAIN args = DOMAIN d.params /\ Len(args) = Len(d.params)
        /\ \A i \in DOMAIN args : SlotOf(d.params[i], args[i])

VARIABLES
    program,       \* the program, once it is there
    registry,      \* host_callbacks: by overload id, where its node is
    owners,        \* who holds the shared engine state
    plans,         \* per plan: how far it is and what it made
    seen           \* what the last step showed

vars == <<program, registry, owners, plans, seen>>

NoProgram == [origin |-> "none"]
Nothing == [op |-> "none"]

\* held: the references to the memory.  cached, expr: the memory the host and
\* the module use.  seeded: the memories whose arena was initialised.
Fresh == [pc |-> "idle", held |-> {}, cached |-> "none", expr |-> "none", seeded |-> <<>>,
          envs |-> <<>>, size |-> 1, snap |-> 0]

Init ==
    /\ program = NoProgram /\ registry = <<>> /\ owners = {"engine"}
    /\ plans = [p \in Plans |-> Fresh] /\ seen = Nothing

-----------------------------------------------------------------------------
(* Programs *)

CompileProgram(c) ==
    LET result == CompilerCompile(c.calls, c.variables, c.expr, c.mode, c.level) IN
    /\ program = NoProgram
    /\ program' = IF result = <<>> THEN program ELSE result[1]
    /\ seen' = IF result = <<>> THEN [op |-> "compile_error"] ELSE Nothing
    /\ UNCHANGED <<registry, owners, plans>>

ReceiveProgram(x) ==
    /\ program = NoProgram /\ program' = x /\ seen' = Nothing
    /\ UNCHANGED <<registry, owners, plans>>

-----------------------------------------------------------------------------
(* Registration *)

Busy == {"checked", "inited", "runtime", "registered", "linked"}
SettingUp == "engine" \in owners /\ \A p \in Plans : plans[p].pc \notin Busy

\* Mutant: a table that moves its entries when it grows.
RegisterRehashed(id, e) ==
    [x \in DOMAIN registry \cup {id} |->
       IF x = id THEN e ELSE [registry[x] EXCEPT !.node = @ + MaxFunctions]]

\* A std::map: what is in it stays where it is.
Register(id, e) == [x \in DOMAIN registry \cup {id} |-> IF x = id THEN e ELSE registry[x]]

\* What Engine::AddFunction requires.
AddFunction(id, arity) == id # <<>> /\ arity >= 1 /\ id \notin DOMAIN registry

\* BindTypedFunction: the parameters and the out slot, in a uint8_t.
TypedArity(fn) == (Len(fn.kinds) + 1) % ByteValues

\* ParseSingleHostDecl and the checks of BindParsedFunction.
BindParsedFunction(d, fn) ==
    /\ ParseCelfnSource(<<d>>)
    /\ Len(fn.kinds) = Len(d.params)
    /\ \A i \in DOMAIN d.params : CppParamMatchesDeclType(fn.kinds[i], d.params[i][1])

\* via: "raw" (AddFunction), "typed" (AddTypedFunction), "bind" (BindFunction).
RegisterFunction(r) ==
    LET id == IF r.via = "bind" THEN SynthesiseOverloadId(r.decl) ELSE r.id
        arity == IF r.via = "raw" THEN r.arity ELSE TypedArity(r.fn)
        sig == IF r.via = "bind" THEN <<RequiredFunctionFromDecl(r.decl)>> ELSE <<>>
    IN  /\ SettingUp /\ Cardinality(DOMAIN registry) < MaxFunctions
        /\ r.via = "bind" => BindParsedFunction(r.decl, r.fn)
        /\ AddFunction(id, arity)
        /\ registry' = Register(id, [arity |-> arity, sig |-> sig, fn |-> r.fn,
                                     node |-> Cardinality(DOMAIN registry) + 1])
        /\ seen' = Nothing
        /\ UNCHANGED <<program, owners, plans>>

-----------------------------------------------------------------------------
(* Plan: decode and check *)

CheckRuntimeAbiVersion(x) == x.version = AbiVersion \/ (x.version = 0 /\ x.bare)

ValidateAbiSlotExtents(x) == \A s \in x.slots : s + ValueBytes <= Window

\* Why a row is refused, if it is.
CheckHostRow(row) ==
    IF row.id \notin DOMAIN registry THEN "missing"
    ELSE IF Len(row.params) + 1 # registry[row.id].arity THEN "arity"
    ELSE IF registry[row.id].sig # <<>> /\ ~SignaturesAgree(row, registry[row.id].sig[1]) THEN "signature"
    ELSE "ok"

\* The retired plugin backend is refused, a later one is skipped.
RowVerdict(row) ==
    CASE row.backend = "host"   -> CheckHostRow(row)
      [] row.backend = "plugin" -> "plugin"
      [] OTHER                  -> "ok"

RefusedRows(x) == {row \in x.rows : RowVerdict(row) # "ok"}

\* The destructor of InstanceImpl drops the clone, the linker and the store.
Destroyed(held) == held \ {"clone", "linker", "store"}

Fail(p, made, stage, row) ==
    /\ plans' = [plans EXCEPT ![p] = [Fresh EXCEPT !.pc = "failed", !.held = Destroyed(made.held)]]
    /\ seen' = [op |-> "fail", p |-> p, stage |-> stage, row |-> row]
    /\ UNCHANGED <<program, registry, owners>>

Advance(p, made) ==
    /\ plans' = [plans EXCEPT ![p] = made] /\ seen' = Nothing
    /\ UNCHANGED <<program, registry, owners>>

\* Without a section there is nothing to decode and nothing to check.
DecodeAndCheck(p) ==
    LET x == program
        me == plans[p]
    IN  /\ me.pc = "idle" /\ program # NoProgram /\ "engine" \in owners
        /\ \/ /\ x.section /\ ~CheckRuntimeAbiVersion(x)
              /\ Fail(p, me, "version", {})
           \/ /\ x.section /\ CheckRuntimeAbiVersion(x) /\ ~ValidateAbiSlotExtents(x)
              /\ Fail(p, me, "slots", {})
           \/ /\ x.section /\ CheckRuntimeAbiVersion(x) /\ ValidateAbiSlotExtents(x)
              /\ \E row \in RefusedRows(x) : Fail(p, me, "required", {row})
           \/ /\ x.section => CheckRuntimeAbiVersion(x) /\ ValidateAbiSlotExtents(x) /\ RefusedRows(x) = {}
              /\ Advance(p, [me EXCEPT !.pc = "checked"])

-----------------------------------------------------------------------------
(* Plan: instantiate *)

\* InitStore, InitLinker and CompileExprModule.
InitPlanState(p) ==
    /\ plans[p].pc = "checked"
    /\ \/ Advance(p, [plans[p] EXCEPT !.pc = "inited"])
       \/ Fail(p, plans[p], "wasmtime", {})

ModuleImportsCelNamespace(x) == \E im \in x.imports : im.module = "cel"

Static == ~ModuleImportsCelNamespace(program)

ValidateLinkModeLabel(x) ==
    x.section => /\ x.label = "static" => Static
                 /\ x.label = "dynamic" => ~Static

\* The memory an instance exports, as an extern that owns a reference.
GetRuntimeMemoryExport(held) == held \cup {"extern"}

\* Mutant: the extern is not deleted.
CacheKeepingExtern(held) == GetRuntimeMemoryExport(held) \cup {"clone"}

CacheRuntimeMemory(held) == (GetRuntimeMemoryExport(held) \cup {"clone"}) \ {"extern"}

\* The linker keeps a reference of its own.
DefineCelLinkerBindings(held) == (GetRuntimeMemoryExport(held) \cup {"linker"}) \ {"extern"}

\* Mutant: the host keeps the memory of the extern it has deleted.
BindHelpersBorrowing(me, memory) ==
    [me EXCEPT !.cached = memory, !.snap = me.size, !.seeded = Append(@, memory)]

\* CacheRuntimeMemory, BindRuntimeFuncHandles, SeedRuntimeArena.
BindHelpersInstance(me, memory) ==
    [me EXCEPT !.held = CacheRuntimeMemory(@), !.cached = memory,
               !.snap = me.size, !.seeded = Append(@, memory)]

\* A runtime of its own for a dynamic program; the store owns its memory.
InstantiateRuntime(p) ==
    LET started == [plans[p] EXCEPT !.held = @ \cup {"store"}]
        bound == BindHelpersInstance(started, "runtime")
        linked == [bound EXCEPT !.pc = "runtime", !.held = DefineCelLinkerBindings(@)]
    IN  /\ plans[p].pc = "inited" /\ ValidateLinkModeLabel(program) /\ ~Static
        /\ \/ Advance(p, linked)
           \/ \E made \in {plans[p], started, bound, linked} : Fail(p, made, "wasmtime", {})

Mislabelled(p) ==
    /\ plans[p].pc = "inited" /\ ~ValidateLinkModeLabel(program)
    /\ Fail(p, plans[p], "label", {})

\* Each callback's environment points at the node of the registry.
RegisterHostCallbacks(p) ==
    /\ \/ plans[p].pc = "runtime"
       \/ plans[p].pc = "inited" /\ Static /\ ValidateLinkModeLabel(program)
    /\ \/ Advance(p, [plans[p] EXCEPT !.pc = "registered",
                                      !.envs = [id \in DOMAIN registry |-> registry[id].node]])
       \/ Fail(p, plans[p], "wasmtime", {})

\* What the linker of a plan can give an import.
Resolves(me, im) ==
    CASE im.module = "cel"      -> "linker" \in me.held /\ im.name \in CelHelpers /\ im.arity = Params[im.name]
      [] im.module = "cel_host" -> im.name \in HostImports /\ im.arity = Params[im.name]
      [] im.module = "cel_fn"   -> im.name \in DOMAIN me.envs /\ registry[im.name].arity = im.arity
      [] OTHER                  -> FALSE

\* A module that imports no memory brings its own.
InstantiateExpr(p) ==
    LET me == plans[p]
        imports == \E im \in program.imports : im.module = "cel"
        made == [me EXCEPT !.pc = IF Static THEN "linked" ELSE "ready", !.held = @ \cup {"store"},
                           !.expr = IF imports THEN "runtime" ELSE "own"]
    IN  /\ me.pc = "registered"
        /\ \/ /\ \E im \in program.imports : ~Resolves(me, im)
              /\ Fail(p, me, "link", {})
           \/ /\ \A im \in program.imports : Resolves(me, im)
              /\ \/ ~program.eval /\ Fail(p, made, "eval", {})
                 \/ Fail(p, made, "wasmtime", {})
                 \/ /\ program.eval /\ plans' = [plans EXCEPT ![p] = made]
                    /\ owners' = IF Static THEN owners ELSE owners \cup {p}
                    /\ seen' = Nothing /\ UNCHANGED <<program, registry>>

\* The module itself is the runtime.
BindStaticModeHelpers(p) ==
    LET bound == [BindHelpersInstance(plans[p], "own") EXCEPT !.pc = "ready"] IN
    /\ plans[p].pc = "linked"
    /\ \/ /\ plans' = [plans EXCEPT ![p] = bound] /\ owners' = owners \cup {p}
          /\ seen' = Nothing /\ UNCHANGED <<program, registry>>
       \/ \E made \in {plans[p], bound} : Fail(p, made, "wasmtime", {})

-----------------------------------------------------------------------------
(* Instances *)

Show(p, me, what) ==
    plans' = [plans EXCEPT ![p] = me] /\ seen' = what /\ UNCHANGED <<program, registry, owners>>

\* Eval reads the size of the memory before it calls the module.
BeginEval(p) ==
    /\ plans[p].pc = "ready"
    /\ Show(p, [plans[p] EXCEPT !.pc = "eval", !.snap = plans[p].size], Nothing)

\* malloc, from the marshal or from inside the module.
Grow(p) ==
    /\ plans[p].pc \in {"ready", "eval"} /\ plans[p].size < MaxPages
    /\ Show(p, [plans[p] EXCEPT !.size = @ + 1], Nothing)

\* Mutant: no second look.
IsInBoundsSnapshot(me, page) == [ok |-> page <= me.snap, snap |-> me.snap]

\* A miss reads the size again.
IsInBounds(me, page) ==
    IF page <= me.snap THEN [ok |-> TRUE, snap |-> me.snap]
    ELSE [ok |-> page <= me.size, snap |-> me.size]

\* A trampoline reads or writes a page.
HostAccess(p, page) ==
    LET b == IsInBounds(plans[p], page) IN
    /\ plans[p].pc = "eval"
    /\ Show(p, [plans[p] EXCEPT !.snap = b.snap], [op |-> "access", p |-> p, page |-> page, ok |-> b.ok])

\* What is at the address the environment of an id holds.
At(node) == {id \in DOMAIN registry : registry[id].node = node}

IsImported(d) == \E im \in program.imports : im.module = "cel_fn" /\ im.name = SynthesiseOverloadId(d)

\* The module calls a declared function it imports; a trap ends the
\* evaluation.
CallCustom(p, d, args, oom) ==
    LET id == SynthesiseOverloadId(d)
        node == plans[p].envs[id]
        out == IF owners = {} \/ At(node) = {} THEN Cell("undefined", "none")
               ELSE HostCallbackTrampoline(registry[CHOOSE x \in At(node) : TRUE].fn, args, oom)
    IN  /\ plans[p].pc = "eval" /\ IsImported(d)
        /\ Show(p, [plans[p] EXCEPT !.pc = IF out = Trap THEN "ready" ELSE "eval"],
                [op |-> "call", to |-> "host", p |-> p, decl |-> d, args |-> args, node |-> node, out |-> out])

\* It calls one whose import was skipped: the function of that name runs on
\* the slots, whatever it makes of them, and no callback does.
CallShadowing(p, d, args) ==
    /\ plans[p].pc = "eval" /\ ~IsImported(d)
    /\ \E pc \in {"eval", "ready"} :
         Show(p, [plans[p] EXCEPT !.pc = pc], [op |-> "call", to |-> "module", p |-> p, decl |-> d, args |-> args])

EndEval(p) == plans[p].pc = "eval" /\ Show(p, [plans[p] EXCEPT !.pc = "ready"], Nothing)

DestroyInstance(p) ==
    /\ plans[p].pc = "ready"
    /\ plans' = [plans EXCEPT ![p] = [Fresh EXCEPT !.pc = "gone", !.held = Destroyed(plans[p].held)]]
    /\ owners' = owners \ {p} /\ seen' = Nothing
    /\ UNCHANGED <<program, registry>>

\* The instances keep the state they were planned with.
DestroyEngine ==
    /\ SettingUp /\ owners' = owners \ {"engine"} /\ seen' = Nothing
    /\ UNCHANGED <<program, registry, plans>>

Next ==
    \/ \E c \in Programs : CompileProgram(c)
    \/ \E x \in Foreign : ReceiveProgram(x)
    \/ \E r \in Registrations : RegisterFunction(r)
    \/ DestroyEngine
    \/ \E p \in Plans :
         \/ DecodeAndCheck(p) \/ InitPlanState(p) \/ Mislabelled(p) \/ InstantiateRuntime(p)
         \/ RegisterHostCallbacks(p) \/ InstantiateExpr(p) \/ BindStaticModeHelpers(p)
         \/ BeginEval(p) \/ Grow(p) \/ EndEval(p) \/ DestroyInstance(p)
         \/ \E page \in 1..(MaxPages + 1) : HostAccess(p, page)
         \/ /\ plans[p].pc = "eval"
            /\ \E d \in program.calls : \E args \in Args(d) :
                 \/ \E oom \in BOOLEAN : CallCustom(p, d, args, oom)
                 \/ CallShadowing(p, d, args)

Spec == Init /\ [][Next]_vars

-----------------------------------------------------------------------------
(* Properties *)

Running(p) == plans[p].pc \in {"ready", "eval"}

\* Planning a program this compiler made is refused over a custom function
\* only when the module really imports that function and the engine lacks it
\* or has it with another arity or signature, and never by an unresolved or
\* mistyped import at link time (required_fn_check.cc's diagnostics against
\* the imports the optimizer left).
DiagnosticsExact ==
    seen.op = "fail" /\ program.origin = "compiled" =>
        /\ seen.stage \in {"required", "wasmtime"}
        /\ \A row \in seen.row :
             /\ \E im \in program.imports : im.module = "cel_fn" /\ im.name = row.id
             /\ \/ row.id \notin DOMAIN registry
                \/ registry[row.id].arity # Len(row.params) + 1
                \/ registry[row.id].sig \notin {<<>>, <<row>>}

\* The callable can take the argument: its type was checked, and it is no null.
Takes(fn, i, d, x) ==
    x.kind # "null" /\ (fn.kinds[i] = "proto" => d.params[i] = <<"message", fn.M>>)

\* A call from an instance reaches the callback registered under the id of
\* the declaration it was compiled against, still in place however many
\* functions were registered since and whether or not the engine object is
\* gone; it has the declaration's arity; an error among the arguments, or
\* else an unknown, is its answer; and one bound with BindFunction has the
\* declaration's signature and is handed every argument, so that what the
\* out slot holds is the callable's answer, or a trap where that answer needs
\* the arena.  The one exception: a call whose id is the name of a function
\* the module had before the custom functions were installed always goes to
\* that function, which is then of the call's type.
CallsReachDeclared ==
    seen.op = "call" =>
        LET id == SynthesiseOverloadId(seen.decl)
            e == registry[id]
        IN  \/ seen.to = "module" /\ Shadows(program.label, id, Len(seen.args) + 1)
            \/ /\ seen.to = "host" /\ id \notin NamesTaken(program.label)
               /\ owners # {} /\ id \in DOMAIN registry /\ seen.node = e.node
               /\ e.arity = Len(seen.args) + 1
               /\ (\E i \in DOMAIN seen.args : Poisoned(seen.args[i])) =>
                    /\ seen.out \in {seen.args[i] : i \in DOMAIN seen.args}
                    /\ seen.out.kind = "unknown" => \A i \in DOMAIN seen.args : seen.args[i].kind # "error"
                    /\ Poisoned(seen.out)
               /\ e.sig # <<>> =>
                    /\ e.sig[1] = RequiredFunctionFromDecl(seen.decl)
                    /\ (\A i \in DOMAIN seen.args :
                          ~Poisoned(seen.args[i]) /\ Takes(e.fn, i, seen.decl, seen.args[i])) =>
                         \/ DecodeCelValue(seen.out) = e.fn.answer
                         \/ seen.out = Trap /\ e.fn.answer.kind \in {"string", "bytes", "unknown"}

\* Violated: what compile.cc:351-353 says, "Custom (cel_fn) imports aren't
\* present in the adopted module, so they still get installed": every custom
\* function a compiled program calls is one of its imports.
CustomsInstalled ==
    program.origin = "compiled" => \A d \in program.calls : IsImported(d)

\* Whatever step a plan fails at, and when an instance is destroyed, no
\* reference to the shared memory is left; a running instance holds no extern
\* (the ownership note of GetRuntimeMemoryExport).
MemoryReleased ==
    \A p \in Plans : /\ plans[p].pc \in {"failed", "gone"} => plans[p].held = {}
                     /\ Running(p) => "extern" \notin plans[p].held

\* In a running instance the host and the module use the same memory, it is
\* kept alive by a clone, and its arena, and no other, was initialised once
\* (BindHelpersInstance in both link modes).
OneMemory ==
    \A p \in Plans : Running(p) =>
        /\ plans[p].cached = plans[p].expr /\ plans[p].seeded = <<plans[p].expr>>
        /\ {"store", "clone"} \subseteq plans[p].held

\* A trampoline accepts exactly the pages the memory has, however much it
\* grew since the evaluation began (WasmtimeMemoryView::IsInBounds).
GrownPagesVisible ==
    seen.op = "access" => (seen.ok <=> seen.page <= plans[seen.p].size)

\* What a running instance's variables are written to lies in the window the
\* runtime leaves free, and what this compiler lays out stays clear of the
\* guard band below the runtime's data, however the workspace is aligned
\* (CheckStaticWindowFits, ValidateAbiSlotExtents).
WindowRespected ==
    \A p \in Plans : Running(p) =>
        /\ program.section => \A s \in program.slots : s + ValueBytes <= Window
        /\ program.origin = "compiled" => program.end + Guard <= Window
=============================================================================
