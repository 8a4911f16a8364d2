--------------------------- MODULE PlanningProofs ---------------------------
(***************************************************************************)
(* Plans of any program on any engine: memory is released and is one, the  *)
(* static region stays in its window, diagnostics are exact, and a call    *)
(* reaches the callback its declaration names, or the function that name   *)
(* had in the module before.                                               *)
(***************************************************************************)
EXTENDS Planning, TLAPS, FiniteSetTheorems, WellFoundedInduction, NaturalsInduction

IdOf(r) == IF r.via = "bind" THEN SynthesiseOverloadId(r.decl) ELSE r.id
Ids == {IdOf(r) : r \in Registrations}

PC == Busy \cup {"idle", "ready", "eval", "failed", "gone"}
Memories == {"none", "runtime", "own"}
PlanType == [pc : PC, held : SUBSET {"store", "clone", "linker", "extern"},
             cached : Memories, expr : Memories, seeded : Seq(Memories),
             envs : UNION {[S -> Nat] : S \in SUBSET Ids}, size : Nat, snap : Nat]

TypeOK ==
    /\ plans \in [Plans -> PlanType]
    /\ DOMAIN registry \in SUBSET Ids /\ IsFiniteSet(DOMAIN registry)

\* What this compiler promises of a program it makes.
Sound(x) ==
    /\ x.origin = "compiled" /\ x.section = TRUE /\ x.version = AbiVersion /\ x.eval = TRUE
    /\ x.label \in {"static", "dynamic"} /\ (x.label = "static" <=> ~ModuleImportsCelNamespace(x))
    /\ ValidateAbiSlotExtents(x) /\ x.end + Guard <= Window
    /\ \A im \in x.imports :
         \/ im.module = "cel" /\ im.name \in CelHelpers /\ im.arity = Params[im.name]
         \/ im.module = "cel_host" /\ im.name \in HostImports /\ im.arity = Params[im.name]
         \/ /\ im.module = "cel_fn" /\ im.name \notin NamesTaken(x.label)
            /\ \E row \in x.rows : /\ row.id = im.name /\ row.backend = "host" /\ Len(row.params) \in Nat
                                   /\ im.arity = (Len(row.params) + 1) % ByteValues
    /\ \A row \in x.rows : row.backend = "host" /\ \E im \in x.imports : im.module = "cel_fn" /\ im.name = row.id
    /\ \A d \in x.calls : /\ d \in Declaration /\ \E c \in Programs : d \in c.expr.calls
                          /\ \/ RequiredFunctionFromDecl(d) \in x.rows
                             \/ Shadows(x.label, SynthesiseOverloadId(d), Len(d.params) + 1)

ProgramInv ==
    \/ program = NoProgram
    \/ program.origin = "foreign" /\ program.calls = {}
    \/ Sound(program)

\* An entry is what one registration made it, at a place of its own.
RegistryInv ==
    /\ \A id \in DOMAIN registry : LET e == registry[id] IN
         /\ e.node \in 1 .. Cardinality(DOMAIN registry) /\ e.arity \in 1 .. ByteValues - 1
         /\ \/ e.sig = <<>>
            \/ \E r \in Registrations : /\ id = SynthesiseOverloadId(r.decl) /\ BindParsedFunction(r.decl, r.fn)
                                        /\ e.sig = <<RequiredFunctionFromDecl(r.decl)>> /\ e.fn = r.fn
    /\ \A x, y \in DOMAIN registry : registry[x].node = registry[y].node => x = y

\* What a plan holds and has made, by how far it is.
MemoryOK(me) ==
    /\ me.pc \in {"idle", "checked", "inited"} \/ (me.pc = "registered" /\ Static) =>
         me.held = {} /\ me.cached = "none" /\ me.expr = "none" /\ me.seeded = <<>>
    /\ me.pc = "runtime" \/ (me.pc = "registered" /\ ~Static) =>
         /\ ~Static /\ me.held = {"store", "clone", "linker"} /\ me.expr = "none"
         /\ me.cached = "runtime" /\ me.seeded = <<"runtime">>
    /\ me.pc = "linked" => Static /\ me.held = {"store"} /\ me.seeded = <<>> /\ me.expr = "own"
    /\ me.pc \in {"ready", "eval"} =>
         /\ me.held = {"store", "clone"} \cup (IF Static THEN {} ELSE {"linker"})
         /\ me.expr = (IF Static THEN "own" ELSE "runtime")
         /\ me.cached = me.expr /\ me.seeded = <<me.expr>>
    /\ me.pc \in {"failed", "gone"} => me.held = {}
    /\ me.snap <= me.size

\* A plan that went on was checked, and the registry still agrees.
Passed == program.section => /\ CheckRuntimeAbiVersion(program) /\ ValidateAbiSlotExtents(program)
                             /\ RefusedRows(program) = {}
CheckedOK(me) == me.pc \notin {"idle", "failed", "gone"} => program # NoProgram /\ Passed

\* The environments point at the entries, and an instance has one per import.
EnvsOK(me) ==
    /\ me.pc \in {"registered", "linked", "ready", "eval"} =>
         /\ DOMAIN me.envs \subseteq DOMAIN registry
         /\ \A id \in DOMAIN me.envs : me.envs[id] = registry[id].node
    /\ me.pc = "registered" => DOMAIN me.envs = DOMAIN registry
    /\ me.pc \in {"linked", "ready", "eval"} =>
         \A im \in program.imports : im.module = "cel_fn" => im.name \in DOMAIN me.envs

\* An instance keeps the engine's state alive.
PlanOK(p, me) ==
    MemoryOK(me) /\ CheckedOK(me) /\ EnvsOK(me) /\ (me.pc \in {"ready", "eval"} => p \in owners)

PlansInv == \A p \in Plans : PlanOK(p, plans[p])

IInv == TypeOK /\ ProgramInv /\ RegistryInv /\ PlansInv

-----------------------------------------------------------------------------
(* Steps of one plan *)

\* The program and the registry decide what is right for a plan.
LEMMA PlanFrame ==
    ASSUME UNCHANGED <<program, registry>>, NEW m
    PROVE  (MemoryOK(m) => MemoryOK(m)') /\ (CheckedOK(m) => CheckedOK(m)') /\ (EnvsOK(m) => EnvsOK(m)')
  <1>1. Static' = Static
    BY DEF Static, ModuleImportsCelNamespace
  <1>2. Passed' = Passed
    BY DEF Passed, CheckRuntimeAbiVersion, ValidateAbiSlotExtents, RefusedRows, RowVerdict, CheckHostRow,
           SignaturesAgree
  <1>3. MemoryOK(m) => MemoryOK(m)'
    BY <1>1 DEF MemoryOK
  <1>4. CheckedOK(m) => CheckedOK(m)'
    BY <1>2 DEF CheckedOK, NoProgram
  <1>5. EnvsOK(m) => EnvsOK(m)'
    BY DEF EnvsOK
  <1> QED BY <1>3, <1>4, <1>5

\* One plan moves on and is right where it is.
LEMMA PlanStep ==
    ASSUME IInv, NEW p \in Plans, NEW m \in PlanType, plans' = [plans EXCEPT ![p] = m],
           UNCHANGED <<program, registry>>, MemoryOK(m), CheckedOK(m), EnvsOK(m),
           m.pc \in {"ready", "eval"} => p \in owners',
           \A q \in Plans : q # p /\ q \in owners => q \in owners'
    PROVE  IInv'
  <1>1. TypeOK'
    BY DEF IInv, TypeOK
  <1>2. RegistryInv' /\ ProgramInv'
    BY DEF IInv, RegistryInv, ProgramInv, Sound, NoProgram, ModuleImportsCelNamespace, ValidateAbiSlotExtents
  <1>3. PlansInv'
    <2> SUFFICES ASSUME NEW q \in Plans PROVE PlanOK(q, plans[q])'
      BY DEF PlansInv
    <2>1. PICK n : n = plans'[q]
      OBVIOUS
    <2>2. n = IF q = p THEN m ELSE plans[q]
      BY <2>1 DEF IInv, TypeOK
    <2>3. MemoryOK(n) /\ CheckedOK(n) /\ EnvsOK(n)
      BY <2>2 DEF IInv, PlansInv, PlanOK
    <2>4. n.pc \in {"ready", "eval"} => q \in owners'
      BY <2>2 DEF IInv, PlansInv, PlanOK
    <2>5. MemoryOK(n)' /\ CheckedOK(n)' /\ EnvsOK(n)'
      BY <2>3, PlanFrame
    <2> QED BY <2>1, <2>4, <2>5 DEF PlanOK
  <1> QED BY <1>1, <1>2, <1>3 DEF IInv

LEMMA PlanFacts ==
    ASSUME IInv, NEW p \in Plans
    PROVE  /\ plans[p] \in PlanType /\ MemoryOK(plans[p]) /\ CheckedOK(plans[p]) /\ EnvsOK(plans[p])
           /\ plans[p].pc \in {"ready", "eval"} => p \in owners
  BY DEF IInv, TypeOK, PlansInv, PlanOK

\* A plan that made nothing but what the destructor drops leaves nothing.
LEMMA Dropped ==
    ASSUME NEW held \in SUBSET {"store", "clone", "linker"}, NEW pc \in {"failed", "gone"}
    PROVE  LET m == [Fresh EXCEPT !.pc = pc, !.held = Destroyed(held)] IN
           m \in PlanType /\ m.pc = pc /\ MemoryOK(m) /\ CheckedOK(m) /\ EnvsOK(m)
  <1> DEFINE m == [Fresh EXCEPT !.pc = pc, !.held = Destroyed(held)]
  <1>1. Destroyed(held) = {}
    BY DEF Destroyed
  <1>2. <<>> \in [{} -> Nat] /\ <<>> \in Seq(Memories)
    OBVIOUS
  <1>3. <<>> \in UNION {[S -> Nat] : S \in SUBSET Ids}
    BY <1>2
  <1>4. Fresh \in PlanType
    BY <1>2, <1>3 DEF Fresh, PlanType, PC, Memories
  <1>5. m \in PlanType
    BY <1>1, <1>4 DEF PlanType, PC
  <1>6. m.pc = pc /\ m.held = {} /\ m.snap = 0 /\ m.size = 1
    BY <1>1 DEF Fresh
  <1> HIDE DEF m
  <1>7. MemoryOK(m) /\ CheckedOK(m) /\ EnvsOK(m)
    BY <1>6 DEF MemoryOK, CheckedOK, EnvsOK
  <1> QED BY <1>5, <1>6, <1>7 DEF m

LEMMA FailIInv ==
    ASSUME IInv, NEW p \in Plans, NEW made, made.held \in SUBSET {"store", "clone", "linker"},
           NEW stage, NEW row, Fail(p, made, stage, row)
    PROVE  IInv'
  <1>1. PICK m : m = [Fresh EXCEPT !.pc = "failed", !.held = Destroyed(made.held)]
    OBVIOUS
  <1>2. m \in PlanType /\ m.pc = "failed" /\ MemoryOK(m) /\ CheckedOK(m) /\ EnvsOK(m)
    BY <1>1, Dropped
  <1> QED BY <1>1, <1>2, PlanStep DEF Fail

LEMMA DecodeIInv ==
    ASSUME IInv, NEW p \in Plans, DecodeAndCheck(p)
    PROVE  IInv'
  <1> USE DEF DecodeAndCheck
  <1>1. plans[p] \in PlanType /\ MemoryOK(plans[p]) /\ plans[p].pc = "idle" /\ plans[p].held = {}
    BY PlanFacts DEF MemoryOK
  <1>2. CASE \E stage, row : Fail(p, plans[p], stage, row)
    BY <1>1, <1>2, FailIInv
  <1>3. CASE Passed /\ Advance(p, [plans[p] EXCEPT !.pc = "checked"])
    <2>1. PICK m : m = [plans[p] EXCEPT !.pc = "checked"]
      OBVIOUS
    <2>2. /\ m \in PlanType /\ m.pc = "checked" /\ m.held = plans[p].held /\ m.cached = plans[p].cached
          /\ m.expr = plans[p].expr /\ m.seeded = plans[p].seeded /\ m.size = plans[p].size /\ m.snap = plans[p].snap
      BY <1>1, <2>1 DEF PlanType, PC, Busy
    <2>3. MemoryOK(m) /\ EnvsOK(m)
      BY <1>1, <2>2 DEF MemoryOK, EnvsOK
    <2>4. CheckedOK(m)
      BY <1>3 DEF CheckedOK
    <2> QED BY <1>3, <2>1, <2>2, <2>3, <2>4, PlanStep DEF Advance
  <1> QED BY <1>2, <1>3 DEF Passed

LEMMA InitStateIInv ==
    ASSUME IInv, NEW p \in Plans, InitPlanState(p) \/ Mislabelled(p)
    PROVE  IInv'
  <1> USE DEF InitPlanState, Mislabelled
  <1>1. /\ plans[p] \in PlanType /\ MemoryOK(plans[p]) /\ CheckedOK(plans[p])
        /\ plans[p].pc \in {"checked", "inited"} /\ plans[p].held = {}
    BY PlanFacts DEF MemoryOK
  <1>2. CASE \E stage, row : Fail(p, plans[p], stage, row)
    BY <1>1, <1>2, FailIInv
  <1>3. CASE Advance(p, [plans[p] EXCEPT !.pc = "inited"])
    <2>1. PICK m : m = [plans[p] EXCEPT !.pc = "inited"]
      OBVIOUS
    <2>2. /\ m \in PlanType /\ m.pc = "inited" /\ m.held = plans[p].held /\ m.cached = plans[p].cached
          /\ m.expr = plans[p].expr /\ m.seeded = plans[p].seeded /\ m.size = plans[p].size /\ m.snap = plans[p].snap
      BY <1>1, <2>1 DEF PlanType, PC, Busy
    <2>3. MemoryOK(m) /\ EnvsOK(m) /\ CheckedOK(m)
      BY <1>1, <2>2 DEF MemoryOK, EnvsOK, CheckedOK
    <2> QED BY <1>3, <2>1, <2>2, <2>3, PlanStep DEF Advance
  <1> QED BY <1>2, <1>3

\* Binding the helpers of an instance leaves one clone and no extern.
LEMMA BindHelpers ==
    ASSUME NEW me \in PlanType, NEW memory \in Memories, me.seeded = <<>>, "extern" \notin me.held
    PROVE  LET m == BindHelpersInstance(me, memory) IN
           /\ m \in PlanType /\ m.pc = me.pc /\ m.held = me.held \cup {"clone"} /\ m.cached = memory
           /\ m.expr = me.expr /\ m.seeded = <<memory>> /\ m.envs = me.envs /\ m.size = me.size /\ m.snap = me.size
  <1> DEFINE m == BindHelpersInstance(me, memory)
  <1>1. CacheRuntimeMemory(me.held) = me.held \cup {"clone"}
    BY DEF CacheRuntimeMemory, GetRuntimeMemoryExport
  <1>2. Append(me.seeded, memory) = <<memory>> /\ <<memory>> \in Seq(Memories)
    OBVIOUS
  <1>3. m = [me EXCEPT !.held = me.held \cup {"clone"}, !.cached = memory, !.snap = me.size, !.seeded = <<memory>>]
    BY <1>1, <1>2 DEF BindHelpersInstance, PlanType
  <1> QED BY <1>2, <1>3 DEF PlanType

LEMMA RuntimeIInv ==
    ASSUME IInv, NEW p \in Plans, InstantiateRuntime(p)
    PROVE  IInv'
  <1>1. PICK me \in PlanType : me = plans[p]
    BY PlanFacts
  <1>2. /\ me.pc = "inited" /\ ~Static /\ me.held = {} /\ me.expr = "none" /\ me.seeded = <<>> /\ me.size \in Nat
        /\ CheckedOK(me)
    BY <1>1, PlanFacts DEF InstantiateRuntime, MemoryOK, PlanType
  <1>3. PICK started : started = [me EXCEPT !.held = me.held \cup {"store"}]
    OBVIOUS
  <1>4. /\ started \in PlanType /\ started.pc = "inited" /\ started.held = {"store"} /\ started.expr = "none"
        /\ started.seeded = <<>> /\ started.size = me.size
    BY <1>2, <1>3 DEF PlanType
  <1>5. PICK bound : bound = BindHelpersInstance(started, "runtime")
    OBVIOUS
  <1>6. /\ bound \in PlanType /\ bound.held = {"store", "clone"} /\ bound.cached = "runtime" /\ bound.expr = "none"
        /\ bound.seeded = <<"runtime">> /\ bound.size = me.size /\ bound.snap = me.size
    BY <1>4, <1>5, BindHelpers DEF Memories
  <1>7. PICK linked : linked = [bound EXCEPT !.pc = "runtime", !.held = {"store", "clone", "linker"}]
    OBVIOUS
  <1>8. /\ linked \in PlanType /\ linked.pc = "runtime" /\ linked.held = {"store", "clone", "linker"}
        /\ linked.cached = "runtime" /\ linked.expr = "none" /\ linked.seeded = <<"runtime">>
        /\ linked.size = me.size /\ linked.snap = me.size
    BY <1>6, <1>7 DEF PlanType, PC, Busy
  <1>9. DefineCelLinkerBindings(bound.held) = {"store", "clone", "linker"}
    BY <1>6 DEF DefineCelLinkerBindings, GetRuntimeMemoryExport
  <1>10. linked = [bound EXCEPT !.pc = "runtime", !.held = DefineCelLinkerBindings(@)]
    BY <1>7, <1>9, <1>6 DEF PlanType
  <1>11. \/ Advance(p, linked)
         \/ \E made \in {me, started, bound, linked} : Fail(p, made, "wasmtime", {})
    <2>1. started = [plans[p] EXCEPT !.held = @ \cup {"store"}]
      BY <1>1, <1>3 DEF PlanType
    <2> QED BY <1>1, <2>1, <1>5, <1>10 DEF InstantiateRuntime
  <1>12. CASE Advance(p, linked)
    <2>1. MemoryOK(linked) /\ CheckedOK(linked) /\ EnvsOK(linked)
      BY <1>2, <1>8 DEF MemoryOK, CheckedOK, EnvsOK
    <2> QED BY <1>8, <1>12, <2>1, PlanStep DEF Advance
  <1>13. CASE \E made \in {me, started, bound, linked} : Fail(p, made, "wasmtime", {})
    <2>1. PICK made \in {me, started, bound, linked} : Fail(p, made, "wasmtime", {})
      BY <1>13
    <2>2. made.held \in SUBSET {"store", "clone", "linker"}
      BY <1>2, <1>4, <1>6, <1>8, <2>1
    <2> QED BY <2>1, <2>2, FailIInv
  <1> QED BY <1>11, <1>12, <1>13

LEMMA RegisterCallbacksIInv ==
    ASSUME IInv, NEW p \in Plans, RegisterHostCallbacks(p)
    PROVE  IInv'
  <1>1. PICK me \in PlanType : me = plans[p]
    BY PlanFacts
  <1>2. MemoryOK(me) /\ CheckedOK(me) /\ me.pc \in {"inited", "runtime"} /\ (me.pc = "inited" <=> Static)
    BY <1>1, PlanFacts DEF RegisterHostCallbacks, MemoryOK
  <1>3. me.held \in SUBSET {"store", "clone", "linker"}
    BY <1>2 DEF MemoryOK
  <1>4. CASE Fail(p, plans[p], "wasmtime", {})
    BY <1>1, <1>3, <1>4, FailIInv
  <1>5. CASE Advance(p, [plans[p] EXCEPT !.pc = "registered", !.envs = [id \in DOMAIN registry |-> registry[id].node]])
    <2>1. PICK envs : envs = [id \in DOMAIN registry |-> registry[id].node]
      OBVIOUS
    <2>2. PICK ids : ids = DOMAIN registry
      OBVIOUS
    <2>3. ids \in SUBSET Ids /\ envs \in [ids -> Nat]
      <3>1. \A id \in DOMAIN registry : registry[id].node \in Nat
        <4>1. Cardinality(DOMAIN registry) \in Nat
          BY FS_CardinalityType DEF IInv, TypeOK
        <4> QED BY <4>1 DEF IInv, RegistryInv
      <3> QED BY <2>1, <2>2, <3>1 DEF IInv, TypeOK
    <2>4. envs \in UNION {[S -> Nat] : S \in SUBSET Ids}
      BY <2>3
    <2>5. PICK m : m = [me EXCEPT !.pc = "registered", !.envs = envs]
      OBVIOUS
    <2>6. /\ m \in PlanType /\ m.pc = "registered" /\ m.held = me.held /\ m.cached = me.cached /\ m.envs = envs
          /\ m.expr = me.expr /\ m.seeded = me.seeded /\ m.size = me.size /\ m.snap = me.snap
      BY <2>4, <2>5 DEF PlanType, PC, Busy
    <2>7. MemoryOK(m)
      BY <1>2, <2>6 DEF MemoryOK
    <2>8. CheckedOK(m)
      BY <1>2, <2>6 DEF CheckedOK
    <2>9. EnvsOK(m)
      BY <2>1, <2>6 DEF EnvsOK
    <2>10. Advance(p, m)
      BY <1>1, <1>5, <2>1, <2>5
    <2> QED BY <2>6, <2>7, <2>8, <2>9, <2>10, PlanStep DEF Advance
  <1> QED BY <1>4, <1>5 DEF RegisterHostCallbacks

LEMMA InstantiateExprIInv ==
    ASSUME IInv, NEW p \in Plans, InstantiateExpr(p)
    PROVE  IInv'
  <1>1. PICK me \in PlanType : me = plans[p]
    BY PlanFacts
  <1>2. MemoryOK(me) /\ CheckedOK(me) /\ EnvsOK(me) /\ me.pc = "registered"
    BY <1>1, PlanFacts DEF InstantiateExpr
  <1>3. PICK made : made = [me EXCEPT !.pc = IF Static THEN "linked" ELSE "ready", !.held = me.held \cup {"store"},
                                      !.expr = IF Static THEN "own" ELSE "runtime"]
    OBVIOUS
  <1>4. /\ made \in PlanType /\ made.pc = (IF Static THEN "linked" ELSE "ready") /\ made.cached = me.cached
        /\ made.held = (IF Static THEN {"store"} ELSE {"store", "clone", "linker"})
        /\ made.expr = (IF Static THEN "own" ELSE "runtime") /\ made.seeded = me.seeded
        /\ made.envs = me.envs /\ made.size = me.size /\ made.snap = me.snap
    <2>1. me.held \cup {"store"} = IF Static THEN {"store"} ELSE {"store", "clone", "linker"}
      BY <1>2 DEF MemoryOK
    <2> QED BY <1>3, <2>1 DEF PlanType, PC, Busy, Memories
  <1>5. made = [me EXCEPT !.pc = IF Static THEN "linked" ELSE "ready", !.held = @ \cup {"store"},
                          !.expr = IF \E im \in program.imports : im.module = "cel" THEN "runtime" ELSE "own"]
    BY <1>3 DEF PlanType, Static, ModuleImportsCelNamespace
  <1>6. \/ Fail(p, me, "link", {}) \/ Fail(p, made, "eval", {}) \/ Fail(p, made, "wasmtime", {})
        \/ /\ \A im \in program.imports : Resolves(me, im)
           /\ plans' = [plans EXCEPT ![p] = made]
           /\ owners' = IF Static THEN owners ELSE owners \cup {p}
           /\ UNCHANGED <<program, registry>>
    BY <1>1, <1>5 DEF InstantiateExpr
  <1>7. CASE Fail(p, me, "link", {}) \/ Fail(p, made, "eval", {}) \/ Fail(p, made, "wasmtime", {})
    <2>1. me.held \in SUBSET {"store", "clone", "linker"} /\ made.held \in SUBSET {"store", "clone", "linker"}
      BY <1>2, <1>4 DEF MemoryOK
    <2> QED BY <1>7, <2>1, FailIInv
  <1>8. CASE /\ \A im \in program.imports : Resolves(me, im)
             /\ plans' = [plans EXCEPT ![p] = made]
             /\ owners' = IF Static THEN owners ELSE owners \cup {p}
             /\ UNCHANGED <<program, registry>>
    <2>1. MemoryOK(made)
      BY <1>2, <1>4 DEF MemoryOK
    <2>2. CheckedOK(made)
      BY <1>2, <1>4 DEF CheckedOK
    <2>3. \A im \in program.imports : im.module = "cel_fn" => im.name \in DOMAIN me.envs
      BY <1>8 DEF Resolves
    <2>4. EnvsOK(made)
      BY <1>2, <1>4, <2>3 DEF EnvsOK
    <2>5. made.pc \in {"ready", "eval"} => p \in owners'
      BY <1>4, <1>8
    <2> QED BY <1>4, <1>8, <2>1, <2>2, <2>4, <2>5, PlanStep
  <1> QED BY <1>6, <1>7, <1>8

LEMMA StaticHelpersIInv ==
    ASSUME IInv, NEW p \in Plans, BindStaticModeHelpers(p)
    PROVE  IInv'
  <1>1. PICK me \in PlanType : me = plans[p]
    BY PlanFacts
  <1>2. MemoryOK(me) /\ CheckedOK(me) /\ EnvsOK(me) /\ me.pc = "linked"
    BY <1>1, PlanFacts DEF BindStaticModeHelpers
  <1>3. Static /\ me.held = {"store"} /\ me.seeded = <<>> /\ me.expr = "own" /\ me.size \in Nat
    BY <1>2 DEF MemoryOK, PlanType
  <1>4. PICK b : b = BindHelpersInstance(me, "own")
    OBVIOUS
  <1>5. /\ b \in PlanType /\ b.held = {"store", "clone"} /\ b.cached = "own" /\ b.expr = "own"
        /\ b.seeded = <<"own">> /\ b.envs = me.envs /\ b.size = me.size /\ b.snap = me.size
    BY <1>3, <1>4, BindHelpers DEF Memories
  <1>6. PICK m : m = [b EXCEPT !.pc = "ready"]
    OBVIOUS
  <1>7. /\ m \in PlanType /\ m.pc = "ready" /\ m.held = {"store", "clone"} /\ m.cached = "own" /\ m.expr = "own"
        /\ m.seeded = <<"own">> /\ m.envs = me.envs /\ m.size = me.size /\ m.snap = me.size
    BY <1>5, <1>6 DEF PlanType, PC
  <1>8. \/ /\ plans' = [plans EXCEPT ![p] = m] /\ owners' = owners \cup {p} /\ UNCHANGED <<program, registry>>
        \/ \E made \in {me, m} : Fail(p, made, "wasmtime", {})
    BY <1>1, <1>4, <1>6 DEF BindStaticModeHelpers
  <1>9. CASE /\ plans' = [plans EXCEPT ![p] = m] /\ owners' = owners \cup {p} /\ UNCHANGED <<program, registry>>
    <2>1. MemoryOK(m)
      BY <1>3, <1>7 DEF MemoryOK
    <2>2. CheckedOK(m) /\ EnvsOK(m)
      BY <1>2, <1>7 DEF CheckedOK, EnvsOK
    <2> QED BY <1>7, <1>9, <2>1, <2>2, PlanStep
  <1>10. CASE \E made \in {me, m} : Fail(p, made, "wasmtime", {})
    <2>1. me.held \in SUBSET {"store", "clone", "linker"} /\ m.held \in SUBSET {"store", "clone", "linker"}
      BY <1>3, <1>7
    <2> QED BY <1>10, <2>1, FailIInv
  <1> QED BY <1>8, <1>9, <1>10

-----------------------------------------------------------------------------
(* Steps of an instance *)

\* An instance evaluates, grows or looks at its memory's size.
LEMMA ShowIInv ==
    ASSUME IInv, NEW p \in Plans, NEW pc \in {"ready", "eval"}, NEW size \in Nat, NEW snap \in Nat, snap <= size,
           plans[p].pc \in {"ready", "eval"},
           plans' = [plans EXCEPT ![p] = [plans[p] EXCEPT !.pc = pc, !.size = size, !.snap = snap]],
           UNCHANGED <<program, registry, owners>>
    PROVE  IInv'
  <1>1. PICK me \in PlanType : me = plans[p]
    BY PlanFacts
  <1>2. MemoryOK(me) /\ CheckedOK(me) /\ EnvsOK(me) /\ me.pc \in {"ready", "eval"} /\ p \in owners
    BY <1>1, PlanFacts
  <1>3. PICK m : m = [me EXCEPT !.pc = pc, !.size = size, !.snap = snap]
    OBVIOUS
  <1>4. /\ m \in PlanType /\ m.pc = pc /\ m.held = me.held /\ m.cached = me.cached /\ m.expr = me.expr
        /\ m.seeded = me.seeded /\ m.envs = me.envs /\ m.size = size /\ m.snap = snap
    BY <1>3 DEF PlanType, PC
  <1>5. MemoryOK(m)
    BY <1>2, <1>4 DEF MemoryOK
  <1>6. CheckedOK(m) /\ EnvsOK(m)
    BY <1>2, <1>4 DEF CheckedOK, EnvsOK
  <1> QED BY <1>1, <1>2, <1>3, <1>4, <1>5, <1>6, PlanStep

LEMMA InstanceIInv ==
    ASSUME IInv, NEW p \in Plans,
           \/ BeginEval(p) \/ Grow(p) \/ EndEval(p) \/ \E page \in 1..(MaxPages + 1) : HostAccess(p, page)
           \/ \E d, args, oom : CallCustom(p, d, args, oom)
           \/ \E d, args : CallShadowing(p, d, args)
    PROVE  IInv'
  <1>1. PICK me \in PlanType : me = plans[p]
    BY PlanFacts
  <1>2. me.pc \in {"ready", "eval"} /\ plans[p].pc \in {"ready", "eval"}
    BY <1>1 DEF BeginEval, Grow, EndEval, HostAccess, CallCustom, CallShadowing
  <1>3. me.size \in Nat /\ me.snap \in Nat /\ me.snap <= me.size
    BY <1>1, PlanFacts DEF PlanType, MemoryOK
  <1>4. \A pc, size, snap :
           [me EXCEPT !.pc = pc] = [me EXCEPT !.pc = pc, !.size = me.size, !.snap = me.snap] /\
           [me EXCEPT !.pc = pc, !.snap = snap] = [me EXCEPT !.pc = pc, !.size = me.size, !.snap = snap] /\
           [me EXCEPT !.size = size] = [me EXCEPT !.pc = me.pc, !.size = size, !.snap = me.snap] /\
           [me EXCEPT !.snap = snap] = [me EXCEPT !.pc = me.pc, !.size = me.size, !.snap = snap]
    BY DEF PlanType
  <1>5. PICK pc \in {"ready", "eval"}, size \in Nat, snap \in Nat :
          /\ snap <= size
          /\ plans' = [plans EXCEPT ![p] = [me EXCEPT !.pc = pc, !.size = size, !.snap = snap]]
          /\ UNCHANGED <<program, registry, owners>>
    <2>1. CASE BeginEval(p)
      <3>1. plans' = [plans EXCEPT ![p] = [me EXCEPT !.pc = "eval", !.snap = me.size]] /\ UNCHANGED <<program, registry, owners>>
        BY <1>1, <2>1 DEF BeginEval, Show
      <3>2. me.size <= me.size
        BY <1>3
      <3> QED BY <1>3, <1>4, <3>1, <3>2
    <2>2. CASE Grow(p)
      <3>1. me.size + 1 \in Nat /\ me.snap <= me.size + 1
        BY <1>3
      <3>2. plans' = [plans EXCEPT ![p] = [me EXCEPT !.size = me.size + 1]] /\ UNCHANGED <<program, registry, owners>>
        BY <1>1, <2>2 DEF Grow, Show, PlanType
      <3> QED BY <1>2, <1>3, <1>4, <3>1, <3>2
    <2>3. CASE EndEval(p)
      <3>1. plans' = [plans EXCEPT ![p] = [me EXCEPT !.pc = "ready"]] /\ UNCHANGED <<program, registry, owners>>
        BY <1>1, <2>3 DEF EndEval, Show
      <3> QED BY <1>3, <1>4, <3>1
    <2>4. CASE \E page \in 1..(MaxPages + 1) : HostAccess(p, page)
      <3>1. PICK page \in 1..(MaxPages + 1) : HostAccess(p, page)
        BY <2>4
      <3>2. PICK snap : snap = IsInBounds(me, page).snap
        OBVIOUS
      <3>3. snap \in Nat /\ snap <= me.size
        BY <1>3, <3>2 DEF IsInBounds
      <3>4. plans' = [plans EXCEPT ![p] = [me EXCEPT !.snap = snap]] /\ UNCHANGED <<program, registry, owners>>
        BY <1>1, <3>1, <3>2 DEF HostAccess, Show
      <3> QED BY <1>2, <1>3, <1>4, <3>3, <3>4
    <2>5. CASE \E d, args, oom : CallCustom(p, d, args, oom)
      <3>1. PICK pc \in {"ready", "eval"} : plans' = [plans EXCEPT ![p] = [me EXCEPT !.pc = pc]]
        BY <1>1, <2>5 DEF CallCustom, Show
      <3>2. UNCHANGED <<program, registry, owners>>
        BY <2>5 DEF CallCustom, Show
      <3> QED BY <1>3, <1>4, <3>1, <3>2
    <2>6. CASE \E d, args : CallShadowing(p, d, args)
      <3>1. PICK pc \in {"ready", "eval"} : plans' = [plans EXCEPT ![p] = [me EXCEPT !.pc = pc]]
        BY <1>1, <2>6 DEF CallShadowing, Show
      <3>2. UNCHANGED <<program, registry, owners>>
        BY <2>6 DEF CallShadowing, Show
      <3> QED BY <1>3, <1>4, <3>1, <3>2
    <2> QED BY <2>1, <2>2, <2>3, <2>4, <2>5, <2>6
  <1> QED BY <1>1, <1>2, <1>5, ShowIInv

LEMMA DestroyIInv ==
    ASSUME IInv, NEW p \in Plans, DestroyInstance(p)
    PROVE  IInv'
  <1> USE DEF DestroyInstance
  <1>1. plans[p].held \in SUBSET {"store", "clone", "linker"}
    BY PlanFacts DEF MemoryOK
  <1>2. PICK m : m = [Fresh EXCEPT !.pc = "gone", !.held = Destroyed(plans[p].held)]
    OBVIOUS
  <1>3. m \in PlanType /\ m.pc = "gone" /\ MemoryOK(m) /\ CheckedOK(m) /\ EnvsOK(m)
    BY <1>1, <1>2, Dropped
  <1> QED BY <1>2, <1>3, PlanStep

\* The engine object goes, and its state stays with the instances.
LEMMA DestroyEngineIInv ==
    ASSUME IInv, DestroyEngine
    PROVE  IInv'
  <1> USE DEF DestroyEngine
  <1>1. TypeOK' /\ RegistryInv' /\ ProgramInv'
    BY DEF IInv, TypeOK, RegistryInv, ProgramInv, Sound, NoProgram, ModuleImportsCelNamespace, ValidateAbiSlotExtents
  <1>2. PlansInv'
    <2> SUFFICES ASSUME NEW q \in Plans PROVE PlanOK(q, plans[q])'
      BY DEF PlansInv
    <2>1. PICK n : n = plans[q] /\ n = plans'[q]
      OBVIOUS
    <2>2. MemoryOK(n)' /\ CheckedOK(n)' /\ EnvsOK(n)'
      BY <2>1, PlanFacts, PlanFrame
    <2>3. n.pc \in {"ready", "eval"} => q \in owners'
      BY <2>1, PlanFacts, PlanningBounds
    <2> QED BY <2>1, <2>2, <2>3 DEF PlanOK
  <1> QED BY <1>1, <1>2 DEF IInv

-----------------------------------------------------------------------------
(* Registration *)

\* What is registered stays what it is and where it is.
Extends == /\ DOMAIN registry \subseteq DOMAIN registry'
           /\ \A x \in DOMAIN registry : registry'[x] = registry[x]

LEMMA RegisterKeeps ==
    ASSUME IInv, NEW r \in Registrations, RegisterFunction(r)
    PROVE  /\ Extends /\ DOMAIN registry' \in SUBSET Ids /\ IsFiniteSet(DOMAIN registry')
           /\ RegistryInv'
  <1> DEFINE arity == IF r.via = "raw" THEN r.arity ELSE TypedArity(r.fn)
             sig == IF r.via = "bind" THEN <<RequiredFunctionFromDecl(r.decl)>> ELSE <<>>
             n == Cardinality(DOMAIN registry)
  <1>1. PICK id \in Ids : id = IdOf(r)
    BY DEF Ids
  <1>2. PICK e : e = [arity |-> arity, sig |-> sig, fn |-> r.fn, node |-> n + 1]
    OBVIOUS
  <1>3. /\ id \notin DOMAIN registry /\ arity >= 1
        /\ r.via = "bind" => BindParsedFunction(r.decl, r.fn)
        /\ registry' = [x \in DOMAIN registry \cup {id} |-> IF x = id THEN e ELSE registry[x]]
    BY <1>1, <1>2 DEF RegisterFunction, AddFunction, Register, IdOf
  <1>4. DOMAIN registry' = DOMAIN registry \cup {id} /\ registry'[id] = e /\ Extends
    BY <1>3 DEF Extends
  <1>5. n \in Nat /\ IsFiniteSet(DOMAIN registry') /\ Cardinality(DOMAIN registry') = n + 1
    BY <1>3, <1>4, FS_CardinalityType, FS_AddElement DEF IInv, TypeOK
  <1>6. arity \in 1 .. ByteValues - 1
    <2>1. r.arity \in 0 .. ByteValues - 1 /\ ByteValues \in Nat \ {0}
      BY RegistrationsAssumption, DeclarationBounds
    <2>2. Len(r.fn.kinds) \in Nat
      BY RegistrationsAssumption
    <2>3. TypedArity(r.fn) \in 0 .. ByteValues - 1
      <3>1. PICK a \in Nat : a = Len(r.fn.kinds) + 1
        BY <2>2
      <3>2. a % ByteValues \in 0 .. ByteValues - 1
        BY <2>1
      <3> QED BY <3>1, <3>2 DEF TypedArity
    <2> QED BY <1>3, <2>1, <2>3
  <1>7. e.node = n + 1 /\ e.arity = arity /\ e.sig = sig /\ e.fn = r.fn
    BY <1>2
  <1> HIDE DEF n, arity
  <1>8. \A x \in DOMAIN registry' : LET f == registry'[x] IN
          /\ f.node \in 1 .. n + 1 /\ f.arity \in 1 .. ByteValues - 1
          /\ \/ f.sig = <<>>
             \/ \E q \in Registrations : /\ x = SynthesiseOverloadId(q.decl) /\ BindParsedFunction(q.decl, q.fn)
                                         /\ f.sig = <<RequiredFunctionFromDecl(q.decl)>> /\ f.fn = q.fn
    <2> SUFFICES ASSUME NEW x \in DOMAIN registry'
                 PROVE  LET f == registry'[x] IN
                        /\ f.node \in 1 .. n + 1 /\ f.arity \in 1 .. ByteValues - 1
                        /\ \/ f.sig = <<>>
                           \/ \E q \in Registrations :
                                /\ x = SynthesiseOverloadId(q.decl) /\ BindParsedFunction(q.decl, q.fn)
                                /\ f.sig = <<RequiredFunctionFromDecl(q.decl)>> /\ f.fn = q.fn
      OBVIOUS
    <2>1. CASE x = id
      <3>1. e.sig = <<>> \/ \E q \in Registrations :
                                /\ x = SynthesiseOverloadId(q.decl) /\ BindParsedFunction(q.decl, q.fn)
                                /\ e.sig = <<RequiredFunctionFromDecl(q.decl)>> /\ e.fn = q.fn
        BY <1>1, <1>3, <1>7, <2>1 DEF IdOf
      <3> QED BY <1>4, <1>5, <1>6, <1>7, <2>1, <3>1
    <2>2. CASE x # id
      <3>1. x \in DOMAIN registry /\ registry'[x] = registry[x]
        BY <1>3, <1>4, <2>2
      <3>2. registry[x].node \in 1 .. n
        BY <3>1 DEF IInv, RegistryInv, n
      <3> QED BY <1>5, <3>1, <3>2 DEF IInv, RegistryInv
    <2> QED BY <2>1, <2>2
  <1>9. \A x, y \in DOMAIN registry' : registry'[x].node = registry'[y].node => x = y
    <2>1. \A x \in DOMAIN registry : registry'[x] = registry[x] /\ registry[x].node \in 1 .. n
      BY <1>3 DEF IInv, RegistryInv, n
    <2>2. \A x \in DOMAIN registry : registry'[x].node # n + 1
      BY <1>5, <2>1
    <2> QED BY <1>4, <1>7, <2>1, <2>2 DEF IInv, RegistryInv
  <1>10. RegistryInv'
    <2>1. \A x \in DOMAIN registry' : registry'[x].node \in 1 .. Cardinality(DOMAIN registry')
      BY <1>5, <1>8
    <2> QED BY <1>8, <1>9, <2>1 DEF RegistryInv, BindParsedFunction, RequiredFunctionFromDecl
  <1> QED BY <1>1, <1>4, <1>5, <1>10 DEF IInv, TypeOK

\* No row of a program that was accepted is refused later.
LEMMA PassedStays ==
    ASSUME Extends, program' = program, Passed
    PROVE  Passed'
  <1> SUFFICES ASSUME program.section PROVE RefusedRows(program)' = {}
    BY DEF Passed, CheckRuntimeAbiVersion, ValidateAbiSlotExtents
  <1>1. ASSUME NEW row \in program.rows PROVE RowVerdict(row)' = "ok"
    <2>1. RowVerdict(row) = "ok"
      BY DEF Passed, RefusedRows
    <2>2. CASE row.backend = "host"
      <3>1. CheckHostRow(row) = "ok"
        BY <2>1, <2>2 DEF RowVerdict
      <3>2. row.id \in DOMAIN registry
        BY <3>1 DEF CheckHostRow
      <3>3. row.id \in DOMAIN registry' /\ registry'[row.id] = registry[row.id]
        BY <3>2 DEF Extends
      <3>4. CheckHostRow(row)' = "ok"
        BY <3>1, <3>2, <3>3 DEF CheckHostRow, SignaturesAgree
      <3> QED BY <2>2, <3>4 DEF RowVerdict
    <2>3. CASE row.backend # "host"
      BY <2>1, <2>3 DEF RowVerdict
    <2> QED BY <2>2, <2>3
  <1> QED BY <1>1 DEF RefusedRows

LEMMA RegisterIInv ==
    ASSUME IInv, NEW r \in Registrations, RegisterFunction(r)
    PROVE  IInv'
  <1>1. Extends /\ DOMAIN registry' \in SUBSET Ids /\ IsFiniteSet(DOMAIN registry') /\ RegistryInv'
    BY RegisterKeeps
  <1>2. UNCHANGED <<program, owners, plans>> /\ SettingUp
    BY DEF RegisterFunction
  <1>3. TypeOK' /\ ProgramInv'
    BY <1>1, <1>2 DEF IInv, TypeOK, ProgramInv, Sound, NoProgram, ModuleImportsCelNamespace, ValidateAbiSlotExtents
  <1>4. PlansInv'
    <2> SUFFICES ASSUME NEW q \in Plans PROVE PlanOK(q, plans[q])'
      BY DEF PlansInv
    <2>1. PICK m : m = plans[q] /\ m = plans'[q]
      BY <1>2
    <2>2. MemoryOK(m) /\ CheckedOK(m) /\ EnvsOK(m) /\ (m.pc \in {"ready", "eval"} => q \in owners)
      BY <2>1, PlanFacts
    <2>3. m.pc \notin {"registered", "linked"}
      BY <1>2, <2>1 DEF SettingUp, Busy
    <2>4. MemoryOK(m)'
      BY <1>2, <2>2 DEF MemoryOK, Static, ModuleImportsCelNamespace
    <2>5. CheckedOK(m)'
      BY <1>1, <1>2, <2>2, PassedStays DEF CheckedOK, NoProgram
    <2>6. EnvsOK(m)'
      BY <1>1, <1>2, <2>2, <2>3 DEF EnvsOK, Extends
    <2> QED BY <1>2, <2>1, <2>2, <2>4, <2>5, <2>6 DEF PlanOK
  <1> QED BY <1>1, <1>3, <1>4 DEF IInv

-----------------------------------------------------------------------------
(* What the compiler makes *)

\* Rounding up stays below any multiple that is above.
LEMMA RoundBelow ==
    ASSUME NEW a \in Nat \ {0}, NEW r \in Nat, NEW k \in Int, r <= k * a
    PROVE  ((r + a - 1) \div a) * a \in Nat /\ ((r + a - 1) \div a) * a <= k * a
  <1> DEFINE q == (r + a - 1) \div a
  <1>1. r + a - 1 \in Nat /\ q \in Nat /\ r + a - 1 = q * a + ((r + a - 1) % a) /\ (r + a - 1) % a \in Nat
    OBVIOUS
  <1> HIDE DEF q
  <1>2. q * a \in Nat /\ k * a \in Int
    BY <1>1
  <1>3. q * a < k * a + a
    BY <1>1, <1>2
  <1>4. q <= k
    <2> SUFFICES ASSUME k + 1 <= q PROVE FALSE
      BY <1>1
    <2>1. (q - k - 1) \in Nat
      BY <1>1
    <2>2. (q - k - 1) * a >= 0
      BY <2>1
    <2>3. (q - k - 1) * a = q * a - k * a - a
      BY <1>1
    <2> QED BY <1>2, <1>3, <2>2, <2>3
  <1>5. (k - q) * a >= 0 /\ (k - q) * a = k * a - q * a
    <2>1. (k - q) \in Nat
      BY <1>1, <1>4
    <2> QED BY <1>1, <2>1
  <1>6. q * a <= k * a
    BY <1>2, <1>5
  <1> QED BY <1>2, <1>6 DEF q

LEMMA MultipleOf ==
    ASSUME NEW a \in Nat \ {0}, NEW n \in Nat, n % a = 0
    PROVE  \E k \in Nat : n = k * a
  <1>1. n \div a \in Nat /\ n = (n \div a) * a
    OBVIOUS
  <1> QED BY <1>1

\* LayoutPass's gate measures from the end of the constants; the workspace is
\* aligned up from there and still ends below the guard.
LEMMA RegionFits ==
    ASSUME NEW expr, expr.rodata \in Nat, expr.temps \in Nat, IsFiniteSet(expr.vars), CheckStaticWindowFits(expr)
    PROVE  /\ region_end(expr) + Guard <= Window
           /\ \A s \in EmitVariables(expr) : s + ValueBytes <= Window
  <1>1. /\ Window \in Nat /\ Guard \in Nat /\ Align \in Nat \ {0} /\ RodataBase \in Nat /\ SlotStride \in Nat
        /\ ValueBytes \in Nat /\ ValueBytes <= SlotStride
        /\ Window % Align = 0 /\ Guard % Align = 0 /\ SlotStride % Align = 0
    BY LayoutBounds
  <1>2. PICK v \in Nat, n \in Nat : v = Cardinality(expr.vars) /\ n = expr.temps + v
    BY FS_CardinalityType
  <1>3. PICK r \in Nat : r = rodata_end(expr)
    BY <1>1 DEF rodata_end
  <1>4. PICK bytes \in Nat : bytes = workspace_bytes(expr) /\ bytes = n * SlotStride
    BY <1>1, <1>2 DEF workspace_bytes
  <1>5. r + Guard + bytes <= Window
    BY <1>1, <1>3, <1>4 DEF CheckStaticWindowFits, MaxWorkspaceBytes
  <1>6. PICK w \in Nat, g \in Nat, t \in Nat : Window = w * Align /\ Guard = g * Align /\ SlotStride = t * Align
    <2>1. \E w \in Nat : Window = w * Align
      BY <1>1, MultipleOf
    <2>2. \E g \in Nat : Guard = g * Align
      BY <1>1, MultipleOf
    <2>3. \E t \in Nat : SlotStride = t * Align
      BY <1>1, MultipleOf
    <2> QED BY <2>1, <2>2, <2>3
  <1>7. PICK k \in Int : k = w - g - n * t
    OBVIOUS
  <1>8. k * Align = Window - Guard - bytes
    <2>1. ASSUME NEW a \in Nat PROVE (w - g - n * t) * a = w * a - g * a - n * (t * a)
      OBVIOUS
    <2> QED BY <1>1, <1>4, <1>6, <1>7, <2>1
  <1>9. PICK base \in Nat : base = workspace_base(expr) /\ base <= k * Align
    <2>1. r <= k * Align
      BY <1>1, <1>5, <1>8
    <2> QED BY <1>1, <1>3, <2>1, RoundBelow DEF workspace_base
  <1>10. region_end(expr) = base + bytes /\ base + bytes + Guard <= Window
    BY <1>1, <1>4, <1>8, <1>9 DEF region_end
  <1>11. ASSUME NEW s \in EmitVariables(expr) PROVE s + ValueBytes <= Window
    <2>1. PICK j \in 1 .. v : s = base + (j - 1) * SlotStride
      BY <1>2, <1>9 DEF EmitVariables
    <2>2. j \in Nat /\ n - j \in Nat
      BY <1>2, <2>1
    <2>3. (n - j) * SlotStride >= 0 /\ (n - j) * SlotStride = bytes - j * SlotStride
      BY <1>1, <1>4, <2>2
    <2>4. (j - 1) * SlotStride = j * SlotStride - SlotStride /\ j * SlotStride \in Nat
      BY <1>1, <2>2
    <2>5. s + SlotStride <= base + bytes
      BY <1>1, <2>1, <2>3, <2>4
    <2>6. s \in Int
      BY <1>1, <2>1, <2>4
    <2> QED BY <1>1, <1>10, <2>5, <2>6
  <1> QED BY <1>10, <1>11

\* The ids of a compiler's declarations tell them apart, so looking one up by
\* its id finds it.
LEMMA FindsDecl ==
    ASSUME NEW ds \in Seq(Declaration), NEW i \in DOMAIN ds,
           \A k \in DOMAIN ds : \A j \in 1..(k - 1) : SynthesiseOverloadId(ds[j]) # SynthesiseOverloadId(ds[k])
    PROVE  FindDeclByOverloadId(ds, SynthesiseOverloadId(ds[i])) = ds[i]
  <1> DEFINE P(k) == /\ SynthesiseOverloadId(ds[k]) = SynthesiseOverloadId(ds[i])
                     /\ \A j \in 1..(k - 1) : SynthesiseOverloadId(ds[j]) # SynthesiseOverloadId(ds[i])
  <1>1. DOMAIN ds = 1 .. Len(ds) /\ Len(ds) \in Nat
    OBVIOUS
  <1>2. P(i)
    OBVIOUS
  <1>3. ASSUME NEW k \in DOMAIN ds, P(k) PROVE k = i
    <2>1. i \in Nat /\ k \in Nat /\ i >= 1 /\ k >= 1
      BY <1>1
    <2>2. ~(i < k)
      BY <1>3, <2>1
    <2>3. ~(k < i)
      BY <1>3, <2>1
    <2> QED BY <2>1, <2>2, <2>3
  <1>4. (CHOOSE k \in DOMAIN ds : P(k)) = i
    BY <1>2, <1>3
  <1> QED BY <1>4 DEF FindDeclByOverloadId

\* What is imported before the optimizer runs.
Wanted(im, ds, mode) ==
    \/ im.module = "cel" /\ im.name \in CelHelpers /\ im.arity = Params[im.name]
    \/ im.module = "cel_host" /\ im.name \in HostImports /\ im.arity = Params[im.name]
    \/ /\ im.module = "cel_fn" /\ im.name \notin NamesTaken(mode)
       /\ \E i \in DOMAIN ds : im.name = SynthesiseOverloadId(ds[i]) /\ im.arity = num_args(ds[i])

Base(mode) == InstallCelHostImports \cup (IF mode = "static" THEN {} ELSE InstallExprModuleImports)
Installed(ds, mode) == Base(mode) \cup InstallOverloadImportsExport(OverloadTable(ds), mode)

LEMMA InstalledWanted ==
    ASSUME NEW ds, NEW mode \in {"static", "dynamic"}, NEW im \in Installed(ds, mode)
    PROVE  Wanted(im, ds, mode) /\ (mode = "static" => im.module # "cel")
  <1>1. CASE im \in InstallCelHostImports
    BY <1>1 DEF InstallCelHostImports, Import, Wanted
  <1>2. CASE mode = "dynamic" /\ im \in InstallExprModuleImports
    BY <1>2 DEF InstallExprModuleImports, InstallMapImports, InstallListImports, CelHelpers, Import, Wanted
  <1>3. CASE im \in InstallOverloadImportsExport(OverloadTable(ds), mode)
    <2>1. PICK row, module, taken :
              /\ row \in OverloadTable(ds)
              /\ row.module = module /\ row.helper \notin taken
              /\ \/ module = "cel" /\ taken = InternalNames(mode)
                 \/ module = "cel_fn" /\ taken = NamesTaken(mode)
              /\ im = Import(row.module, row.helper, row.arity)
      BY <1>3 DEF InstallOverloadImportsExport, InstallRows, InstallOverloadImport
    <2>2. im.module = row.module /\ im.name = row.helper /\ im.arity = row.arity
      BY <2>1 DEF Import
    <2>3. CASE row \in SeedBuiltins
      <3>1. row.module = "cel" /\ row.helper \in CelHelpers /\ row.arity = Params[row.helper]
        BY <2>3 DEF SeedBuiltins, CelHelpers
      <3>2. mode # "static"
        BY <2>1, <3>1 DEF InternalNames
      <3> QED BY <2>2, <3>1, <3>2 DEF Wanted
    <2>4. CASE row \notin SeedBuiltins
      <3>1. PICK i \in DOMAIN ds : row = [id |-> SynthesiseOverloadId(ds[i]), module |-> "cel_fn",
                                          helper |-> SynthesiseOverloadId(ds[i]), arity |-> num_args(ds[i])]
        BY <2>1, <2>4 DEF OverloadTable
      <3>2. row.module = "cel_fn" /\ row.helper = SynthesiseOverloadId(ds[i]) /\ row.arity = num_args(ds[i])
        BY <3>1
      <3>3. row.helper \notin NamesTaken(mode)
        BY <2>1, <3>2
      <3> QED BY <2>2, <3>2, <3>3 DEF Wanted
    <2> QED BY <2>3, <2>4
  <1> QED BY <1>1, <1>2, <1>3 DEF Installed, Base

\* The optimizer keeps what is called and the arena's reset.
LEMMA OptimizeKeeps ==
    ASSUME NEW level, NEW expr, NEW imports
    PROVE  /\ Optimize(level, expr, imports) \subseteq imports
           /\ \A im \in imports :
                \/ im.name = <<"arena", "reset">>
                \/ \E d \in expr.calls : im.name = SynthesiseOverloadId(d)
                => im \in Optimize(level, expr, imports)
  BY DEF Optimize

\* The cel.abi section, the imports and the static region of a program agree.
LEMMA CompiledSound ==
    ASSUME NEW c \in Programs, NEW result, result = CompilerCompile(c.calls, c.variables, c.expr, c.mode, c.level),
           result # <<>>
    PROVE  Sound(result[1])
  <1>1. PICK ds \in Seq(Declaration) : ds = AllDecls(c.calls)
    BY ProgramsAssumption
  <1>2a. PICK mode \in {"static", "dynamic"} : mode = c.mode
    BY ProgramsAssumption
  <1>2b. PICK expr : expr = c.expr
    OBVIOUS
  <1>2. expr = c.expr /\ mode = c.mode
    BY <1>2a, <1>2b
  <1>3. PICK installed : installed = Installed(ds, mode)
    OBVIOUS
  <1>4. PICK final : final = Optimize(c.level, expr, installed)
    OBVIOUS
  <1>5. /\ \A k \in DOMAIN ds : \A j \in 1..(k - 1) : SynthesiseOverloadId(ds[j]) # SynthesiseOverloadId(ds[k])
        /\ expr.calls \subseteq ToSet(ds) /\ CheckStaticWindowFits(expr)
        /\ result = Compile(expr, ds, mode, c.level)
    BY <1>1, <1>2 DEF CompilerCompile, CompilerBuilds, RunFrontAndLayout
  <1>6. /\ OverloadTableBuilds(ds) /\ Validate(expr, OverloadTable(ds), installed, mode)
        /\ result = <<[origin |-> "compiled", calls |-> expr.calls, imports |-> final,
                       section |-> TRUE, version |-> AbiVersion, bare |-> FALSE, label |-> mode,
                       rows |-> BuildRequiredFunctions(final, ds),
                       slots |-> EmitVariables(expr), end |-> region_end(expr), eval |-> TRUE]>>
    BY <1>3, <1>4, <1>5 DEF Compile, LowerExportAndFinalise, AttachCelAbiSection, Installed, Base
  <1>7. PICK x : x = result[1]
    OBVIOUS
  <1>8. /\ x.origin = "compiled" /\ x.section = TRUE /\ x.version = AbiVersion /\ x.eval = TRUE /\ x.label = mode
        /\ x.calls = expr.calls /\ x.imports = final /\ x.rows = BuildRequiredFunctions(final, ds)
        /\ x.slots = EmitVariables(expr) /\ x.end = region_end(expr)
    BY <1>6, <1>7
  <1>9. ValidateAbiSlotExtents(x) /\ x.end + Guard <= Window
    BY <1>2, <1>5, <1>8, RegionFits, ProgramsAssumption DEF ValidateAbiSlotExtents
  <1>10. \A im \in final : im \in installed /\ Wanted(im, ds, mode) /\ (mode = "static" => im.module # "cel")
    BY <1>3, <1>4, OptimizeKeeps, InstalledWanted
  <1>11. mode = "static" <=> ~ModuleImportsCelNamespace(x)
    <2>1. CASE mode = "static"
      BY <1>8, <1>10, <2>1 DEF ModuleImportsCelNamespace
    <2>2. CASE mode = "dynamic"
      <3>1. PICK im : im = Import("cel", <<"arena", "reset">>, Params[<<"arena", "reset">>])
        OBVIOUS
      <3>2. im \in installed
        BY <1>3, <2>2, <3>1 DEF Installed, Base, InstallExprModuleImports, ArenaHelpers
      <3>3. im.module = "cel" /\ im.name = <<"arena", "reset">>
        BY <3>1 DEF Import
      <3>4. im \in final
        BY <1>4, <3>2, <3>3, OptimizeKeeps
      <3> QED BY <1>8, <2>2, <3>3, <3>4 DEF ModuleImportsCelNamespace
    <2> QED BY <2>1, <2>2
  <1>12. ASSUME NEW i \in DOMAIN ds, NEW im \in final, im.module = "cel_fn", im.name = SynthesiseOverloadId(ds[i])
         PROVE  RequiredFunctionFromDecl(ds[i]) \in x.rows
    BY <1>5, <1>8, <1>12, FindsDecl DEF BuildRequiredFunctions
  <1>13. ASSUME NEW im \in final, im.module = "cel_fn"
         PROVE  \E row \in x.rows : /\ row.id = im.name /\ row.backend = "host" /\ Len(row.params) \in Nat
                                    /\ im.arity = (Len(row.params) + 1) % ByteValues
    <2>1. PICK i \in DOMAIN ds : im.name = SynthesiseOverloadId(ds[i]) /\ im.arity = num_args(ds[i])
      BY <1>10, <1>13 DEF Wanted
    <2>2. PICK row : row = RequiredFunctionFromDecl(ds[i])
      OBVIOUS
    <2>3. row \in x.rows
      BY <1>12, <1>13, <2>1, <2>2
    <2>4. row.id = im.name /\ row.backend = "host" /\ row.params = ds[i].params
      BY <2>1, <2>2 DEF RequiredFunctionFromDecl
    <2>5. ds[i].params \in Seq(Seq(STRING))
      <3>1. PICK d \in Declaration : d = ds[i]
        OBVIOUS
      <3> QED BY <3>1 DEF Declaration
    <2>6. Len(row.params) \in Nat
      BY <2>4, <2>5
    <2>7. im.arity = (Len(row.params) + 1) % ByteValues
      BY <2>1, <2>4 DEF num_args
    <2> QED BY <2>3, <2>4, <2>6, <2>7
  <1>14. ASSUME NEW row \in x.rows PROVE row.backend = "host" /\ \E im \in final : im.module = "cel_fn" /\ im.name = row.id
    <2>1. PICK im \in final : im.module = "cel_fn" /\ row = RequiredFunctionFromDecl(FindDeclByOverloadId(ds, im.name))
      BY <1>8, <1>14 DEF BuildRequiredFunctions
    <2>2. PICK i \in DOMAIN ds : im.name = SynthesiseOverloadId(ds[i])
      BY <1>10, <2>1 DEF Wanted
    <2>3. row = RequiredFunctionFromDecl(ds[i])
      BY <1>5, <2>1, <2>2, FindsDecl
    <2>4. row.id = im.name /\ row.backend = "host"
      BY <2>2, <2>3 DEF RequiredFunctionFromDecl
    <2> QED BY <2>1, <2>4
  <1>15. ASSUME NEW d \in x.calls
         PROVE  /\ d \in Declaration /\ \E q \in Programs : d \in q.expr.calls
                /\ \/ RequiredFunctionFromDecl(d) \in x.rows
                   \/ Shadows(mode, SynthesiseOverloadId(d), Len(d.params) + 1)
    <2>1. PICK i \in DOMAIN ds : d = ds[i]
      BY <1>5, <1>8 DEF ToSet
    <2>2. PICK row \in OverloadTable(ds) : /\ row.id = SynthesiseOverloadId(d)
                                          /\ \/ Import("cel_fn", row.helper, Len(d.params) + 1) \in installed
                                             \/ Shadows(mode, row.helper, Len(d.params) + 1)
      BY <1>6, <1>8 DEF Validate, Lookup
    <2>3. row \notin SeedBuiltins
      BY <1>6, <2>1, <2>2 DEF OverloadTableBuilds, SeedBuiltins
    <2>4. row.module = "cel_fn" /\ row.helper = row.id
      BY <2>2, <2>3 DEF OverloadTable
    <2>5. ASSUME Import("cel_fn", row.helper, Len(d.params) + 1) \in installed
          PROVE  RequiredFunctionFromDecl(d) \in x.rows
      <3>1. PICK im \in installed : im.module = "cel_fn" /\ im.name = SynthesiseOverloadId(d)
        BY <2>2, <2>4, <2>5 DEF Import
      <3>2. im \in final
        BY <1>4, <1>8, <3>1, OptimizeKeeps
      <3> QED BY <1>12, <2>1, <3>1, <3>2
    <2>6. row.helper = SynthesiseOverloadId(d)
      BY <2>2, <2>4
    <2>7. \E q \in Programs : d \in q.expr.calls
      BY <1>2, <1>8
    <2>8. RequiredFunctionFromDecl(d) \in x.rows \/ Shadows(mode, SynthesiseOverloadId(d), Len(d.params) + 1)
      BY <2>2, <2>5, <2>6
    <2> QED BY <2>1, <2>7, <2>8
  <1> QED BY <1>2, <1>7, <1>8, <1>9, <1>10, <1>11, <1>13, <1>14, <1>15 DEF Sound, Wanted

\* Until there is a program, no plan has begun.
LEMMA NewProgramIInv ==
    ASSUME IInv, program = NoProgram, program' = NoProgram \/ (program.origin = "foreign" /\ program.calls = {})' \/ Sound(program)',
           UNCHANGED <<registry, owners, plans>>
    PROVE  IInv'
  <1>1. TypeOK' /\ ProgramInv' /\ RegistryInv'
    BY DEF IInv, TypeOK, ProgramInv, RegistryInv, NoProgram
  <1>2. ASSUME NEW q \in Plans PROVE PlanOK(q, plans[q])'
    <2>1. PICK m : m = plans[q] /\ m = plans'[q]
      OBVIOUS
    <2>2. m.pc \in {"idle", "failed", "gone"} /\ MemoryOK(m)
      BY <2>1 DEF IInv, PlansInv, PlanOK, CheckedOK
    <2>3. MemoryOK(m)' /\ CheckedOK(m)' /\ EnvsOK(m)'
      BY <2>2 DEF MemoryOK, CheckedOK, EnvsOK
    <2> QED BY <2>1, <2>2, <2>3 DEF PlanOK, MemoryOK, CheckedOK, EnvsOK
  <1> QED BY <1>1, <1>2 DEF IInv, PlansInv

LEMMA CompileProgramIInv ==
    ASSUME IInv, NEW c \in Programs, CompileProgram(c)
    PROVE  IInv'
  <1>1. PICK result : result = CompilerCompile(c.calls, c.variables, c.expr, c.mode, c.level)
    OBVIOUS
  <1>2. /\ program = NoProgram /\ program' = (IF result = <<>> THEN program ELSE result[1])
        /\ UNCHANGED <<registry, owners, plans>>
    BY <1>1 DEF CompileProgram
  <1>3. CASE result = <<>>
    BY <1>2, <1>3, NewProgramIInv
  <1>4. CASE result # <<>>
    <2>1. PICK x : x = result[1]
      OBVIOUS
    <2>2. Sound(x) /\ program' = x
      BY <1>1, <1>2, <1>4, <2>1, CompiledSound
    <2>3. Sound(program)'
      BY <2>2 DEF Sound, ModuleImportsCelNamespace, ValidateAbiSlotExtents
    <2> QED BY <1>2, <2>3, NewProgramIInv
  <1> QED BY <1>3, <1>4

LEMMA ReceiveProgramIInv ==
    ASSUME IInv, NEW x \in Foreign, ReceiveProgram(x)
    PROVE  IInv'
  <1>1. program = NoProgram /\ program' = x /\ UNCHANGED <<registry, owners, plans>>
    BY DEF ReceiveProgram
  <1>2. (program.origin = "foreign" /\ program.calls = {})'
    BY <1>1, ProgramsAssumption
  <1> QED BY <1>1, <1>2, NewProgramIInv

LEMMA InitIInv ==
    ASSUME Init
    PROVE  IInv
  <1>1. <<>> \in [{} -> Nat] /\ <<>> \in Seq(Memories) /\ DOMAIN registry = {}
    BY DEF Init
  <1>2. <<>> \in UNION {[S -> Nat] : S \in SUBSET Ids}
    BY <1>1
  <1>3. Fresh \in PlanType
    BY <1>1, <1>2 DEF Fresh, PlanType, PC, Memories
  <1>4. TypeOK
    BY <1>1, <1>3, FS_EmptySet DEF Init, TypeOK
  <1>5. RegistryInv
    BY <1>1 DEF RegistryInv
  <1>6. ProgramInv
    BY DEF Init, ProgramInv
  <1>7. ASSUME NEW p \in Plans PROVE PlanOK(p, plans[p])
    <2>1. PICK m : m = plans[p] /\ m = Fresh
      BY DEF Init
    <2>2. m.pc = "idle" /\ m.held = {} /\ m.cached = "none" /\ m.expr = "none" /\ m.seeded = <<>> /\ m.snap = 0 /\ m.size = 1
      BY <2>1 DEF Fresh
    <2> QED BY <2>1, <2>2 DEF PlanOK, MemoryOK, CheckedOK, EnvsOK
  <1> QED BY <1>4, <1>5, <1>6, <1>7 DEF IInv, PlansInv

LEMMA NextIInv ==
    ASSUME IInv, [Next]_vars
    PROVE  IInv'
  <1>1. CASE \E c \in Programs : CompileProgram(c)
    BY <1>1, CompileProgramIInv
  <1>2. CASE \E x \in Foreign : ReceiveProgram(x)
    BY <1>2, ReceiveProgramIInv
  <1>3. CASE \E r \in Registrations : RegisterFunction(r)
    BY <1>3, RegisterIInv
  <1>4. CASE DestroyEngine
    BY <1>4, DestroyEngineIInv
  <1>5. ASSUME NEW p \in Plans, DecodeAndCheck(p) PROVE IInv'
    BY <1>5, DecodeIInv
  <1>6. ASSUME NEW p \in Plans, InitPlanState(p) \/ Mislabelled(p) PROVE IInv'
    BY <1>6, InitStateIInv
  <1>7. ASSUME NEW p \in Plans, InstantiateRuntime(p) PROVE IInv'
    BY <1>7, RuntimeIInv
  <1>8. ASSUME NEW p \in Plans, RegisterHostCallbacks(p) PROVE IInv'
    BY <1>8, RegisterCallbacksIInv
  <1>9. ASSUME NEW p \in Plans, InstantiateExpr(p) PROVE IInv'
    BY <1>9, InstantiateExprIInv
  <1>10. ASSUME NEW p \in Plans, BindStaticModeHelpers(p) PROVE IInv'
    BY <1>10, StaticHelpersIInv
  <1>11. ASSUME NEW p \in Plans,
                \/ BeginEval(p) \/ Grow(p) \/ EndEval(p) \/ \E page \in 1..(MaxPages + 1) : HostAccess(p, page)
                \/ \E d, args, oom : CallCustom(p, d, args, oom)
                \/ \E d, args : CallShadowing(p, d, args)
         PROVE  IInv'
    BY <1>11, InstanceIInv
  <1>12. ASSUME NEW p \in Plans, DestroyInstance(p) PROVE IInv'
    BY <1>12, DestroyIInv
  <1>13. CASE UNCHANGED vars
    BY <1>13, PlanFrame
    DEF vars, IInv, TypeOK, ProgramInv, Sound, NoProgram, ModuleImportsCelNamespace, ValidateAbiSlotExtents,
        RegistryInv, PlansInv, PlanOK
  <1> QED BY <1>1, <1>2, <1>3, <1>4, <1>5, <1>6, <1>7, <1>8, <1>9, <1>10, <1>11, <1>12, <1>13 DEF Next

\* The inductive invariant: what a plan holds at every stage, that one that
\* went on was checked against a registry that still agrees, and that a
\* program of this compiler keeps its promises.
THEOREM Invariance == Spec => []IInv
  <1>1. Init => IInv
    BY InitIInv
  <1>2. IInv /\ [Next]_vars => IInv'
    BY NextIInv
  <1> QED BY <1>1, <1>2, PTL DEF Spec

-----------------------------------------------------------------------------
(* What the states show *)

\* Every plan that failed and every instance that is gone has dropped every
\* reference to the memory, and no instance keeps the extern it read it from.
THEOREM MemoryAlwaysReleased == Spec => []MemoryReleased
  <1>1. IInv => MemoryReleased
    <2> SUFFICES ASSUME IInv, NEW p \in Plans
                 PROVE  /\ plans[p].pc \in {"failed", "gone"} => plans[p].held = {}
                        /\ plans[p].pc \in {"ready", "eval"} => "extern" \notin plans[p].held
      BY DEF MemoryReleased, Running
    <2> QED BY PlanFacts DEF MemoryOK
  <1> QED BY <1>1, Invariance, PTL

\* In both link modes a running instance has one memory, kept alive by its
\* clone, with one initialised arena.
THEOREM AlwaysOneMemory == Spec => []OneMemory
  <1>1. IInv => OneMemory
    <2> SUFFICES ASSUME IInv, NEW p \in Plans, plans[p].pc \in {"ready", "eval"}
                 PROVE  /\ plans[p].cached = plans[p].expr /\ plans[p].seeded = <<plans[p].expr>>
                        /\ {"store", "clone"} \subseteq plans[p].held
      BY DEF OneMemory, Running
    <2> QED BY PlanFacts DEF MemoryOK
  <1> QED BY <1>1, Invariance, PTL

\* Whatever the sizes of window, guard and workspace and whoever compiled the
\* program, a running instance writes its variables inside the window, and a
\* region of this compiler leaves the guard band free.
THEOREM WindowAlwaysRespected == Spec => []WindowRespected
  <1>1. IInv => WindowRespected
    <2> SUFFICES ASSUME IInv, NEW p \in Plans, plans[p].pc \in {"ready", "eval"}
                 PROVE  /\ program.section => \A s \in program.slots : s + ValueBytes <= Window
                        /\ program.origin = "compiled" => program.end + Guard <= Window
      BY DEF WindowRespected, Running
    <2>1. program # NoProgram /\ Passed
      BY PlanFacts DEF CheckedOK
    <2>2. program.origin = "compiled" => Sound(program)
      BY <2>1 DEF IInv, ProgramInv
    <2> QED BY <2>1, <2>2 DEF Passed, ValidateAbiSlotExtents, Sound
  <1> QED BY <1>1, Invariance, PTL

-----------------------------------------------------------------------------
(* What the steps show *)

Silent == seen'.op \in {"none", "compile_error"}
Fails == \E p \in Plans : \E made, stage, row : Fail(p, made, stage, row)
Accesses == \E p \in Plans : \E page \in 1..(MaxPages + 1) : HostAccess(p, page)
Calls ==
    \E p \in Plans : \E d \in program.calls : \E args \in Args(d), oom \in BOOLEAN :
        plans[p].pc = "eval" /\ CallCustom(p, d, args, oom)
CallsModule == \E p \in Plans : \E d \in program.calls : \E args \in Args(d) : CallShadowing(p, d, args)

PlanMoves(p) ==
    \/ DecodeAndCheck(p) \/ InitPlanState(p) \/ Mislabelled(p) \/ InstantiateRuntime(p)
    \/ RegisterHostCallbacks(p) \/ InstantiateExpr(p) \/ BindStaticModeHelpers(p)

\* A plan moves on, or a step shows an access or a call, or nothing.
LEMMA StepShows ==
    ASSUME Next
    PROVE  Silent \/ (Fails /\ \E p \in Plans : PlanMoves(p)) \/ Accesses \/ Calls \/ CallsModule
  <1> USE DEF Silent, Nothing, PlanMoves
  <1>1. ASSUME NEW p \in Plans, NEW made, Advance(p, made) PROVE Silent
    BY <1>1 DEF Advance
  <1>2. ASSUME NEW p \in Plans, NEW me, Show(p, me, Nothing) PROVE Silent
    BY <1>2 DEF Show
  <1>3. CASE \E c \in Programs : CompileProgram(c)
    BY <1>3 DEF CompileProgram
  <1>4. CASE (\E x \in Foreign : ReceiveProgram(x)) \/ DestroyEngine
    BY <1>4 DEF ReceiveProgram, DestroyEngine
  <1>5. CASE \E r \in Registrations : RegisterFunction(r)
    BY <1>5 DEF RegisterFunction
  <1>6. ASSUME NEW p \in Plans, DecodeAndCheck(p) PROVE Silent \/ (Fails /\ PlanMoves(p))
    BY <1>1, <1>6 DEF DecodeAndCheck, Fails
  <1>7. ASSUME NEW p \in Plans, InitPlanState(p) \/ Mislabelled(p) PROVE Silent \/ (Fails /\ PlanMoves(p))
    BY <1>1, <1>7 DEF InitPlanState, Mislabelled, Fails
  <1>8. ASSUME NEW p \in Plans, InstantiateRuntime(p) PROVE Silent \/ (Fails /\ PlanMoves(p))
    BY <1>1, <1>8 DEF InstantiateRuntime, Fails
  <1>9. ASSUME NEW p \in Plans, RegisterHostCallbacks(p) PROVE Silent \/ (Fails /\ PlanMoves(p))
    BY <1>1, <1>9 DEF RegisterHostCallbacks, Fails
  <1>10. ASSUME NEW p \in Plans, InstantiateExpr(p) PROVE Silent \/ (Fails /\ PlanMoves(p))
    BY <1>10 DEF InstantiateExpr, Fails
  <1>11. ASSUME NEW p \in Plans, BindStaticModeHelpers(p) PROVE Silent \/ (Fails /\ PlanMoves(p))
    BY <1>11 DEF BindStaticModeHelpers, Fails
  <1>12. ASSUME NEW p \in Plans, BeginEval(p) \/ Grow(p) \/ EndEval(p) PROVE Silent
    BY <1>2, <1>12 DEF BeginEval, Grow, EndEval
  <1>13. ASSUME NEW p \in Plans, DestroyInstance(p) PROVE Silent
    BY <1>13 DEF DestroyInstance
  <1>14. CASE \E p \in Plans : \E page \in 1..(MaxPages + 1) : HostAccess(p, page)
    BY <1>14 DEF Accesses
  <1>15. CASE \E p \in Plans : /\ plans[p].pc = "eval"
                               /\ \E d \in program.calls : \E args \in Args(d) :
                                    \/ \E oom \in BOOLEAN : CallCustom(p, d, args, oom)
                                    \/ CallShadowing(p, d, args)
    BY <1>15 DEF Calls, CallsModule
  <1> QED BY <1>3, <1>4, <1>5, <1>6, <1>7, <1>8, <1>9, <1>10, <1>11, <1>12, <1>13, <1>14, <1>15 DEF Next

LEMMA ShownOps ==
    /\ Fails => seen'.op = "fail"
    /\ Accesses => seen'.op = "access"
    /\ Calls => seen'.op = "call"
    /\ CallsModule => seen'.op = "call"
  <1>1. Fails => seen'.op = "fail"
    BY DEF Fails, Fail
  <1>2. Accesses => seen'.op = "access"
    BY DEF Accesses, HostAccess, Show
  <1>3. Calls => seen'.op = "call"
    BY DEF Calls, CallCustom, Show
  <1>4. CallsModule => seen'.op = "call"
    BY DEF CallsModule, CallShadowing, Show
  <1> QED BY <1>1, <1>2, <1>3, <1>4

\* However far the memory grew since the size was read, and by whatever
\* amount, the host sees exactly the pages there are.
THEOREM GrownPagesAlwaysVisible == Spec => []GrownPagesVisible
  <1>1. Init => GrownPagesVisible
    BY DEF Init, GrownPagesVisible, Nothing
  <1>2. ASSUME IInv, GrownPagesVisible, [Next]_vars PROVE GrownPagesVisible'
    <2>1. CASE UNCHANGED vars
      BY <1>2, <2>1 DEF vars, GrownPagesVisible
    <2>2. CASE Accesses
      <3>1. PICK p \in Plans, page \in 1..(MaxPages + 1) : HostAccess(p, page)
        BY <2>2 DEF Accesses
      <3>2. PICK me \in PlanType : me = plans[p]
        BY <1>2, PlanFacts
      <3>3. me.snap \in Nat /\ me.size \in Nat /\ me.snap <= me.size
        BY <1>2, <3>2, PlanFacts DEF PlanType, MemoryOK
      <3>4. PICK b : b = IsInBounds(me, page)
        OBVIOUS
      <3>5. b.ok <=> page <= me.size
        <4>1. CASE page <= me.snap
          <5>1. b.ok = TRUE
            BY <3>4, <4>1 DEF IsInBounds
          <5>2. page <= me.size
            BY <3>3, <4>1
          <5> QED BY <5>1, <5>2
        <4>2. CASE ~(page <= me.snap)
          <5>1. b = [ok |-> page <= me.size, snap |-> me.size]
            BY <3>4, <4>2 DEF IsInBounds
          <5>2. b.ok = (page <= me.size)
            BY <5>1
          <5> QED BY <5>2
        <4> QED BY <4>1, <4>2
      <3>a. PICK m : m = [me EXCEPT !.snap = b.snap]
        OBVIOUS
      <3>b. m.size = me.size
        BY <3>a DEF PlanType
      <3>6. /\ plans' = [plans EXCEPT ![p] = m]
            /\ seen' = [op |-> "access", p |-> p, page |-> page, ok |-> b.ok]
        BY <3>1, <3>2, <3>4, <3>a DEF HostAccess, Show
      <3>7. plans'[p].size = me.size
        BY <1>2, <3>6, <3>b DEF IInv, TypeOK
      <3> QED BY <3>5, <3>6, <3>7 DEF GrownPagesVisible
    <2> QED BY <1>2, <2>1, <2>2, StepShows, ShownOps DEF GrownPagesVisible, Silent
  <1> QED BY <1>1, <1>2, Invariance, PTL DEF Spec

\* What a plan may be refused for.
Refusal(stage, rows) ==
    program.origin = "compiled" =>
        /\ stage \in {"required", "wasmtime"}
        /\ \A row \in rows : /\ \E im \in program.imports : im.module = "cel_fn" /\ im.name = row.id
                             /\ \/ row.id \notin DOMAIN registry
                                \/ registry[row.id].arity # Len(row.params) + 1
                                \/ registry[row.id].sig \notin {<<>>, <<row>>}

LEMMA RefusalShown ==
    ASSUME NEW p, NEW made, NEW stage, NEW rows, Fail(p, made, stage, rows), Refusal(stage, rows)
    PROVE  DiagnosticsExact'
  BY DEF Fail, Refusal, DiagnosticsExact

\* Any call of wasmtime may fail.
LEMMA WasmtimeRefusal == Refusal("wasmtime", {})
  BY DEF Refusal

LEMMA CompiledIsSound ==
    ASSUME IInv, program.origin = "compiled"
    PROVE  Sound(program)
  BY DEF IInv, ProgramInv, NoProgram

\* A row the engine accepts: the function is there, at its arity.
LEMMA AcceptedRow ==
    ASSUME NEW row, row.backend = "host", RowVerdict(row) = "ok"
    PROVE  /\ row.id \in DOMAIN registry /\ registry[row.id].arity = Len(row.params) + 1
           /\ registry[row.id].sig # <<>> => SignaturesAgree(row, registry[row.id].sig[1])
  BY DEF RowVerdict, CheckHostRow

\* The first check that fails on a program of this compiler is the one for
\* its functions, and it is right about the row.
LEMMA DecodeRefuses ==
    ASSUME IInv, NEW p \in Plans, DecodeAndCheck(p)
    PROVE  Silent \/ DiagnosticsExact'
  <1> USE DEF DecodeAndCheck
  <1>1. CASE program.section /\ ~CheckRuntimeAbiVersion(program) /\ Fail(p, plans[p], "version", {})
    <2>1. program.origin # "compiled"
      BY <1>1, CompiledIsSound DEF Sound, CheckRuntimeAbiVersion
    <2> QED BY <1>1, <2>1, RefusalShown DEF Refusal
  <1>2. CASE program.section /\ ~ValidateAbiSlotExtents(program) /\ Fail(p, plans[p], "slots", {})
    <2>1. program.origin # "compiled"
      BY <1>2, CompiledIsSound DEF Sound
    <2> QED BY <1>2, <2>1, RefusalShown DEF Refusal
  <1>3. ASSUME NEW row \in RefusedRows(program), Fail(p, plans[p], "required", {row}) PROVE DiagnosticsExact'
    <2>1. row \in program.rows /\ RowVerdict(row) # "ok"
      BY <1>3 DEF RefusedRows
    <2>2. ASSUME program.origin = "compiled"
          PROVE  /\ \E im \in program.imports : im.module = "cel_fn" /\ im.name = row.id
                 /\ \/ row.id \notin DOMAIN registry
                    \/ registry[row.id].arity # Len(row.params) + 1
                    \/ registry[row.id].sig \notin {<<>>, <<row>>}
      <3>1. row.backend = "host" /\ \E im \in program.imports : im.module = "cel_fn" /\ im.name = row.id
        BY <2>1, <2>2, CompiledIsSound DEF Sound
      <3>2. ASSUME row.id \in DOMAIN registry, registry[row.id].arity = Len(row.params) + 1
            PROVE  registry[row.id].sig \notin {<<>>, <<row>>}
        <4>1. registry[row.id].sig # <<>> /\ ~SignaturesAgree(row, registry[row.id].sig[1])
          BY <2>1, <3>1, <3>2 DEF RowVerdict, CheckHostRow
        <4>2. SignaturesAgree(row, row)
          BY DEF SignaturesAgree
        <4> QED BY <4>1, <4>2
      <3> QED BY <3>1, <3>2
    <2>3. Refusal("required", {row})
      BY <2>2 DEF Refusal
    <2> QED BY <1>3, <2>3, RefusalShown
  <1>4. CASE Advance(p, [plans[p] EXCEPT !.pc = "checked"])
    BY <1>4 DEF Advance, Silent, Nothing
  <1> QED BY <1>1, <1>2, <1>3, <1>4

\* The link-mode label of a program of this compiler is what its imports say.
LEMMA LabelRight ==
    ASSUME IInv, program.origin = "compiled"
    PROVE  ValidateLinkModeLabel(program)
  BY CompiledIsSound DEF Sound, ValidateLinkModeLabel, Static

\* What was checked is what the linker needs.
LEMMA ImportsResolve ==
    ASSUME IInv, NEW p \in Plans, plans[p].pc = "registered", program.origin = "compiled", NEW im \in program.imports
    PROVE  Resolves(plans[p], im)
  <1>1. PICK me : me = plans[p]
    OBVIOUS
  <1>2. MemoryOK(me) /\ CheckedOK(me) /\ EnvsOK(me) /\ me.pc = "registered"
    BY <1>1, PlanFacts
  <1>3. Sound(program)
    BY CompiledIsSound
  <1>4. CASE im.module = "cel" /\ im.name \in CelHelpers /\ im.arity = Params[im.name]
    <2>1. ~Static
      BY <1>4 DEF Static, ModuleImportsCelNamespace
    <2>2. "linker" \in me.held
      BY <1>2, <2>1 DEF MemoryOK
    <2> QED BY <1>1, <1>4, <2>2 DEF Resolves
  <1>5. CASE im.module = "cel_host" /\ im.name \in HostImports /\ im.arity = Params[im.name]
    BY <1>5 DEF Resolves
  <1>6. CASE im.module = "cel_fn"
    <2>1. PICK row \in program.rows : /\ row.id = im.name /\ row.backend = "host" /\ Len(row.params) \in Nat
                                      /\ im.arity = (Len(row.params) + 1) % ByteValues
      BY <1>3, <1>6 DEF Sound
    <2>2. RowVerdict(row) = "ok"
      BY <1>2, <1>3, <2>1 DEF CheckedOK, Passed, RefusedRows, Sound
    <2>3. row.id \in DOMAIN registry /\ registry[row.id].arity = Len(row.params) + 1
      BY <2>1, <2>2, AcceptedRow
    <2>4. registry[row.id].arity \in 1 .. ByteValues - 1
      BY <2>3 DEF IInv, RegistryInv
    <2>5. PICK n \in Nat : n = Len(row.params) + 1
      BY <2>1
    <2>6. n % ByteValues = n
      <3>1. PICK b \in Nat \ {0} : b = ByteValues
        BY DeclarationBounds
      <3>2. n < b
        BY <2>3, <2>4, <2>5, <3>1
      <3>3. n % b = n
        BY <3>2
      <3> QED BY <3>1, <3>3
    <2>7. registry[im.name].arity = im.arity /\ im.name \in DOMAIN me.envs
      BY <1>2, <2>1, <2>3, <2>5, <2>6 DEF EnvsOK
    <2> QED BY <1>1, <1>6, <2>7 DEF Resolves
  <1> QED BY <1>3, <1>4, <1>5, <1>6 DEF Sound

LEMMA LinkRefuses ==
    ASSUME IInv, NEW p \in Plans, InstantiateExpr(p)
    PROVE  Silent \/ DiagnosticsExact'
  <1> USE DEF InstantiateExpr
  <1>1. plans[p].pc = "registered"
    OBVIOUS
  <1>2. CASE (\E im \in program.imports : ~Resolves(plans[p], im)) /\ Fail(p, plans[p], "link", {})
    <2>1. program.origin # "compiled"
      BY <1>1, <1>2, ImportsResolve
    <2> QED BY <1>2, <2>1, RefusalShown DEF Refusal
  <1>3. ASSUME ~program.eval, NEW made, Fail(p, made, "eval", {}) PROVE DiagnosticsExact'
    <2>1. program.origin # "compiled"
      BY <1>3, CompiledIsSound DEF Sound
    <2> QED BY <1>3, <2>1, RefusalShown DEF Refusal
  <1>4. ASSUME NEW made, Fail(p, made, "wasmtime", {}) PROVE DiagnosticsExact'
    BY <1>4, WasmtimeRefusal, RefusalShown
  <1>5. CASE seen' = Nothing
    BY <1>5 DEF Silent, Nothing
  <1> QED BY <1>2, <1>3, <1>4, <1>5

\* For every program of this compiler, every engine and every order of
\* registrations and plans, the functions that are missing or differ are the
\* only thing a plan is refused for, and nothing is left to the linker.
THEOREM DiagnosticsAlwaysExact == Spec => []DiagnosticsExact
  <1>1. Init => DiagnosticsExact
    BY DEF Init, DiagnosticsExact, Nothing
  <1>2. ASSUME IInv, DiagnosticsExact, [Next]_vars PROVE DiagnosticsExact'
    <2>1. CASE UNCHANGED vars
      BY <1>2, <2>1 DEF vars, DiagnosticsExact
    <2>2. CASE Silent \/ Accesses \/ Calls \/ CallsModule
      BY <2>2, ShownOps DEF DiagnosticsExact, Silent
    <2>3. ASSUME NEW p \in Plans, PlanMoves(p), Fails PROVE DiagnosticsExact'
      <3>1. ~Silent
        BY <2>3, ShownOps DEF Silent
      <3>2. ASSUME NEW made, Fail(p, made, "wasmtime", {}) PROVE DiagnosticsExact'
        BY <3>2, WasmtimeRefusal, RefusalShown
      <3>3. ASSUME NEW made, Advance(p, made) PROVE Silent
        BY <3>3 DEF Advance, Silent, Nothing
      <3>4. CASE DecodeAndCheck(p)
        BY <1>2, <3>1, <3>4, DecodeRefuses
      <3>5. CASE InstantiateExpr(p)
        BY <1>2, <3>1, <3>5, LinkRefuses
      <3>6. CASE Mislabelled(p)
        <4>1. program.origin # "compiled" /\ Fail(p, plans[p], "label", {})
          BY <1>2, <3>6, LabelRight DEF Mislabelled
        <4> QED BY <4>1, RefusalShown DEF Refusal
      <3>7. CASE InitPlanState(p)
        BY <3>1, <3>2, <3>3, <3>7 DEF InitPlanState
      <3>8. CASE InstantiateRuntime(p)
        BY <3>1, <3>2, <3>3, <3>8 DEF InstantiateRuntime
      <3>9. CASE RegisterHostCallbacks(p)
        BY <3>1, <3>2, <3>3, <3>9 DEF RegisterHostCallbacks
      <3>10. CASE BindStaticModeHelpers(p)
        <4>1. CASE seen' = Nothing
          BY <3>1, <4>1 DEF Silent, Nothing
        <4> QED BY <3>2, <3>10, <4>1 DEF BindStaticModeHelpers
      <3> QED BY <2>3, <3>4, <3>5, <3>6, <3>7, <3>8, <3>9, <3>10 DEF PlanMoves
    <2> QED BY <1>2, <2>1, <2>2, <2>3, StepShows
  <1> QED BY <1>1, <1>2, Invariance, PTL DEF Spec

-----------------------------------------------------------------------------
(* Calls *)

\* A set of indexes has a first.
LEMMA LeastIndex ==
    ASSUME NEW S, S \subseteq Nat, S # {}
    PROVE  \E i \in S : \A j \in S : i <= j
  <1>1. PICK i \in S : \A j \in S : ~(<<j, i>> \in OpToRel(<, Nat))
    BY WFMin, NatLessThanWellFounded, Zenon
  <1>2. \A j \in S : ~(j < i)
    BY <1>1 DEF OpToRel
  <1> QED BY <1>2

\* The first error, or else the first unknown, is one of the arguments.
LEMMA Absorbs ==
    ASSUME NEW args, DOMAIN args \subseteq Nat, NEW fn, NEW oom,
           NEW out, out = HostCallbackTrampoline(fn, args, oom)
    PROVE  IF \E i \in DOMAIN args : Poisoned(args[i])
           THEN /\ out \in {args[i] : i \in DOMAIN args} /\ Poisoned(out)
                /\ out.kind = "unknown" => \A i \in DOMAIN args : args[i].kind # "error"
           ELSE out = InvokeTyped(fn, args, oom)
  <1> DEFINE at(kind) == {i \in DOMAIN args : args[i].kind = kind}
             First(S) == CHOOSE i \in S : \A j \in S : i <= j
  <1>1. ASSUME NEW kind, at(kind) # {} PROVE First(at(kind)) \in at(kind)
    <2>1. PICK S : S = at(kind)
      OBVIOUS
    <2>2. \E i \in S : \A j \in S : i <= j
      BY <1>1, <2>1, LeastIndex
    <2> QED BY <2>1, <2>2
  <1>2. CASE at("error") # {}
    <2>1. PICK i \in DOMAIN args : i = First(at("error")) /\ args[i].kind = "error"
      BY <1>1, <1>2
    <2>2. AbsorbUnknownOrErrorArg(args) = <<args[i]>>
      BY <1>2, <2>1 DEF AbsorbUnknownOrErrorArg
    <2>3. out = args[i]
      BY <2>2 DEF HostCallbackTrampoline
    <2> QED BY <2>1, <2>3 DEF Poisoned
  <1>3. CASE at("error") = {} /\ at("unknown") # {}
    <2>1. PICK i \in DOMAIN args : i = First(at("unknown")) /\ args[i].kind = "unknown"
      BY <1>1, <1>3
    <2>2. AbsorbUnknownOrErrorArg(args) = <<args[i]>>
      BY <1>3, <2>1 DEF AbsorbUnknownOrErrorArg
    <2>3. out = args[i]
      BY <2>2 DEF HostCallbackTrampoline
    <2>4. \A j \in DOMAIN args : args[j].kind # "error"
      BY <1>3
    <2> QED BY <2>1, <2>3, <2>4 DEF Poisoned
  <1>4. CASE at("error") = {} /\ at("unknown") = {}
    <2>1. AbsorbUnknownOrErrorArg(args) = <<>>
      BY <1>4 DEF AbsorbUnknownOrErrorArg
    <2>2. out = InvokeTyped(fn, args, oom)
      BY <2>1 DEF HostCallbackTrampoline
    <2>3. \A i \in DOMAIN args : ~Poisoned(args[i])
      BY <1>4 DEF Poisoned
    <2> QED BY <2>2, <2>3
  <1> QED BY <1>2, <1>3, <1>4

\* What a slot holds besides poison and null decodes.
LEMMA SlotDecodes ==
    ASSUME NEW t, NEW x, SlotOf(t, x), ~Poisoned(x), x.kind # "null"
    PROVE  DecodeCelValue(x) # Trap
  <1>1. Trap.kind = "trap"
    BY DEF Trap
  <1>2. CASE IsList(x) \/ IsMap(x)
    <2>1. \A i \in DOMAIN x.v : x.v[i].kind \notin {"optional", "trap"}
      BY <1>2 DEF SlotOf, Poisoned, IsList, IsMap
    <2>2. \A i \in DOMAIN x.v : DecodeElement(x.v[i]) # Trap
      BY <1>1, <2>1 DEF DecodeElement
    <2>3. \A kind \in {"list", "map"} : DecodeAggregate(kind, x) = Cell(kind, [i \in DOMAIN x.v |-> DecodeElement(x.v[i])])
      BY <2>2 DEF DecodeAggregate
    <2>4. \A kind \in {"list", "map"} : \A v : Cell(kind, v) # Trap
      BY DEF Cell, Trap
    <2>5. DecodeCelValue(x) = DecodeAggregate("list", x) \/ DecodeCelValue(x) = DecodeAggregate("map", x)
      BY <1>2 DEF DecodeCelValue, IsList, IsMap
    <2> QED BY <2>3, <2>4, <2>5
  <1>3. CASE ~IsList(x) /\ ~IsMap(x)
    <2>1. DecodeCelValue(x) = DecodeElement(x)
      BY <1>3 DEF DecodeCelValue
    <2>2. x.kind \notin {"optional", "trap"}
      BY <1>3 DEF SlotOf, Poisoned
    <2> QED BY <1>1, <2>1, <2>2 DEF DecodeElement
  <1> QED BY <1>2, <1>3

\* A parameter bound to its declared type takes every such slot.
LEMMA ParamTakes ==
    ASSUME NEW cpp, NEW t, NEW M, NEW x, CppParamMatchesDeclType(cpp, t[1]), SlotOf(t, x), ~Poisoned(x),
           x.kind # "null", cpp = "proto" => t = <<"message", M>>
    PROVE  ArgTrait(cpp, M, x) # Trap
  <1>1. Trap.kind = "trap"
    BY DEF Trap
  <1>2. CASE cpp = "value"
    BY <1>2, SlotDecodes DEF ArgTrait
  <1>3. CASE cpp \in {"bool", "int", "uint", "double", "duration", "timestamp"} /\ t[1] = cpp
    <2>1. x.kind = cpp
      BY <1>3 DEF SlotOf
    <2>2. ArgTrait(cpp, M, x) = ArgOfKind(cpp, x)
      BY <1>3 DEF ArgTrait
    <2> QED BY <1>1, <1>3, <2>1, <2>2 DEF ArgOfKind
  <1>4. CASE cpp = "string_view" /\ t[1] \in {"string", "bytes"}
    <2>1. x.kind = t[1]
      BY <1>4 DEF SlotOf
    <2>2. ArgTrait(cpp, M, x) = ArgStringOrBytes(x)
      BY <1>4 DEF ArgTrait
    <2> QED BY <1>1, <1>4, <2>1, <2>2 DEF ArgStringOrBytes, ArgOfKind
  <1>5. CASE cpp = "list_view" /\ t[1] = "list"
    <2>1. IsList(x)
      BY <1>5 DEF SlotOf
    <2>2. ArgTrait(cpp, M, x) = ArgList(x)
      BY <1>5 DEF ArgTrait
    <2> QED BY <2>1, <2>2 DEF ArgList, Cell, Trap
  <1>6. CASE cpp = "map_view" /\ t[1] = "map"
    <2>1. IsMap(x)
      BY <1>6 DEF SlotOf
    <2>2. ArgTrait(cpp, M, x) = ArgMap(x)
      BY <1>6 DEF ArgTrait
    <2> QED BY <2>1, <2>2 DEF ArgMap, Cell, Trap
  <1>7. CASE cpp = "message_ptr" /\ t[1] = "message"
    <2>1. x.kind = "message"
      BY <1>7 DEF SlotOf
    <2>2. ArgTrait(cpp, M, x) = ArgProto(x)
      BY <1>7 DEF ArgTrait
    <2> QED BY <1>1, <2>1, <2>2 DEF ArgProto, ArgOfKind
  <1>8. CASE cpp = "proto" /\ t[1] = "message"
    <2>1. t[2] = M
      BY <1>8
    <2>2. x.kind = "message" /\ x.v = t[2]
      BY <1>8 DEF SlotOf
    <2>3. ArgProto(x) = x /\ x # Trap
      BY <1>1, <2>2 DEF ArgProto, ArgOfKind
    <2> QED BY <1>8, <2>1, <2>2, <2>3 DEF ArgTrait
  <1> QED BY <1>2, <1>3, <1>4, <1>5, <1>6, <1>7, <1>8 DEF CppParamMatchesDeclType

\* An answer survives the slot it is written to, or does not fit the arena.
LEMMA AnswerReturns ==
    ASSUME NEW x, Answers(x), NEW oom \in BOOLEAN, NEW out, out = ReturnValue(x, oom)
    PROVE  DecodeCelValue(out) = x \/ (out = Trap /\ x.kind \in {"string", "bytes", "unknown"})
  <1>1. Trap.kind = "trap"
    BY DEF Trap
  <1>2. CASE x.kind \in {"list", "map"}
    <2>1. x = Cell(x.kind, [i \in DOMAIN x.v |-> x.v[i]]) /\ \A i \in DOMAIN x.v : x.v[i].kind \notin {"optional", "trap"}
      BY <1>1, <1>2 DEF Answers
    <2>2. PICK host : host = (IF x.kind = "list" THEN "list_host" ELSE "map_host") /\ out = Cell(host, x.v)
      BY <1>2 DEF ReturnValue, EncodeValueToSlot
    <2>3. out.kind = host /\ out.v = x.v
      BY <2>2 DEF Cell
    <2>4. \A i \in DOMAIN x.v : DecodeElement(x.v[i]) = x.v[i] /\ x.v[i] # Trap
      BY <1>1, <2>1 DEF DecodeElement
    <2>5. [i \in DOMAIN x.v |-> DecodeElement(x.v[i])] = [i \in DOMAIN x.v |-> x.v[i]]
      BY <2>4
    <2>6. \A kind : DecodeAggregate(kind, out) = Cell(kind, [i \in DOMAIN x.v |-> x.v[i]])
      BY <2>3, <2>4, <2>5 DEF DecodeAggregate
    <2>7. DecodeCelValue(out) = DecodeAggregate(x.kind, out)
      BY <1>2, <2>2, <2>3 DEF DecodeCelValue, IsList, IsMap
    <2> QED BY <2>1, <2>6, <2>7
  <1>3. CASE x.kind \in {"string", "bytes", "unknown"}
    <2>1. out = Trap \/ out = x
      BY <1>3 DEF ReturnValue, EncodeValueToSlot
    <2>2. DecodeCelValue(x) = x
      BY <1>3 DEF DecodeCelValue, IsList, IsMap, DecodeElement
    <2> QED BY <1>3, <2>1, <2>2
  <1>4. CASE x.kind \notin {"list", "map", "string", "bytes", "unknown"}
    <2>1. x.kind \notin {"type", "optional", "list_arena", "list_host", "map_arena", "map_host"}
      BY <1>1, <1>4 DEF Answers
    <2>2. out = x
      BY <1>4, <2>1 DEF ReturnValue, EncodeValueToSlot
    <2> QED BY <2>1, <2>2 DEF DecodeCelValue, IsList, IsMap, DecodeElement
  <1> QED BY <1>2, <1>3, <1>4

\* Two functions with agreeing signatures and one id are one function.
LEMMA SameFunction ==
    ASSUME NEW d \in Declaration, NEW g \in Declaration, SynthesiseOverloadId(d) = SynthesiseOverloadId(g),
           SignaturesAgree(RequiredFunctionFromDecl(d), RequiredFunctionFromDecl(g))
    PROVE  RequiredFunctionFromDecl(g) = RequiredFunctionFromDecl(d) /\ g.params = d.params
  <1>1. d.params \in Seq(Seq(STRING)) /\ g.params \in Seq(Seq(STRING))
    BY DEF Declaration
  <1>2. PICK x : x = RequiredFunctionFromDecl(d)
    OBVIOUS
  <1>3. PICK y : y = RequiredFunctionFromDecl(g)
    OBVIOUS
  <1>4. /\ x.id = y.id /\ x.backend = y.backend /\ x.params = d.params /\ y.params = g.params
        /\ x = [id |-> x.id, backend |-> x.backend, params |-> x.params, ret |-> x.ret, receiver |-> x.receiver]
        /\ y = [id |-> y.id, backend |-> y.backend, params |-> y.params, ret |-> y.ret, receiver |-> y.receiver]
    BY <1>2, <1>3 DEF RequiredFunctionFromDecl
  <1>5. /\ x.receiver = y.receiver /\ x.ret = y.ret /\ Len(d.params) = Len(g.params)
        /\ \A i \in DOMAIN d.params : d.params[i] = g.params[i]
    BY <1>2, <1>3, <1>4 DEF SignaturesAgree
  <1>6. g.params = d.params
    BY <1>1, <1>5
  <1> QED BY <1>2, <1>3, <1>4, <1>5, <1>6

\* Where a call of an instance lands.
LEMMA CallLands ==
    ASSUME IInv, NEW p \in Plans, plans[p].pc = "eval", NEW d \in program.calls, IsImported(d),
           NEW id, id = SynthesiseOverloadId(d)
    PROVE  /\ id \notin NamesTaken(program.label) /\ p \in owners /\ id \in DOMAIN registry /\ plans[p].envs[id] = registry[id].node
           /\ At(plans[p].envs[id]) = {id} /\ registry[id].arity = Len(d.params) + 1 /\ d \in Declaration
           /\ \E c \in Programs : d \in c.expr.calls
           /\ registry[id].sig # <<>> => SignaturesAgree(RequiredFunctionFromDecl(d), registry[id].sig[1])
  <1>1. PICK me : me = plans[p]
    OBVIOUS
  <1>2. me.pc = "eval" /\ CheckedOK(me) /\ EnvsOK(me) /\ p \in owners
    BY <1>1, PlanFacts
  <1>3. Sound(program) /\ Passed
    BY <1>2 DEF CheckedOK, IInv, ProgramInv
  <1>3a. id \notin NamesTaken(program.label)
    BY <1>3 DEF Sound, IsImported
  <1>4. PICK row \in program.rows : row = RequiredFunctionFromDecl(d)
    BY <1>3, <1>3a DEF Sound, Shadows
  <1>5. row.id = id /\ row.backend = "host" /\ row.params = d.params
    BY <1>4 DEF RequiredFunctionFromDecl
  <1>6. id \in DOMAIN me.envs
    BY <1>2, <1>3, <1>5 DEF Sound, EnvsOK
  <1>7. id \in DOMAIN registry /\ me.envs[id] = registry[id].node
    BY <1>2, <1>6 DEF EnvsOK
  <1>8. At(me.envs[id]) = {id}
    BY <1>7 DEF At, IInv, RegistryInv
  <1>9. RowVerdict(row) = "ok"
    BY <1>3 DEF Passed, RefusedRows, Sound
  <1>10. registry[id].arity = Len(d.params) + 1 /\ (registry[id].sig # <<>> => SignaturesAgree(row, registry[id].sig[1]))
    BY <1>5, <1>9, AcceptedRow
  <1> QED BY <1>1, <1>2, <1>3, <1>3a, <1>4, <1>7, <1>8, <1>10 DEF Sound

\* A call of a function that was not imported has the name and the type of
\* one the module had before.
LEMMA CallShadowed ==
    ASSUME IInv, NEW p \in Plans, plans[p].pc = "eval", NEW d \in program.calls, ~IsImported(d)
    PROVE  /\ Shadows(program.label, SynthesiseOverloadId(d), Len(d.params) + 1)
           /\ \E c \in Programs : d \in c.expr.calls
  <1>1. CheckedOK(plans[p])
    BY PlanFacts
  <1>2. Sound(program)
    BY <1>1 DEF CheckedOK, IInv, ProgramInv
  <1>3. RequiredFunctionFromDecl(d).id = SynthesiseOverloadId(d)
    BY DEF RequiredFunctionFromDecl
  <1>4. RequiredFunctionFromDecl(d) \notin program.rows
    BY <1>2, <1>3 DEF Sound, IsImported
  <1> QED BY <1>2, <1>4 DEF Sound

\* A function that was bound with the declaration it is called by is handed
\* what the checker let through, and its answer comes back.
LEMMA BoundCall ==
    ASSUME NEW d \in Declaration, NEW r \in Registrations, BindParsedFunction(r.decl, r.fn), r.decl.params = d.params,
           NEW args, DOMAIN args = DOMAIN d.params, \A i \in DOMAIN args : SlotOf(d.params[i], args[i]),
           \A i \in DOMAIN args : ~Poisoned(args[i]) /\ Takes(r.fn, i, d, args[i]),
           NEW oom \in BOOLEAN, NEW out, out = InvokeTyped(r.fn, args, oom)
    PROVE  DecodeCelValue(out) = r.fn.answer \/ (out = Trap /\ r.fn.answer.kind \in {"string", "bytes", "unknown"})
  <1>1. PICK fn : fn = r.fn
    OBVIOUS
  <1>2. PICK params \in Seq(Seq(STRING)) : params = d.params
    BY DEF Declaration
  <1>3. fn.kinds \in Seq(STRING) /\ Answers(fn.answer)
    BY <1>1, RegistrationsAssumption
  <1>4. /\ Len(fn.kinds) = Len(params) /\ DOMAIN args = DOMAIN params
        /\ \A i \in DOMAIN params : CppParamMatchesDeclType(fn.kinds[i], params[i][1])
    BY <1>1, <1>2 DEF BindParsedFunction
  <1>5. DOMAIN fn.kinds = DOMAIN args
    BY <1>2, <1>3, <1>4
  <1>6. ASSUME NEW i \in DOMAIN args PROVE ArgTrait(fn.kinds[i], fn.M, args[i]) # Trap
    <2>1. PICK t : t = params[i]
      OBVIOUS
    <2>2. PICK x : x = args[i]
      OBVIOUS
    <2>3. SlotOf(t, x) /\ ~Poisoned(x) /\ Takes(fn, i, d, x)
      BY <1>1, <1>2, <2>1, <2>2
    <2>4. x.kind # "null" /\ (fn.kinds[i] = "proto" => t = <<"message", fn.M>>)
      BY <1>2, <2>1, <2>3 DEF Takes
    <2>5. CppParamMatchesDeclType(fn.kinds[i], t[1])
      BY <1>4, <2>1
    <2>6. ArgTrait(fn.kinds[i], fn.M, x) # Trap
      BY <2>3, <2>4, <2>5, ParamTakes
    <2> QED BY <2>2, <2>6
  <1>7. out = ReturnValue(fn.answer, oom)
    BY <1>1, <1>5, <1>6 DEF InvokeTyped
  <1> QED BY <1>1, <1>3, <1>7, AnswerReturns

\* For every program, every set of functions and however they were
\* registered: a call reaches the function it was compiled against, poison
\* is absorbed, and a bound function's answer comes back, unless the module
\* had a function of that name and type before, which is then the one called.
THEOREM CallsAlwaysReachDeclared == Spec => []CallsReachDeclared
  <1>1. Init => CallsReachDeclared
    BY DEF Init, CallsReachDeclared, Nothing
  <1>2. ASSUME IInv, CallsReachDeclared, [Next]_vars PROVE CallsReachDeclared'
    <2>1. CASE UNCHANGED vars
      BY <1>2, <2>1 DEF vars, CallsReachDeclared
    <2>2. CASE Silent \/ Accesses \/ Fails
      BY <2>2, ShownOps DEF CallsReachDeclared, Silent
    <2>3. CASE Calls
      <3>1. PICK p \in Plans, d \in program.calls : \E args \in Args(d), oom \in BOOLEAN :
                plans[p].pc = "eval" /\ CallCustom(p, d, args, oom)
        BY <2>3 DEF Calls
      <3>2. PICK args \in Args(d), oom \in BOOLEAN : plans[p].pc = "eval" /\ CallCustom(p, d, args, oom)
        BY <3>1
      <3>3. PICK id : id = SynthesiseOverloadId(d)
        OBVIOUS
      <3>4. PICK e : e = registry[id]
        OBVIOUS
      <3>4a. IsImported(d)
        BY <3>2 DEF CallCustom
      <3>5. /\ id \notin NamesTaken(program.label) /\ p \in owners /\ id \in DOMAIN registry /\ plans[p].envs[id] = e.node
            /\ At(plans[p].envs[id]) = {id} /\ e.arity = Len(d.params) + 1 /\ d \in Declaration
            /\ \E c \in Programs : d \in c.expr.calls
            /\ e.sig # <<>> => SignaturesAgree(RequiredFunctionFromDecl(d), e.sig[1])
        BY <1>2, <3>2, <3>3, <3>4, <3>4a, CallLands
      <3>6. PICK out : out = HostCallbackTrampoline(e.fn, args, oom)
        OBVIOUS
      <3>7. /\ seen' = [op |-> "call", to |-> "host", p |-> p, decl |-> d, args |-> args, node |-> e.node, out |-> out]
            /\ UNCHANGED <<program, registry, owners>>
        <4>1. PICK n : n = plans[p].envs[id]
          OBVIOUS
        <4>2. (CHOOSE x \in At(n) : TRUE) = id /\ At(n) # {} /\ owners # {}
          BY <3>5, <4>1
        <4> QED BY <3>2, <3>3, <3>4, <3>5, <3>6, <4>1, <4>2 DEF CallCustom, Show
      <3>8. /\ DOMAIN args = DOMAIN d.params /\ Len(args) = Len(d.params)
            /\ \A i \in DOMAIN args : SlotOf(d.params[i], args[i])
        BY <3>5, ArgsAssumption
      <3>9. DOMAIN args \subseteq Nat
        <4>1. PICK params \in Seq(Seq(STRING)) : params = d.params
          BY <3>5 DEF Declaration
        <4> QED BY <3>8, <4>1
      <3>10. IF \E i \in DOMAIN args : Poisoned(args[i])
             THEN /\ out \in {args[i] : i \in DOMAIN args} /\ Poisoned(out)
                  /\ out.kind = "unknown" => \A i \in DOMAIN args : args[i].kind # "error"
             ELSE out = InvokeTyped(e.fn, args, oom)
        BY <3>6, <3>9, Absorbs
      <3>11. ASSUME e.sig # <<>>
             PROVE  /\ e.sig[1] = RequiredFunctionFromDecl(d)
                    /\ (\A i \in DOMAIN args : ~Poisoned(args[i]) /\ Takes(e.fn, i, d, args[i])) =>
                         \/ DecodeCelValue(out) = e.fn.answer
                         \/ out = Trap /\ e.fn.answer.kind \in {"string", "bytes", "unknown"}
        <4>1. PICK r \in Registrations : /\ id = SynthesiseOverloadId(r.decl) /\ BindParsedFunction(r.decl, r.fn)
                                         /\ e.sig = <<RequiredFunctionFromDecl(r.decl)>> /\ e.fn = r.fn
          BY <1>2, <3>4, <3>5, <3>11 DEF IInv, RegistryInv
        <4>2. e.sig[1] = RequiredFunctionFromDecl(r.decl) /\ r.decl \in Declaration
          BY <4>1, RegistrationsAssumption
        <4>3. e.sig[1] = RequiredFunctionFromDecl(d) /\ r.decl.params = d.params
          BY <3>3, <3>5, <3>11, <4>1, <4>2, SameFunction
        <4>4. ASSUME \A i \in DOMAIN args : ~Poisoned(args[i]) /\ Takes(e.fn, i, d, args[i])
              PROVE  \/ DecodeCelValue(out) = e.fn.answer
                     \/ out = Trap /\ e.fn.answer.kind \in {"string", "bytes", "unknown"}
          <5>1. out = InvokeTyped(r.fn, args, oom)
            BY <3>10, <4>1, <4>4
          <5> QED BY <3>5, <3>8, <4>1, <4>3, <4>4, <5>1, BoundCall
        <4> QED BY <4>3, <4>4
      <3>12. seen'.decl = d /\ seen'.args = args /\ seen'.node = e.node /\ seen'.out = out /\ registry'[id] = e
             /\ owners' # {} /\ id \in DOMAIN registry' /\ seen'.to = "host" /\ id \notin NamesTaken(program'.label)
        BY <3>4, <3>5, <3>7
      <3> QED BY <3>3, <3>5, <3>8, <3>10, <3>11, <3>12 DEF CallsReachDeclared, Poisoned, Takes
    <2>4. CASE CallsModule
      <3>0. PICK p \in Plans, d \in program.calls : \E args \in Args(d) : CallShadowing(p, d, args)
        BY <2>4 DEF CallsModule
      <3>1. PICK args \in Args(d) : CallShadowing(p, d, args)
        BY <3>0
      <3>2. /\ seen'.to = "module" /\ seen'.decl = d /\ seen'.args = args /\ program' = program
            /\ plans[p].pc = "eval" /\ ~IsImported(d)
        BY <3>1 DEF CallShadowing, Show
      <3>3. Shadows(program.label, SynthesiseOverloadId(d), Len(d.params) + 1) /\ Len(args) = Len(d.params)
        BY <1>2, <3>2, CallShadowed, ArgsAssumption
      <3> QED BY <3>2, <3>3 DEF CallsReachDeclared
    <2> QED BY <1>2, <2>1, <2>2, <2>3, <2>4, StepShows
  <1> QED BY <1>1, <1>2, Invariance, PTL DEF Spec
=============================================================================
