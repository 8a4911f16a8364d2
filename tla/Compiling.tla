------------------------------ MODULE Compiling ------------------------------
(***************************************************************************)
(* What the compile driver makes of a checked expression                   *)
(* (compiler/internal/compile.cc, abi/cel_abi_emit.cc): the imports of the *)
(* module, the cel.abi section that tells the engine about them, and the   *)
(* static region the module writes at the bottom of the shared memory.     *)
(* Parsing, checking and the bodies of the functions are left out: of an   *)
(* expression remain the custom declarations it calls, the variables it    *)
(* names, and the bytes its constants and its workspace need.              *)
(*                                                                         *)
(* A result is <<x>>, and <<>> where the code returns an error status.     *)
(***************************************************************************)
EXTENDS Declarations

CONSTANTS
    Window,        \* kReservedLowMemoryBytes
    Guard,         \* kGuardBytes
    Align,         \* what the workspace is aligned to
    RodataBase,    \* kRodataBaseMin
    SlotStride,    \* the distance of two workspace slots
    ValueBytes,    \* sizeof(CelValue)
    MapHelpers,    \* the runtime's functions on maps and map iterators,
    ListHelpers,   \* and on lists
    HostImports,   \* the cel_host trampolines
    Adopted,       \* functions of the runtime no module imports
    Valued,        \* the functions among all these that return a value
    AbiVersion     \* kRuntimeAbiVersion

ASSUME LayoutBounds ==
    /\ {Window, Guard, Align, RodataBase, SlotStride, ValueBytes, AbiVersion} \subseteq Nat \ {0}
    /\ ValueBytes <= SlotStride /\ SlotStride <= Guard /\ RodataBase + Guard < Window
    /\ \A n \in {Window, Guard, SlotStride} : n % Align = 0

Import(module, name, arity) == [module |-> module, name |-> name, arity |-> arity]

-----------------------------------------------------------------------------
(* Variables *)

IsDeclarableAsVariable(t) == t[1] \notin {"unknown", "null", "optional"}

\* A message of no name has the single constructor "message".
ValidateDecl(v) == v.name # "" /\ IsDeclarableAsVariable(v.type) /\ v.type # <<"message">>

VariablesBuild(variables) ==
    \A i \in DOMAIN variables :
        /\ ValidateDecl(variables[i])
        /\ \A j \in 1..(i - 1) : variables[j].name # variables[i].name

-----------------------------------------------------------------------------
(* The static region *)

rodata_end(expr) == RodataBase + expr.rodata

\* Mutant: rounded to more than the window and the slots are multiples of.
WorkspaceBaseWide(expr) == ((rodata_end(expr) + 4 * Align - 1) \div (4 * Align)) * (4 * Align)

\* ReserveVariableSlots: rounded up from the end of the constants.
workspace_base(expr) == ((rodata_end(expr) + Align - 1) \div Align) * Align

workspace_bytes(expr) == (expr.temps + Cardinality(expr.vars)) * SlotStride

MaxWorkspaceBytes(end) == IF end + Guard >= Window THEN 0 ELSE Window - (end + Guard)

\* LayoutPass's gate: the constants first, then the workspace above them,
\* measured from where the constants end.
CheckStaticWindowFits(expr) ==
    /\ rodata_end(expr) + Guard <= Window
    /\ workspace_bytes(expr) <= MaxWorkspaceBytes(rodata_end(expr))

region_end(expr) == workspace_base(expr) + workspace_bytes(expr)

ValidateExprStaticRegion(expr) == region_end(expr) <= Window

\* The checker resolves every call to a declaration and every variable.
RunFrontAndLayout(expr, decls, variables) ==
    /\ expr.calls \subseteq ToSet(decls)
    /\ expr.vars \subseteq {variables[i].name : i \in DOMAIN variables}
    /\ CheckStaticWindowFits(expr)
    /\ ValidateExprStaticRegion(expr)

-----------------------------------------------------------------------------
(* Imports *)

\* Both link modes import the trampolines; the adopted runtime also has its own.
InstallCelHostImports == {Import("cel_host", h, Params[h]) : h \in HostImports}

ArenaHelpers == {<<"arena", "reset">>, <<"arena", "alloc">>}

\* Literals, lookups and iterators, used or not.
InstallMapImports == {Import("cel", h, Params[h]) : h \in MapHelpers}
InstallListImports == {Import("cel", h, Params[h]) : h \in ListHelpers}

InstallExprModuleImports ==
    {Import("cel", h, Params[h]) : h \in ArenaHelpers} \cup InstallMapImports \cup InstallListImports

\* The functions of the runtime a module may call.
CelHelpers == ArenaHelpers \cup MapHelpers \cup ListHelpers \cup {Builtins[b] : b \in DOMAIN Builtins}

ASSUME RuntimeAssumption ==
    /\ CelHelpers \cup HostImports \cup Adopted \subseteq DOMAIN Params
    /\ CelHelpers \cap HostImports = {}

\* Nothing is imported at an arity the emitter has no parameter list for.
InstallOverloadImport(module, helper, arity) ==
    IF arity \in 1..MaxArity THEN {Import(module, helper, arity)} ELSE {}

\* The functions a module has before the table: a static one is the runtime.
InternalNames(mode) ==
    HostImports \cup (IF mode = "static" THEN CelHelpers \cup Adopted
                     ELSE ArenaHelpers \cup MapHelpers \cup ListHelpers)

\* And before the custom functions, which come last in the table.
NamesTaken(mode) == InternalNames(mode) \cup CelHelpers

\* The rows of one import module, but for those whose name is taken.
InstallRows(table, module, taken) ==
    UNION {InstallOverloadImport(row.module, row.helper, row.arity) :
             row \in {r \in table : r.module = module /\ r.helper \notin taken}}

\* A name that is taken is skipped, a custom function's too, so that calls
\* of it are calls of the function that has the name.
InstallOverloadImportsExport(table, mode) ==
    InstallRows(table, "cel", InternalNames(mode)) \cup InstallRows(table, "cel_fn", NamesTaken(mode))

\* Whether a function the module has besides the customs can be the callee.
Shadows(mode, name, operands) ==
    name \in NamesTaken(mode) /\ Params[name] = operands /\ name \notin Valued

\* ResolveCallHelper: each call has a row.  Binaryen then rejects a call
\* whose callee is no function of the module or has another type, wherever
\* the callee comes from.
Validate(expr, table, imports, mode) ==
    \A d \in expr.calls : \E row \in Lookup(table, SynthesiseOverloadId(d)) :
        \/ Import("cel_fn", row.helper, Len(d.params) + 1) \in imports
        \/ Shadows(mode, row.helper, Len(d.params) + 1)

\* From level 1 on, imports no function uses are dropped; $eval always
\* resets the arena.
Optimize(level, expr, imports) ==
    IF level = 0 THEN imports
    ELSE {im \in imports : \/ im.name = <<"arena", "reset">>
                           \/ \E d \in expr.calls : im.name = SynthesiseOverloadId(d)}

-----------------------------------------------------------------------------
(* The cel.abi section *)

\* A list of free variables, one workspace slot each.
EmitVariables(expr) ==
    {workspace_base(expr) + (i - 1) * SlotStride : i \in 1..Cardinality(expr.vars)}

\* The first declaration of an id, across the libraries in order.
FindDeclByOverloadId(decls, id) ==
    decls[CHOOSE i \in DOMAIN decls :
            /\ SynthesiseOverloadId(decls[i]) = id
            /\ \A j \in 1..(i - 1) : SynthesiseOverloadId(decls[j]) # id]

BuildRequiredFunctions(imports, decls) ==
    {RequiredFunctionFromDecl(FindDeclByOverloadId(decls, im.name)) :
       im \in {x \in imports : x.module = "cel_fn"}}

\* Mutant: the table is taken before the optimizer ran.
AttachEveryDeclared(decls, final, mode) ==
    BuildRequiredFunctions(InstallOverloadImportsExport(OverloadTable(decls), mode), decls)

\* The rows follow the imports the finished module has.
AttachCelAbiSection(decls, final, mode) == BuildRequiredFunctions(final, decls)

\* LowerExportAndFinalise: install, lower, validate, optimize, attach, serialize.
LowerExportAndFinalise(expr, decls, base, mode, level) ==
    LET table == OverloadTable(decls)
        installed == base \cup InstallOverloadImportsExport(table, mode)
        final == Optimize(level, expr, installed)
    IN  IF ~OverloadTableBuilds(decls) \/ ~Validate(expr, table, installed, mode) THEN <<>>
        ELSE <<[origin |-> "compiled", calls |-> expr.calls, imports |-> final,
                section |-> TRUE, version |-> AbiVersion, bare |-> FALSE, label |-> mode,
                rows |-> AttachCelAbiSection(decls, final, mode),
                slots |-> EmitVariables(expr), end |-> region_end(expr), eval |-> TRUE]>>

\* CompileStatic merges the module into the runtime, Compile imports it.
Compile(expr, decls, mode, level) ==
    LET base == InstallCelHostImports \cup (IF mode = "static" THEN {} ELSE InstallExprModuleImports)
    IN  LowerExportAndFinalise(expr, decls, base, mode, level)

\* Compiler::Builder::Build, then Compiler::Compile.
CompilerCompile(calls, variables, expr, mode, level) ==
    IF ~CompilerBuilds(calls) \/ ~VariablesBuild(variables) THEN <<>>
    ELSE IF ~RunFrontAndLayout(expr, AllDecls(calls), variables) THEN <<>>
    ELSE Compile(expr, AllDecls(calls), mode, level)
=============================================================================
