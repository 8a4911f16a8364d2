---------------------------- MODULE Declarations ----------------------------
(***************************************************************************)
(* Custom functions as the embedder declares them, to the compiler and     *)
(* again, in another process perhaps, to the engine                        *)
(* (compiler/celfn/function_library.cc, compiler/compiler.cc).  The two    *)
(* sides meet through one name, the overload id synthesised from the       *)
(* function's name and the kinds of its parameters, so what matters of a   *)
(* name is where it splits: f(int) and f_int() are both f_int, and         *)
(* message a.b and message a_b are both message_a_b.                       *)
(*                                                                         *)
(* A type is its constructors in prefix order: <<"list", "int">>,          *)
(* <<"map", "string", "message", "a.b">>.  A function name, like an        *)
(* overload id, is the sequence of its pieces between underscores.         *)
(***************************************************************************)
EXTENDS Integers, Sequences, FiniteSets, SequencesExt

CONSTANTS
    Split,       \* the pieces of a message name
    ByteValues,  \* how many values a uint8_t has
    MaxArity,    \* the largest wasm arity an import can be given
    Builtins,    \* the overload ids of the standard library and their functions
    Params       \* by function of the runtime or the host: how many i32 it takes

ASSUME DeclarationBounds ==
    /\ ByteValues \in Nat \ {0} /\ MaxArity \in Nat
    /\ \A m \in DOMAIN Split : Split[m] \in Seq(STRING)

ASSUME BuiltinsAssumption ==
    \A b \in DOMAIN Builtins : Builtins[b] \in DOMAIN Params /\ Params[Builtins[b]] \in 1..MaxArity

\* A declaration.  this: the positions that carry the receiver modifier.
Fn(name, params, this, ret) == [fn |-> name, params |-> params, this |-> this, ret |-> ret]
Declaration == [fn : Seq(STRING), params : Seq(Seq(STRING)), this : SUBSET Nat, ret : Seq(STRING)]

TypesOf(d) == {d.ret} \cup ToSet(d.params)

-----------------------------------------------------------------------------
(* FunctionLibrary *)

ArgkindSlug(t) == FlattenSeq([i \in DOMAIN t |-> IF t[i] \in DOMAIN Split THEN Split[t[i]] ELSE <<t[i]>>])

SynthesiseOverloadId(d) == d.fn \o FlattenSeq([i \in DOMAIN d.params |-> ArgkindSlug(d.params[i])])

\* The parameters and the out slot, in a uint8_t.
num_args(d) == (Len(d.params) + 1) % ByteValues

ValidateThisPlacement(d) == d.this \subseteq {1}

IsLegalMapKeyKind(k) == k \in {"bool", "int", "uint", "string"}

\* In prefix order a key follows its "map", however deep the map is.
FirstIllegalMapKey(t) == \E i \in DOMAIN t : t[i] = "map" /\ ~IsLegalMapKeyKind(t[i + 1])

CheckUniversalDeclShape(d) == \A t \in TypesOf(d) : ~FirstIllegalMapKey(t)

\* FunctionLibrary::Builder::Build.
LibraryBuilds(decls) ==
    \A i \in DOMAIN decls :
        /\ ValidateThisPlacement(decls[i])
        /\ \A j \in 1..(i - 1) : SynthesiseOverloadId(decls[j]) # SynthesiseOverloadId(decls[i])
        /\ CheckUniversalDeclShape(decls[i])

\* The grammar of the text form has no `type` and no `optional`.
Spelled(d) == \A t \in TypesOf(d) : ToSet(t) \cap {"type", "optional"} = {}

ParseCelfnSource(decls) == (\A i \in DOMAIN decls : Spelled(decls[i])) /\ LibraryBuilds(decls)

-----------------------------------------------------------------------------
(* Compiler::Builder.  A call is [via, decls]: DeclareFunctions of a       *)
(* library built by hand ("api"; one that does not build is never passed)  *)
(* or AddFunction of a text ("text").                                      *)

FindUnmappableType(t) == ToSet(t) \cap {"type", "optional"} # {}

ValidateDeclTypesMappable(d) == \A t \in TypesOf(d) : ~FindUnmappableType(t)

\* A text that does not parse is remembered until Build: the first one wins.
DeferredStatus(calls) == \E i \in DOMAIN calls : calls[i].via = "text" /\ ~ParseCelfnSource(calls[i].decls)

AllDecls(calls) == FlattenSeq([i \in DOMAIN calls |-> calls[i].decls])

CompilerBuilds(calls) ==
    LET ds == AllDecls(calls) IN
    /\ ~DeferredStatus(calls)
    /\ \A i \in DOMAIN ds :
         /\ \A j \in 1..(i - 1) : SynthesiseOverloadId(ds[j]) # SynthesiseOverloadId(ds[i])
         /\ ValidateDeclTypesMappable(ds[i])

-----------------------------------------------------------------------------
(* The overload table: the standard library first, then the customs.       *)

\* InferHelperArity knows the parameters of each helper.
SeedBuiltins ==
    {[id |-> b, module |-> "cel", helper |-> Builtins[b], arity |-> Params[Builtins[b]]] : b \in DOMAIN Builtins}

\* AppendCustoms: no shadowing, and arity at least 1 (a smaller one aborts).
OverloadTableBuilds(ds) ==
    \A i \in DOMAIN ds : SynthesiseOverloadId(ds[i]) \notin DOMAIN Builtins /\ num_args(ds[i]) >= 1

\* A custom function is imported under its id.
OverloadTable(ds) ==
    SeedBuiltins \cup
    {[id |-> SynthesiseOverloadId(ds[i]), module |-> "cel_fn",
      helper |-> SynthesiseOverloadId(ds[i]), arity |-> num_args(ds[i])] : i \in DOMAIN ds}

Lookup(table, id) == {row \in table : row.id = id}

-----------------------------------------------------------------------------
(* A row of the cel.abi section: the declaration on the wire.              *)

RequiredFunctionFromDecl(d) ==
    [id |-> SynthesiseOverloadId(d), backend |-> "host", params |-> d.params,
     ret |-> d.ret, receiver |-> 1 \in d.this /\ d.params # <<>>]

\* TypeEquals compares whole types, messages by full name.
SignaturesAgree(row, registered) ==
    /\ row.receiver = registered.receiver
    /\ Len(row.params) = Len(registered.params)
    /\ \A i \in DOMAIN row.params : row.params[i] = registered.params[i]
    /\ row.ret = registered.ret
=============================================================================
