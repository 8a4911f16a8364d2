------------------------------ MODULE HostCall ------------------------------
(***************************************************************************)
(* A call of a custom function: the trampoline decodes the slots of the    *)
(* arguments into what the C++ callable takes, runs it, and encodes its    *)
(* answer (engine.cc, host_call_context.cc, typed_function.h).             *)
(*                                                                         *)
(* A slot holds [kind, v].  Lists and maps live in the arena or behind a   *)
(* host handle and hold their elements, which are no aggregates here.  A   *)
(* status that is not OK is a trap: [kind |-> "trap"].                     *)
(***************************************************************************)
EXTENDS Integers, Sequences, FiniteSets

Trap == [kind |-> "trap", v |-> "none"]
Cell(kind, v) == [kind |-> kind, v |-> v]

IsList(x) == x.kind \in {"list_arena", "list_host"}
IsMap(x) == x.kind \in {"map_arena", "map_host"}

-----------------------------------------------------------------------------
(* Slots to values *)

\* A scalar, a time, a type or a message: the value is what the slot says.
DecodeElement(x) ==
    IF x.kind = "optional" THEN Trap ELSE x

\* DecodeArenaList and DecodeHostList, for maps too: the elements in order;
\* the first that does not decode is the answer.
DecodeAggregate(kind, x) ==
    IF \E i \in DOMAIN x.v : DecodeElement(x.v[i]) = Trap THEN Trap
    ELSE Cell(kind, [i \in DOMAIN x.v |-> DecodeElement(x.v[i])])

DecodeCelValue(x) ==
    CASE IsList(x) -> DecodeAggregate("list", x)
      [] IsMap(x)  -> DecodeAggregate("map", x)
      [] OTHER     -> DecodeElement(x)

\* The accessors that take one kind.
ArgOfKind(kind, x) == IF x.kind = kind THEN x ELSE Trap

\* Views: the elements are decoded when the callable asks for them.
ArgList(x) == IF IsList(x) THEN Cell("list", x.v) ELSE Trap
ArgMap(x) == IF IsMap(x) THEN Cell("map", x.v) ELSE Trap

\* A string_view takes a string, then bytes.
ArgStringOrBytes(x) == IF ArgOfKind("string", x) # Trap THEN x ELSE ArgOfKind("bytes", x)

ArgProto(x) == ArgOfKind("message", x)

\* A const M& casts: v of a message slot is the name of its type.
ArgTrait(kind, M, x) ==
    CASE kind \in {"bool", "int", "uint", "double", "duration", "timestamp"} -> ArgOfKind(kind, x)
      [] kind = "string_view" -> ArgStringOrBytes(x)
      [] kind = "list_view"   -> ArgList(x)
      [] kind = "map_view"    -> ArgMap(x)
      [] kind = "message_ptr" -> ArgProto(x)
      [] kind = "proto"       -> IF ArgProto(x) # Trap /\ x.v = M THEN x ELSE Trap
      [] kind = "value"       -> DecodeCelValue(x)

\* Which C++ parameter a declared kind may be bound to; null has none but Value.
CppParamMatchesDeclType(cpp, decl) ==
    \/ cpp = "value"
    \/ decl \in {"bool", "int", "uint", "double", "duration", "timestamp"} /\ cpp = decl
    \/ decl \in {"string", "bytes"} /\ cpp = "string_view"
    \/ decl = "list" /\ cpp = "list_view"
    \/ decl = "map" /\ cpp = "map_view"
    \/ decl = "message" /\ cpp \in {"proto", "message_ptr"}

-----------------------------------------------------------------------------
(* The call *)

\* The first error, or else the first unknown, is the answer; the callable
\* does not run.
AbsorbUnknownOrErrorArg(args) ==
    LET at(kind) == {i \in DOMAIN args : args[i].kind = kind}
        first(S) == args[CHOOSE i \in S : \A j \in S : i <= j]
    IN  IF at("error") # {} THEN <<first(at("error"))>>
        ELSE IF at("unknown") # {} THEN <<first(at("unknown"))>> ELSE <<>>

Abort == [kind |-> "abort", v |-> "none"]

\* Aggregates are interned behind a host handle; strings and bytes need the
\* arena; unknowns and types must not come here.
EncodeValueToSlot(x, oom) ==
    CASE x.kind \in {"list", "map"}        -> Cell(IF x.kind = "list" THEN "list_host" ELSE "map_host", x.v)
      [] x.kind \in {"string", "bytes"}    -> IF oom THEN Trap ELSE x
      [] x.kind \in {"unknown", "type"}    -> Abort
      [] OTHER                             -> x

\* An unknown keeps its attributes, in a set made in the arena.
ReturnValue(x, oom) ==
    IF x.kind # "unknown" THEN EncodeValueToSlot(x, oom)
    ELSE IF oom THEN Trap ELSE x

\* A callable is [kinds, M, answer]: its parameters, the message type of its
\* const M& parameters and what it returns (Trap: a status that is not OK).
\* oom: the arena is full when its answer is encoded.
InvokeTyped(fn, args, oom) ==
    IF \E i \in DOMAIN fn.kinds : i \notin DOMAIN args \/ ArgTrait(fn.kinds[i], fn.M, args[i]) = Trap THEN Trap
    ELSE ReturnValue(fn.answer, oom)

HostCallbackTrampoline(fn, args, oom) ==
    LET absorbed == AbsorbUnknownOrErrorArg(args) IN
    IF absorbed # <<>> THEN absorbed[1] ELSE InvokeTyped(fn, args, oom)
=============================================================================
