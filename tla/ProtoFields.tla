----------------------------- MODULE ProtoFields -----------------------------
(***************************************************************************)
(* Writing a CEL value into a field of a protobuf message                  *)
(* (cel_host_set_field.cc) and reading a field back (cel_host_backing.cc). *)
(*                                                                         *)
(* A field has a type, a cardinality and, for scalars, presence or not.    *)
(* The types are those the code tells apart: ten scalars, the wrapper of   *)
(* each, the two times, the JSON types, Any and a plain message.  What a   *)
(* field stores is a scalar, or a message with its type and body; a        *)
(* 32-bit integer has Narrow bits, a float a significand of FloatBits.     *)
(* A write answers with a status: "invalid" ends in a trap, "range" in an  *)
(* error value, "skip" leaves an element out, "clear" empties the field and *)
(* "none" is std::nullopt.  A field that is not set stores <<>>, one that  *)
(* is set <<x>>, and the same for what an Any holds.                       *)
(***************************************************************************)
EXTENDS Equality

CONSTANTS
    Narrow,     \* bits of int32 and uint32
    FloatBits   \* bits of a float's significand

ASSUME FieldAssumption == Narrow \in 2 .. W - 1 /\ FloatBits \in 1 .. P - 1

AString(s) == [kind |-> "string", s |-> s]
ABytes(s)  == [kind |-> "bytes", s |-> s]
NullValue  == [kind |-> "null"]
\* A message on the wire: a handle to the message itself.
AProto(m)  == [kind |-> "message", m |-> m]

Type(t)       == [t |-> t, of |-> ""]
WrapperOf(t)  == [t |-> "wrapper", of |-> t]
Scalars  == {"bool", "int32", "int64", "uint32", "uint64", "float", "double",
             "string", "bytes", "enum"}
Json     == {"Value", "Struct", "ListValue"}
IsMessageType(ty) == ty.t \notin Scalars
Msg(ty, b) == [m |-> ty, b |-> b]

Ok(x)   == [st |-> "ok", x |-> x]
Failed(st) == [st |-> st, x |-> <<>>]
Invalid    == Failed("invalid")
OutOfRange == Failed("range")
Skip       == Failed("skip")
Clear      == Failed("clear")
NoWkt      == Failed("none")

\* A write's value inside a message, and what is tried for a type that is not
\* well known.
Wrapped(ty, r) == IF r.st = "ok" THEN Ok(Msg(ty, r.x)) ELSE r
OrElse(r, alternative) == IF r.st = "none" THEN alternative ELSE r

\* A map entry: the key is written first.
EntryOf(k, v) ==
    IF k.st # "ok" THEN k ELSE IF v.st # "ok" THEN v ELSE Ok([k |-> k.x, v |-> v.x])

\* Writes in order up to the first that fails; what is skipped leaves no trace.
InOrder(rs) ==
    LET bad == {i \in DOMAIN rs : rs[i].st \notin {"ok", "skip"}}
        kept == SelectSeq(rs, LAMBDA r : r.st = "ok")
    IN  IF bad # {} THEN rs[CHOOSE i \in bad : \A j \in bad : i <= j]
        ELSE Ok([i \in DOMAIN kept |-> kept[i].x])

-----------------------------------------------------------------------------
(* Scalars *)

Int32Range == -(2^(Narrow - 1)) .. 2^(Narrow - 1) - 1
CheckInt32Range(n) == n \in Int32Range
CheckUint32Range(n) == n \in 0 .. 2^Narrow - 1

\* (float)d: to nearest, ties to even, what is too large becomes infinite.
FloatSpacing(h) == 2^(CHOOSE e \in 0 .. W + 4 - FloatBits :
                        h < 2^(FloatBits + e) /\ (e = 0 \/ h >= 2^(FloatBits + e - 1)))
ToFloat(d) ==
    LET AtMostInf(r) == IF r >= Inf THEN Inf ELSE r
    IN  IF d \in {Inf, -Inf, NaN} THEN d
        ELSE (IF d < 0 THEN -1 ELSE 1) * AtMostInf(Nearest(Abs(d), FloatSpacing(Abs(d))))

KindOf(t) ==
    CASE t \in {"int32", "int64", "enum"} -> "int"
      [] t \in {"uint32", "uint64"}       -> "uint"
      [] t \in {"float", "double"}        -> "double"
      [] OTHER                            -> t

\* SetScalarIntegerField, SetScalarFloatField and SetStringOrEnumField.
SetScalar(t, v) ==
    IF v.kind # KindOf(t) THEN Invalid
    ELSE IF t \in {"int32", "enum"} /\ ~CheckInt32Range(v.n) THEN OutOfRange
    ELSE IF t = "uint32" /\ ~CheckUint32Range(v.n) THEN OutOfRange
    ELSE Ok(IF t = "float" THEN ADouble(ToFloat(v.n)) ELSE v)

\* The inner field of a wrapper, an element of a repeated field, and both for
\* a native value: the same ladder each time, over again in the code.
SetWrapperInnerValue(t, v) == SetScalar(t, v)
AppendRepeatedScalar(t, v) == SetScalar(t, v)

\* Mutant: the elements of a host list are not checked against 32 bits.
AppendHostUnchecked(t, v) ==
    IF v.kind # KindOf(t) THEN Invalid
    ELSE Ok(IF t = "float" THEN ADouble(ToFloat(v.n))
            ELSE IF t \in {"int32", "enum"}
                   THEN AnInt(((v.n + 2^(Narrow - 1)) % 2^Narrow) - 2^(Narrow - 1))
            ELSE IF t = "uint32" THEN AnUint(v.n % 2^Narrow) ELSE v)
AppendRepeatedHostScalar(t, v) == SetScalar(t, v)
SetHostMapEntryScalar(t, v) == SetScalar(t, v)
SetHostMapEntryKey(t, k) ==
    IF t \in {"float", "double", "bytes", "enum"} THEN Invalid ELSE SetScalar(t, k)

-----------------------------------------------------------------------------
(* Well-known messages *)

\* A message of the field's own type is copied; Any takes every other one.
WriteMessageOrPack(ty, m) ==
    IF m.m = ty THEN Ok(m)
    ELSE IF ty.t = "Any" THEN Ok(Msg(ty, <<m>>))
    ELSE Invalid

RECURSIVE PackCelValueIntoJsonValue(_)

\* Only an arena aggregate is taken.
PackListValue(v) ==
    IF v.kind # "list" \/ v.org # "arena" THEN Invalid
    ELSE Wrapped(Type("ListValue"),
                 InOrder([i \in DOMAIN v.e |-> PackCelValueIntoJsonValue(v.e[i])]))

PackStruct(v) ==
    IF v.kind # "map" \/ v.org # "arena" THEN Invalid
    ELSE Wrapped(Type("Struct"),
                 InOrder([i \in DOMAIN v.e |->
                   EntryOf(IF v.e[i].k.kind = "string" THEN Ok(v.e[i].k) ELSE Invalid,
                           PackCelValueIntoJsonValue(v.e[i].v))]))

\* Integers become doubles.
PackCelValueIntoJsonValue(v) ==
    Wrapped(Type("Value"),
            CASE v.kind \in {"null", "bool", "double", "string"} -> Ok(v)
              [] v.kind \in {"int", "uint"} -> Ok(ADouble(ToDouble(v.n)))
              [] v.kind = "list" -> PackListValue(v)
              [] v.kind = "map"  -> PackStruct(v)
              [] OTHER           -> Invalid)

PackDurationOrTimestamp(ty, v) == Ok(Msg(ty, <<v.s, v.n>>))

\* AnyInnerFqn: integers and bytes keep their kind in a wrapper.
AnyInner(v) ==
    CASE v.kind = "int"   -> WrapperOf("int64")
      [] v.kind = "uint"  -> WrapperOf("uint64")
      [] v.kind = "bytes" -> WrapperOf("bytes")
      [] v.kind = "list"  -> Type("ListValue")
      [] v.kind = "map"   -> Type("Struct")
      [] OTHER            -> Type("Value")

PackAnyFromScalar(v) ==
    LET ty == AnyInner(v)
        Packed(r) == IF r.st = "ok" THEN WriteMessageOrPack(Type("Any"), r.x) ELSE r
    IN  Packed(CASE ty.t = "ListValue" -> PackListValue(v)
                 [] ty.t = "Struct"    -> PackStruct(v)
                 [] ty.t = "Value"     -> PackCelValueIntoJsonValue(v)
                 [] OTHER              -> Wrapped(ty, SetWrapperInnerValue(ty.of, v)))

MaybePackWktMessage(ty, v) ==
    CASE ty.t = "Duration"  -> IF v.kind = "duration" THEN PackDurationOrTimestamp(ty, v) ELSE NoWkt
      [] ty.t = "Timestamp" -> IF v.kind = "timestamp" THEN PackDurationOrTimestamp(ty, v) ELSE NoWkt
      [] ty.t = "Value"     -> PackCelValueIntoJsonValue(v)
      [] ty.t = "Struct"    -> PackStruct(v)
      [] ty.t = "ListValue" -> PackListValue(v)
      [] ty.t = "Any"       -> PackAnyFromScalar(v)
      [] OTHER              -> NoWkt

\* A native element or map value: times only.
MaybePackWktFromHostValue(ty, v) ==
    CASE ty.t = "Duration" /\ v.kind = "duration" ->
           LET d == DecomposeAbslDuration("duration", v.ticks) IN PackDurationOrTimestamp(ty, d)
      [] ty.t = "Timestamp" /\ v.kind = "timestamp" ->
           Ok(Msg(ty, <<v.ticks \div NanosPerSec, v.ticks % NanosPerSec>>))
      [] OTHER -> NoWkt

-----------------------------------------------------------------------------
(* Fields *)

\* SetNestedSingularMessage, and the message arms of elements and entries.
CopyMessage(ty, v) == IF v.kind # "message" THEN Invalid ELSE WriteMessageOrPack(ty, v.m)

\* Null clears the field, except that a JSON value holds it.
SetSingularMessageField(ty, v) ==
    IF v.kind = "null"
      THEN IF ty.t = "Value" THEN PackCelValueIntoJsonValue(v) ELSE Clear
    ELSE IF v.kind = "message" THEN CopyMessage(ty, v)
    ELSE IF ty.t = "wrapper"
      THEN Wrapped(ty, SetWrapperInnerValue(ty.of, v))
    ELSE OrElse(MaybePackWktMessage(ty, v), CopyMessage(ty, v))

AppendRepeatedFromCelValue(ty, v) ==
    IF ~IsMessageType(ty) THEN AppendRepeatedScalar(ty.t, v)
    ELSE IF v.kind = "null" THEN Skip
    ELSE IF v.kind = "message" THEN CopyMessage(ty, v)
    ELSE OrElse(MaybePackWktMessage(ty, v), Invalid)

AppendRepeatedFromHostListValue(ty, v) ==
    IF ~IsMessageType(ty) THEN AppendRepeatedHostScalar(ty.t, v)
    ELSE IF v.kind = "null" THEN Skip
    ELSE OrElse(MaybePackWktFromHostValue(ty, v), CopyMessage(ty, v))

SetRepeatedField(ty, v) ==
    IF v.kind # "list" THEN Invalid
    ELSE InOrder([i \in DOMAIN v.e |->
           IF v.org = "arena" THEN AppendRepeatedFromCelValue(ty, v.e[i])
           ELSE AppendRepeatedFromHostListValue(ty, v.e[i])])

SetArenaMapEntryMessageValue(ty, v) ==
    IF v.kind = "message" THEN CopyMessage(ty, v)
    ELSE OrElse(MaybePackWktMessage(ty, v), Invalid)

InsertArenaMapEntry(kt, ty, en) ==
    IF IsMessageType(ty) /\ en.v.kind = "null" THEN Skip
    ELSE EntryOf(SetScalar(kt, en.k),
                 IF IsMessageType(ty) THEN SetArenaMapEntryMessageValue(ty, en.v)
                 ELSE SetScalar(ty.t, en.v))

SetHostMapEntryValue(ty, v) ==
    IF ~IsMessageType(ty) THEN SetHostMapEntryScalar(ty.t, v)
    ELSE OrElse(MaybePackWktFromHostValue(ty, v), CopyMessage(ty, v))

InsertHostMapEntry(kt, ty, en) ==
    IF IsMessageType(ty) /\ en.v.kind = "null" THEN Skip
    ELSE EntryOf(SetHostMapEntryKey(kt, en.k), SetHostMapEntryValue(ty, en.v))

SetMapField(kt, ty, v) ==
    IF v.kind # "map" THEN Invalid
    ELSE InOrder([i \in DOMAIN v.e |->
           IF v.org = "arena" THEN InsertArenaMapEntry(kt, ty, v.e[i])
           ELSE InsertHostMapEntry(kt, ty, v.e[i])])

\* fd: the field's type, its cardinality, the key type of a map, presence.
DispatchFieldSet(fd, v) ==
    CASE fd.card = "map"      -> SetMapField(fd.key, fd.type, v)
      [] fd.card = "repeated" -> SetRepeatedField(fd.type, v)
      [] OTHER -> IF IsMessageType(fd.type) THEN SetSingularMessageField(fd.type, v)
                  ELSE SetScalar(fd.type.t, v)

-----------------------------------------------------------------------------
(* Reading *)

ZeroOf(t) ==
    CASE KindOf(t) = "int"    -> AnInt(0)
      [] KindOf(t) = "uint"   -> AnUint(0)
      [] KindOf(t) = "double" -> ADouble(0)
      [] KindOf(t) = "bool"   -> ABool(FALSE)
      [] KindOf(t) = "string" -> AString("")
      [] OTHER                -> ABytes("")

\* What protobuf answers for a field nobody set.
DefaultInstance(ty) ==
    CASE ty.t = "wrapper"                  -> Msg(ty, ZeroOf(ty.of))
      [] ty.t \in {"Duration", "Timestamp"} -> Msg(ty, <<0, 0>>)
      [] ty.t \in {"Struct", "ListValue"}   -> Msg(ty, <<>>)
      [] ty.t = "Value"                     -> Msg(ty, NullValue)
      [] ty.t = "Any"                       -> Msg(ty, <<>>)
      [] OTHER                              -> Msg(ty, "default")

GetMessage(ty, x) == IF x = <<>> THEN DefaultInstance(ty) ELSE x[1]

UnpackTimeMessageFields(m) ==
    NativeTime(IF m.m.t = "Timestamp" THEN "timestamp" ELSE "duration",
               m.b[1] * NanosPerSec + m.b[2])

RECURSIVE UnpackJsonValueMessage(_)
UnpackJsonListValue(m) == AList("host", [i \in DOMAIN m.b |-> UnpackJsonValueMessage(m.b[i])])
UnpackJsonStruct(m) ==
    AMap("host", [i \in DOMAIN m.b |-> [k |-> m.b[i].k, v |-> UnpackJsonValueMessage(m.b[i].v)]])
UnpackJsonValueMessage(m) ==
    CASE m.m.t = "Struct"    -> UnpackJsonStruct(m)
      [] m.m.t = "ListValue" -> UnpackJsonListValue(m)
      [] "m" \in DOMAIN m.b  -> UnpackJsonValueMessage(m.b)
      [] OTHER               -> m.b

MaybeUnpackWktMessage(m) ==
    CASE m.m.t = "wrapper"                  -> m.b
      [] m.m.t \in {"Duration", "Timestamp"} -> UnpackTimeMessageFields(m)
      [] m.m.t \in Json                      -> UnpackJsonValueMessage(m)
      [] OTHER                               -> AProto(m)

\* Layer by layer; an Any without a type answers with an error.
RECURSIVE UnpackAnyToValue(_)
UnpackAnyToValue(m) ==
    IF m.b = <<>> THEN AnErr("field_not_found")
    ELSE IF m.b[1].m.t = "Any" THEN UnpackAnyToValue(m.b[1]) ELSE MaybeUnpackWktMessage(m.b[1])

\* ClassifyResolvedField.
ReadClass(fd) ==
    CASE fd.card # "single"      -> fd.card
      [] ~IsMessageType(fd.type) -> "scalar"
      [] fd.type.t \in Json      -> "json"
      [] fd.type.t \in {"wrapper", "Any", "Timestamp", "Duration"} -> fd.type.t
      [] OTHER                   -> "plain"

\* Wrapper and Any fields that are not set are null, the others their default.
ReadClassifiedMessageField(class, ty, x) ==
    CASE class = "wrapper" -> IF x = <<>> THEN NullValue ELSE MaybeUnpackWktMessage(x[1])
      [] class = "Any"     -> IF x = <<>> THEN NullValue ELSE UnpackAnyToValue(x[1])
      [] OTHER             -> MaybeUnpackWktMessage(GetMessage(ty, x))

ReadScalarField(ty, x) ==
    IF IsMessageType(ty) THEN ReadClassifiedMessageField(ReadClass([card |-> "single", type |-> ty]), ty, x)
    ELSE IF x = <<>> THEN ZeroOf(ty.t) ELSE x[1]

ReadRepeatedElement(ty, x) ==
    IF ~IsMessageType(ty) THEN x
    ELSE IF ty.t = "Any" THEN UnpackAnyToValue(x) ELSE MaybeUnpackWktMessage(x)

\* ProtoList and ProtoMap: views of the stored elements.
Stored(x) == IF x = <<>> THEN <<>> ELSE x[1]
ProtoList(fd, x) ==
    AList("host", [i \in DOMAIN Stored(x) |-> ReadRepeatedElement(fd.type, Stored(x)[i])])
ProtoMap(fd, x) ==
    AMap("host", [i \in DOMAIN Stored(x) |->
                    [k |-> Stored(x)[i].k, v |-> ReadScalarField(fd.type, <<Stored(x)[i].v>>)]])

ReadFieldClassified(class, fd, x) ==
    CASE class = "map"      -> ProtoMap(fd, x)
      [] class = "repeated" -> ProtoList(fd, x)
      [] class = "scalar"   -> ReadScalarField(fd.type, x)
      [] OTHER              -> ReadClassifiedMessageField(class, fd.type, x)

\* Mutant: a field is there as soon as it was written.
HasOnceWritten(fd, x) == IF fd.card = "single" THEN x # <<>> ELSE Stored(x) # <<>>

\* HasField: a scalar without presence is there when it is not zero.
ProtoHasFieldResolved(fd, x) ==
    IF fd.card # "single" THEN Stored(x) # <<>>
    ELSE x # <<>> /\ (IsMessageType(fd.type) \/ fd.presence \/ x[1] # ZeroOf(fd.type.t))
=============================================================================
