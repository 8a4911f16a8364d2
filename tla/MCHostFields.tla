---------------------------- MODULE MCHostFields ----------------------------
(* Every type of field in every cardinality, one next to a plain int32.   *)
EXTENDS HostFields

MCTsMin == -7

FD(ty, card) == [type |-> ty, card |-> card, key |-> "string", presence |-> FALSE]
Plain == Type("plain")
Types == {Type(t) : t \in Scalars} \cup {WrapperOf("int32"), WrapperOf("float")}
           \cup {Type(t) : t \in Json \cup {"Duration", "Timestamp", "Any"}} \cup {Plain}

FieldDescs ==
    {FD(ty, card) : ty \in Types, card \in {"single", "repeated", "map"}}
      \cup {[FD(Type("int32"), "map") EXCEPT !.key = "int32"],
            [FD(Type("int32"), "single") EXCEPT !.presence = TRUE]}

Second == FD(Type("int32"), "single")

MCLiterals ==
    {[type |-> Plain, desc |-> [f |-> fd, g |-> Second]] : fd \in FieldDescs}
      \cup {[type |-> WrapperOf(t), desc |-> [f |-> FD(Type(t), "single")]] : t \in {"int32", "float", "string"}}
      \cup {[type |-> Type(t), desc |-> [f |-> FD(Type("int64"), "single"), g |-> Second]] :
              t \in {"Timestamp", "Duration"}}

AMsg == AProto(Msg(Plain, "m"))
Times(kind) == {ATime(kind, 1, 1), ATime(kind, -1, -1), ATime(kind, 0, -1)}

\* Values of one element.
Ints(t) == {AnInt(n) : n \in {0, 3, -5, 4}}
JsonValues ==
    {NullValue, ABool(TRUE), AnInt(7), ADouble(3), AString("a"), ABytes("a"),
     AList("arena", <<AnInt(1), NullValue>>), AList("host", <<AnInt(1)>>)}
Maps == {AMap("arena", <<[k |-> AString("a"), v |-> AList("arena", <<AnInt(1)>>)]>>),
         AMap("arena", <<[k |-> AnInt(1), v |-> AnInt(1)]>>),
         AMap("host", <<[k |-> AString("a"), v |-> AnInt(1)]>>)}
ElementsOf(ty) ==
    LET t == IF ty.t = "wrapper" THEN ty.of ELSE ty.t
        null == IF IsMessageType(ty) THEN {NullValue} ELSE {}
    IN  null \cup
        (CASE t \in {"int32", "int64", "enum"} -> {AnInt(n) : n \in {0, 3, -5, 4}}
           [] t \in {"uint32", "uint64"} -> {AnUint(n) : n \in {0, 7, 8}}
           [] t \in {"float", "double"}  -> {ADouble(d) : d \in {0, 3, -6, NaN}}
           [] t = "bool"      -> {ABool(TRUE), ABool(FALSE)}
           [] t = "string"    -> {AString("a"), AString("")}
           [] t = "bytes"     -> {ABytes("a")}
           [] t = "Duration"  -> Times("duration")
           [] t = "Timestamp" -> Times("timestamp")
           [] t = "ListValue" -> {x \in JsonValues : x.kind = "list"}
           [] t = "Struct"    -> Maps
           [] t = "Value"     -> JsonValues \cup Maps
           [] t = "Any"       -> JsonValues \cup Maps \cup Times("duration") \cup {AMsg}
           [] OTHER           -> {AMsg})

\* The same element as a host list or map holds it.
Native(v) == IF v.kind \in {"timestamp", "duration"} THEN NativeTime(v.kind, Ticks(v)) ELSE v
Poison == {[kind |-> "unknown"], AnErr("divide_by_zero")}
KeyOf(fd, i) == IF fd.key = "int32" THEN AnInt(IF i = 1 THEN 1 ELSE -5) ELSE AString(IF i = 1 THEN "a" ELSE "b")

InputsOf(fd) ==
    LET el == ElementsOf(fd.type)
        seqs == {<<>>} \cup {<<x>> : x \in el} \cup {<<x, y>> : x \in {NullValue} \cap el, y \in el}
        maps == {[i \in DOMAIN s |-> [k |-> KeyOf(fd, i), v |-> s[i]]] : s \in seqs}
    IN  CASE fd.card = "single"   -> el
          [] fd.card = "repeated" -> {AList("arena", s) : s \in seqs}
                                       \cup {AList("host", [i \in DOMAIN s |-> Native(s[i])]) : s \in seqs}
          [] fd.card = "map" -> {AMap("arena", s) : s \in maps}
                \cup {AMap("host", [i \in DOMAIN s |-> [s[i] EXCEPT !.v = Native(s[i].v)]]) : s \in maps}

MCInputs(fd) == IF fd = Second THEN {AnInt(0), AnInt(4)} \cup Poison ELSE InputsOf(fd) \cup Poison

\* A message of another type: f is an optional wrapper, and g is missing.
MCOthers == {[desc |-> [f |-> FD(WrapperOf("int32"), "single")],
              fields |-> [f |-> <<>>, g |-> <<>>], given |-> [f |-> <<>>]]}
MCPatterns == {{}, {"f"}}
=============================================================================
