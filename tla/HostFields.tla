------------------------------ MODULE HostFields ------------------------------
(***************************************************************************)
(* A message literal M{f: v, ...} as the generated code evaluates it       *)
(* (EmitKStructExpr of expr_lower.cc): cel_make_message, one cel_set_field *)
(* (or cel_set_field_at_if_present) per field in order, for a well-known   *)
(* type the tail call that unwraps it; then selections of the fields of    *)
(* the message built and of another one, bound by the host, through access *)
(* sites that remember the descriptor they resolved (cel_host_message.cc). *)
(*                                                                         *)
(* The descriptors are arbitrary: desc says what the fields of the literal *)
(* are and odesc what those of the other message are, under the same       *)
(* names.                                                                  *)
(***************************************************************************)
EXTENDS ProtoFields

CONSTANTS
    Literals,   \* [lit, desc]: the type of the literal and its fields
    Others,     \* [desc, fields]: the other message
    Inputs(_),  \* the values expressions of a field's type evaluate to
    Patterns    \* sets of fields that unknown patterns of the other message name

VARIABLES
    phase,      \* make, build, read, trapped
    lit,        \* the literal: its type and the descriptors of its fields
    slot,       \* the slot of the literal
    fields,     \* the message behind the slot
    written,    \* the field expressions evaluated so far, in order
    other,      \* the other message
    unknowns,   \* the unknown patterns
    sites,      \* per access site: the descriptor and field remembered
    answer      \* the last selection

vars == <<phase, lit, slot, fields, written, other, unknowns, sites, answer>>

Poisoned(v) == v.kind \in {"error", "unknown"}
Names == {"f", "g"}
NoSite == [owner |-> "none", class |-> "none"]
NoAnswer == [q |-> "none", n |-> "f", of |-> "built", v |-> NullValue]
Handle == [kind |-> "message"]

Init ==
    /\ phase = "make" /\ lit \in Literals /\ slot = NullValue
    /\ fields = [n \in Names |-> <<>>] /\ written = <<>>
    /\ other \in Others /\ unknowns \in Patterns
    /\ sites = [n \in Names |-> NoSite] /\ answer = NoAnswer

-----------------------------------------------------------------------------
(* Construction *)

\* known: whether the engine resolved the type when it decoded the module.
CelMakeMessage(known) ==
    /\ phase = "make"
    /\ slot' = IF known THEN Handle ELSE AnErr("type_mismatch")
    /\ phase' = "build"
    /\ UNCHANGED <<lit, fields, written, other, unknowns, sites, answer>>

\* An error stands and every other slot that is no message is refused.
ResolveOwnedSetTarget(s) ==
    IF s.kind = "error" THEN "stands" ELSE IF s.kind = "message" THEN "owned" ELSE "refused"

\* The slot and the field after a write that ended with r.
Outcome(s, r, x) ==
    CASE r.st = "ok"    -> [slot |-> s, x |-> <<r.x>>, trap |-> FALSE]
      [] r.st = "clear" -> [slot |-> s, x |-> <<>>, trap |-> FALSE]
      [] r.st = "range" -> [slot |-> AnErr("overflow"), x |-> x, trap |-> FALSE]
      [] OTHER          -> [slot |-> s, x |-> x, trap |-> TRUE]

\* An error or unknown value takes the slot over.
CelSetFieldImpl(s, fd, v, x) ==
    IF ResolveOwnedSetTarget(s) = "stands" THEN [slot |-> s, x |-> x, trap |-> FALSE]
    ELSE IF ResolveOwnedSetTarget(s) = "refused" THEN [slot |-> s, x |-> x, trap |-> TRUE]
    ELSE IF Poisoned(v) THEN [slot |-> v, x |-> x, trap |-> FALSE]
    ELSE Outcome(s, DispatchFieldSet(fd, v), x)

\* opt is a cell: <<>> is none.  A slot that is no message is left alone.
cel_set_field_at_if_present(s, fd, opt, x) ==
    IF s.kind # "message" \/ opt = <<>> THEN [slot |-> s, x |-> x, trap |-> FALSE]
    ELSE CelSetFieldImpl(s, fd, opt[1], x)

\* The fields are set in the order of the literal.
Pending(n) == phase = "build" /\ n = (IF written = <<>> THEN "f" ELSE "g") /\ Len(written) < 2

Assigned(n, v, optional, r) ==
    /\ slot' = r.slot /\ fields' = [fields EXCEPT ![n] = r.x]
    /\ written' = Append(written, [n |-> n, v |-> v, optional |-> optional])
    /\ phase' = IF r.trap THEN "trapped" ELSE phase
    /\ UNCHANGED <<lit, other, unknowns, sites, answer>>

SetField(n, v) ==
    Pending(n) /\ Assigned(n, <<v>>, FALSE, CelSetFieldImpl(slot, lit.desc[n], v, fields[n]))

SetFieldIfPresent(n, opt) ==
    Pending(n) /\ Assigned(n, opt, TRUE, cel_set_field_at_if_present(slot, lit.desc[n], opt, fields[n]))

\* cel_wkt_unwrap_wrapper and cel_wkt_unwrap_time, on the slot in place.
Unwrapped(m, s) ==
    IF s.kind # "message" THEN s ELSE Encode(MaybeUnpackWktMessage(m))

\* The message behind the slot, when the literal is of a well-known type.
WktMessage ==
    IF lit.type.t = "wrapper" THEN Msg(lit.type, ReadScalarField(lit.desc.f.type, fields.f))
    ELSE Msg(lit.type, <<ReadScalarField(lit.desc.f.type, fields.f).n,
                         ReadScalarField(lit.desc.g.type, fields.g).n>>)

Finish ==
    /\ phase = "build" /\ DOMAIN lit.desc \subseteq {written[i].n : i \in DOMAIN written}
    /\ phase' = "read"
    /\ slot' = IF lit.type.t = "plain" THEN slot ELSE Unwrapped(WktMessage, slot)
    /\ UNCHANGED <<lit, fields, written, other, unknowns, sites, answer>>

-----------------------------------------------------------------------------
(* Selection *)

DescOf(of) == IF of = "built" THEN lit.desc ELSE other.desc
FieldsOf(of) == IF of = "built" THEN fields ELSE other.fields

\* Mutant: among fields of message type the site trusts what it remembers.
SiteWithoutOwner(site, of, n) ==
    LET fresh == [owner |-> of, class |-> ReadClass(DescOf(of)[n])] IN
    IF n \notin DOMAIN DescOf(of) THEN NoSite
    ELSE IF site # NoSite /\ {site.class, fresh.class} \cap {"scalar", "repeated", "map"} = {} THEN site
    ELSE fresh

\* NoSite when the message has no such field: the site keeps what it had.
ResolveFieldThroughSiteCache(site, of, n) ==
    IF site.owner = of THEN site
    ELSE IF n \notin DOMAIN DescOf(of) THEN NoSite
    ELSE [owner |-> of, class |-> ReadClass(DescOf(of)[n])]

\* RunFieldPrelude: the literal is no variable and has no attribute.
Prelude(of, n) ==
    CASE of = "built" /\ Poisoned(slot) -> <<slot>>
      [] of = "built" /\ slot.kind # "message" -> <<AnErr("type_mismatch")>>
      [] of = "other" /\ n \in unknowns -> <<[kind |-> "unknown"]>>
      [] OTHER -> <<>>

\* What a selection does between the prelude and its answer.
Select(q, of, n, missing, Read(_)) ==
    LET pre == Prelude(of, n)
        site == ResolveFieldThroughSiteCache(sites[n], of, n)
    IN  /\ phase = "read"
        /\ sites' = IF pre = <<>> /\ site # NoSite THEN [sites EXCEPT ![n] = site] ELSE sites
        /\ answer' = [q |-> q, n |-> n, of |-> of,
                      v |-> IF pre # <<>> THEN pre[1]
                            ELSE IF site = NoSite THEN missing ELSE Read(site.class)]
        /\ UNCHANGED <<phase, lit, slot, fields, written, other, unknowns>>

CelGetFieldImpl(of, n) ==
    Select("get", of, n, AnErr("field_not_found"),
           LAMBDA class : Encode(ReadFieldClassified(class, DescOf(of)[n], FieldsOf(of)[n])))

CelHasFieldImpl(of, n) ==
    Select("has", of, n, ABool(FALSE),
           LAMBDA class : ABool(ProtoHasFieldResolved(DescOf(of)[n], FieldsOf(of)[n])))

\* No field is listed and no unknown field is kept.
CelMessageIsZeroImpl ==
    /\ phase = "read"
    /\ answer' = [q |-> "zero", n |-> "f", of |-> "built",
         v |-> CASE Poisoned(slot) -> slot
                 [] slot.kind # "message" -> AnErr("type_mismatch")
                 [] OTHER -> ABool(\A n \in DOMAIN lit.desc :
                                    ~ProtoHasFieldResolved(lit.desc[n], fields[n]))]
    /\ UNCHANGED <<phase, lit, slot, fields, written, other, unknowns, sites>>

Next ==
    \/ \E known \in BOOLEAN : CelMakeMessage(known)
    \/ \E n \in DOMAIN lit.desc : \E v \in Inputs(lit.desc[n]) :
         SetField(n, v) \/ SetFieldIfPresent(n, <<v>>)
    \/ \E n \in DOMAIN lit.desc : SetFieldIfPresent(n, <<>>)
    \/ Finish
    \/ \E of \in {"built", "other"}, n \in Names : CelGetFieldImpl(of, n) \/ CelHasFieldImpl(of, n)
    \/ CelMessageIsZeroImpl

Spec == Init /\ [][Next]_vars

-----------------------------------------------------------------------------
(* What a literal means, without the machinery of the host *)

Ticked(v) == [kind |-> v.kind, ticks |-> IF "ticks" \in DOMAIN v THEN v.ticks ELSE Ticks(v)]

\* A value as CEL sees it, wherever its parts live.
RECURSIVE Seen(_)
Seen(v) ==
    CASE v.kind = "list" -> [kind |-> "list", e |-> [i \in DOMAIN v.e |-> Seen(v.e[i])]]
      [] v.kind = "map"  -> [kind |-> "map", e |-> {<<v.e[i].k, Seen(v.e[i].v)>> : i \in DOMAIN v.e}]
      [] v.kind \in {"timestamp", "duration"} -> Ticked(v)
      [] OTHER -> v

RECURSIVE AsJson(_)
AsJson(v) ==
    CASE v.kind \in {"int", "uint"} -> ADouble(ToDouble(v.n))
      [] v.kind = "list" -> [kind |-> "list", e |-> [i \in DOMAIN v.e |-> AsJson(v.e[i])]]
      [] v.kind = "map"  -> [kind |-> "map", e |-> {<<v.e[i].k, AsJson(v.e[i].v)>> : i \in DOMAIN v.e}]
      [] OTHER -> v

Meaning(ty, v) ==
    CASE ty.t = "float" \/ ty.of = "float" -> ADouble(ToFloat(v.n))
      [] ty.t \in Json \/ (ty.t = "Any" /\ v.kind \in {"list", "map"}) -> AsJson(v)
      [] OTHER -> Seen(v)

\* A singular message field that is not set.
Missing(ty) ==
    CASE ~IsMessageType(ty)        -> ZeroOf(ty.t)
      [] ty.t \in {"wrapper", "Any", "Value"} -> NullValue
      [] ty.t = "Duration"         -> [kind |-> "duration", ticks |-> 0]
      [] ty.t = "Timestamp"        -> [kind |-> "timestamp", ticks |-> 0]
      [] ty.t = "ListValue"        -> [kind |-> "list", e |-> <<>>]
      [] ty.t = "Struct"           -> [kind |-> "map", e |-> {}]
      [] OTHER                     -> AProto(Msg(ty, "default"))

\* Null elements of message type are left out.
Kept(ty, v) == ~(IsMessageType(ty) /\ v.kind = "null")
FieldMeaning(fd, o) ==
    LET v == o[1] IN
    CASE fd.card = "repeated" ->
           [kind |-> "list",
            e |-> IF o = <<>> THEN <<>>
                  ELSE LET kept == SelectSeq(v.e, LAMBDA x : Kept(fd.type, x))
                       IN  [i \in DOMAIN kept |-> Meaning(fd.type, kept[i])]]
      [] fd.card = "map" ->
           [kind |-> "map",
            e |-> IF o = <<>> THEN {}
                  ELSE {<<v.e[i].k, Meaning(fd.type, v.e[i].v)>> :
                          i \in {j \in DOMAIN v.e : Kept(fd.type, v.e[j].v)}}]
      [] OTHER -> IF o = <<>> \/ ~Kept(fd.type, v) THEN Missing(fd.type) ELSE Meaning(fd.type, v)

FitsType(ty, v) ==
    LET t == IF ty.t = "wrapper" THEN ty.of ELSE ty.t IN
    /\ t \in {"int32", "enum"} /\ v.kind = "int" => v.n \in Int32Range
    /\ t = "uint32" /\ v.kind = "uint" => v.n \in 0 .. 2^Narrow - 1
FitsField(fd, v) ==
    CASE fd.card = "repeated" -> \A i \in DOMAIN v.e : FitsType(fd.type, v.e[i])
      [] fd.card = "map" -> \A i \in DOMAIN v.e :
                              FitsType(fd.type, v.e[i].v) /\ FitsType(Type(fd.key), v.e[i].k)
      [] OTHER -> FitsType(fd.type, v)

\* What stops the literal at its i-th field: a poisoned value or the range.
Stop(i) ==
    LET o == written[i].v IN
    IF o = <<>> THEN <<>>
    ELSE IF Poisoned(o[1]) THEN o
    ELSE IF ~FitsField(lit.desc[written[i].n], o[1]) THEN <<AnErr("overflow")>> ELSE <<>>

\* Values the checker lets through and the writer refuses.
RECURSIVE NoJson(_)
NoJson(v) ==
    \/ v.kind \in {"bytes", "timestamp", "duration", "message"}
    \/ v.kind \in {"list", "map"} /\ v.org = "host"
    \/ v.kind = "list" /\ \E i \in DOMAIN v.e : NoJson(v.e[i])
    \/ v.kind = "map" /\ \E i \in DOMAIN v.e : v.e[i].k.kind # "string" \/ NoJson(v.e[i].v)
NoPack(ty, v) ==
    \/ ty.t \in Json /\ NoJson(v)
    \/ ty.t = "Any" /\ v.kind \in {"list", "map", "timestamp", "duration"} /\ NoJson(v)
Refused(fd, v) ==
    LET el == CASE fd.card = "repeated" -> {v.e[i] : i \in DOMAIN v.e}
                [] fd.card = "map" -> {v.e[i].v : i \in DOMAIN v.e}
                [] OTHER -> {}
    IN  \/ fd.card = "single" /\ NoPack(fd.type, v)
        \/ \E x \in el : x.kind # "null" /\ x.kind # "message" /\ (fd.type.t = "wrapper" \/ NoPack(fd.type, x))
        \/ /\ v.kind \in {"list", "map"} /\ v.org = "host" /\ fd.type.t \in Json \cup {"Any"}
           /\ \E x \in el : x.kind \notin {"null", "message"}

-----------------------------------------------------------------------------
(* Properties *)

GivenTo(n) ==
    LET at == {i \in DOMAIN written : written[i].n = n} IN
    IF at = {} THEN <<>> ELSE written[CHOOSE i \in at : TRUE].v
Stops == {i \in DOMAIN written : Stop(i) # <<>>}

\* A literal evaluates to its message, to the first error or unknown among
\* its field values, or to an overflow error when an integer does not fit a
\* 32-bit field, singular, element, key or value, whichever side its source
\* lives on; a literal of a wrapper or time type evaluates to the value it
\* wraps.  It traps only for the values Refused lists and after an unknown
\* (CelSetFieldImpl and the tail unwrap calls).
ConstructionExact ==
    /\ phase = "read" =>
         LET unwrapped == IF lit.type.t = "wrapper"
                            THEN FieldMeaning(lit.desc.f, GivenTo("f"))
                          ELSE [kind |-> IF lit.type.t = "Timestamp" THEN "timestamp" ELSE "duration",
                                ticks |-> NanosPerSec * FieldMeaning(lit.desc.f, GivenTo("f")).n
                                            + FieldMeaning(lit.desc.g, GivenTo("g")).n]
         IN  IF slot = AnErr("type_mismatch") THEN fields = [n \in Names |-> <<>>]
             ELSE IF Stops # {}
               THEN slot = Stop(CHOOSE i \in Stops : \A j \in Stops : i <= j)[1]
             ELSE IF lit.type.t = "plain" THEN slot = Handle
             ELSE Seen(slot) = unwrapped
    /\ phase = "trapped" =>
         \/ slot.kind = "unknown"
         \/ LET w == written[Len(written)] IN
            Stops \subseteq {Len(written)} /\ w.v # <<>> /\ Refused(lit.desc[w.n], w.v[1])

\* Selecting a field answers with the value the literal gave it, as its type
\* represents it, and with the other message's own value when the same access
\* site has just served a message of another type (CelGetFieldImpl and its
\* site cache).
SelectionExact ==
    answer.q = "get" =>
        LET n == answer.n IN
        CASE answer.of = "other" /\ n \in unknowns -> answer.v.kind = "unknown"
          [] answer.of = "other" -> IF n \notin DOMAIN other.desc THEN answer.v = AnErr("field_not_found")
                                    ELSE Seen(answer.v) = FieldMeaning(other.desc[n], other.given[n])
          [] slot # Handle -> answer.v = slot \/ ~Poisoned(slot)
          [] n \notin DOMAIN lit.desc -> answer.v = AnErr("field_not_found")
          [] OTHER -> Seen(answer.v) = FieldMeaning(lit.desc[n], GivenTo(n))

\* Whether the field is there, by what was given to it.
Present(fd, o) ==
    /\ o # <<>>
    /\ CASE fd.card = "repeated"    -> FieldMeaning(fd, o).e # <<>>
         [] fd.card = "map"         -> FieldMeaning(fd, o).e # {}
         [] IsMessageType(fd.type)  -> o[1].kind # "null" \/ fd.type.t = "Value"
         [] OTHER -> fd.presence \/ FieldMeaning(fd, o) # ZeroOf(fd.type.t)

\* has() is true of exactly the fields the literal filled: a null clears, an
\* element that is null does not count, a zero counts only with presence; and
\* a message is zero exactly when no field is there (CelHasFieldImpl,
\* CelMessageIsZeroImpl).
PresenceExact ==
    /\ answer.q = "has" /\ answer.of = "built" /\ slot = Handle =>
         answer.v = ABool(answer.n \in DOMAIN lit.desc
                            /\ Present(lit.desc[answer.n], GivenTo(answer.n)))
    /\ answer.q = "has" /\ answer.of = "other" /\ answer.n \notin unknowns =>
         answer.v = ABool(answer.n \in DOMAIN other.desc
                            /\ Present(other.desc[answer.n], other.given[answer.n]))
    /\ answer.q = "zero" /\ slot = Handle =>
         answer.v = ABool(\A n \in DOMAIN lit.desc : ~Present(lit.desc[n], GivenTo(n)))

\* A literal with an unknown field value evaluates to that unknown: it does
\* not trap on its next field (the comment in CelSetFieldImpl).
UnknownIsResult == slot.kind = "unknown" => phase # "trapped"
=============================================================================
