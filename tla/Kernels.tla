------------------------------- MODULE Kernels -------------------------------
(***************************************************************************)
(* Calls of the runtime's scalar kernels: the operands are in slots, any   *)
(* kernel is called on them, and its result is what the next expression    *)
(* reads.  Each property compares the results with the mathematical        *)
(* definition of the operation.                                            *)
(***************************************************************************)
EXTENDS Equality

CONSTANTS
    Operands,   \* the numbers the operand slots hold
    Triples,    \* numbers of which every list of three is tried
    Texts,      \* the strings that are parsed
    Moments,    \* the instants and lengths of the times, in parts of a second
    Fields,     \* <<seconds, nanos>> of the time messages that are bound
    Years,      \* the years whose days are converted
    Clocks,     \* the seconds of the day at which they are
    Lengths,    \* the durations, in seconds, whose fields are read
    Zones,      \* the time zones that are asked for
    Contents    \* what the compared values hold, whichever their origin

VARIABLES
    op,     \* the kernel called
    args,   \* its operands
    out     \* its result, or "none" before the call

vars == <<op, args, out>>

\* The times that reach a slot: parsed or bound as absl values, converted from
\* integers, and bound as Timestamp and Duration messages.
Times ==
    {t \in {ParseTime(k, x) : k \in {"timestamp", "duration"}, x \in Moments}
             \cup {IntToTime(k, i) : k \in {"timestamp", "duration"}, i \in Int64}
             \cup {TryEncodeWktTimeMessage(k, f[1], f[2]) :
                      k \in {"timestamp", "duration"}, f \in Fields} :
       t.kind # "error"}

Dates == {[kind |-> "date", y |-> y, m |-> m, d |-> d] : y \in Years, m \in 1 .. 12, d \in 1 .. 31}

\* Whether a host backing can hold it: no optionals and no types.
RECURSIVE Holdable(_)
Holdable(c) ==
    CASE c.kind = "list" -> \A i \in DOMAIN c.e : Holdable(c.e[i])
      [] c.kind = "map"  -> \A i \in DOMAIN c.e : Holdable(c.e[i].v)
      [] OTHER           -> c.kind \notin {"optional", "type"}

\* A content as a host backing holds it, and all the ways it can reach a slot.
RECURSIVE Native(_), Forms(_)
Native(c) ==
    CASE c.kind = "list" -> AList("host", [i \in DOMAIN c.e |-> Native(c.e[i])])
      [] c.kind = "map"  ->
           AMap("host", [i \in DOMAIN c.e |-> [k |-> c.e[i].k, v |-> Native(c.e[i].v)]])
      [] OTHER           -> c

\* A time in a slot: as it is encoded, or with the fields of a message, whose
\* fraction may carry a second either way.
TimeForms(c) ==
    LET floor == c.ticks \div NanosPerSec IN
    {Encode(c)} \cup
    {TryEncodeWktTimeMessage(c.kind, s, c.ticks - s * NanosPerSec) : s \in floor - 1 .. floor + 1}

Selections(D, S(_)) == {f \in [D -> UNION {S(i) : i \in D}] : \A i \in D : f[i] \in S(i)}

Forms(c) ==
    (IF Holdable(c) THEN {Encode(Native(c))} ELSE {}) \cup
    CASE c.kind = "list" ->
           {AList("arena", s) : s \in Selections(DOMAIN c.e, LAMBDA i : Forms(c.e[i]))}
      [] c.kind = "map" ->
           {AMap("arena", [i \in DOMAIN c.e |-> [k |-> c.e[i].k, v |-> s[i]]]) :
              s \in Selections(DOMAIN c.e, LAMBDA i : Forms(c.e[i].v))}
      [] c.kind = "optional" ->
           {AnOptional(s) : s \in Selections(DOMAIN c.c, LAMBDA i : Forms(c.c[i]))}
      [] c.kind \in {"timestamp", "duration"} -> TimeForms(c)
      [] OTHER -> {Encode(c)}

Pair(v, w) == [kind |-> "pair", v |-> v, w |-> w]

Init ==
    /\ op = "none" /\ out = [kind |-> "none"]
    /\ args \in {<<a, b>> : a \in Operands, b \in Operands}
                  \cup {<<a, b, c>> : a \in Triples, b \in Triples, c \in Triples}
                  \cup {<<t>> : t \in Texts}
                  \cup {<<t, u>> : t \in Times, u \in Times}
                  \cup {<<Pair(v, w)>> : v \in UNION {Forms(c) : c \in Contents},
                                        w \in UNION {Forms(c) : c \in Contents}}
                  \cup {<<ATime("duration", s, n)>> : s \in Lengths, n \in -1 .. 1}
                  \cup {<<t>> : t \in {u \in Times : u.kind = "duration"}}
                  \cup {<<x>> : x \in {y \in Dates : y.d <= MonthLength(y.y, y.m)}}

DayOf(x) == DayNumber(x.y, x.m, x.d)
IsTime(v) == v.kind \in {"timestamp", "duration"}
Binary == Len(args) = 2 /\ ~IsTime(args[1]) /\ op = "none"
BinaryTime == Len(args) = 2 /\ IsTime(args[1]) /\ op = "none"
Call(name, result) == op' = name /\ out' = result /\ UNCHANGED args

DoArith == Binary /\ \E o \in ArithOps : Call(o, Arith(o, args[1], args[2]))

DoCompare ==
    /\ Binary
    /\ \E o \in {"eq", "lt", "le", "gt", "ge"} : Call(o, ABool(Relation(o, args[1], args[2])))

DoKeyEq == Binary /\ Call("key_eq", ABool(cel_numeric_key_eq(args[1], args[2])))

DoConvert ==
    /\ Binary
    /\ \E to \in {"int", "uint", "double"} :
         args[1].kind # to /\ Call(to, Convert(to, args[1]))

DoText ==
    /\ Binary /\ args[1].kind # "double"
    /\ Call("text", IF args[1].kind = "int" THEN cel_string_to_int(ToText(args[1]))
                    ELSE cel_string_to_uint(ToText(args[1])))

DoParse ==
    /\ Len(args) = 1 /\ op = "none" /\ args[1].kind = "text"
    /\ \/ Call("parse_int", cel_string_to_int(args[1]))
       \/ Call("parse_uint", cel_string_to_uint(args[1]))

DoMath ==
    /\ Binary
    /\ \/ Call("abs", cel_math_abs(args[1]))
       \/ Call("sign", cel_math_sign(args[1]))
       \/ args[1].kind # "double" /\ Call("not", cel_math_bit_not(args[1]))
       \/ /\ args[1].kind # "double" /\ args[2].kind = "int"
          /\ \E dir \in {"left", "right"} : Call(dir, Shift(dir, args[1], args[2]))
       \/ args[1].kind = "int" /\ Call("neg", cel_int_neg(args[1]))

DoMinMax ==
    /\ Len(args) = 3 /\ op = "none"
    /\ \/ Call("max", math_minmax_list(args, TRUE))
       \/ Call("min", math_minmax_list(args, FALSE))

DoIndex == Binary /\ \E r \in decode_list_index(args[1]) : Call("index", r)

DoTimeArith == BinaryTime /\ \E o \in {"+", "-"} : Call(o, TimeArith(o, args[1], args[2]))

DoTimeCompare ==
    /\ BinaryTime /\ args[1].kind = args[2].kind
    /\ Call("time_cmp", [kind |-> "order", is |-> dur_compare_lex(args[1], args[2])])

\* Of the days whose seconds TLC can count, the time of day too.
NearDays == -24000 .. 24000

DoCivil ==
    /\ Len(args) = 1 /\ op = "none" /\ args[1].kind = "date"
    /\ \/ Call("day", [kind |-> "date", date |-> CivilFromDays(DayOf(args[1]))])
       \/ \E s \in Clocks :
            /\ DayOf(args[1]) \in NearDays
            /\ Call("civil", [kind |-> "civil", s |-> s,
                              is |-> cel_civil_from_seconds(SecondsPerDay * DayOf(args[1]) + s)])

\* An accessor has one operand: the pairs of equal times stand for it.
DoAccessor ==
    /\ BinaryTime /\ args[1].kind = "timestamp" /\ args[1] = args[2]
    /\ \/ Call("utc", TsAccessors(args[1]))
       \/ \E z \in Zones : Call("zone", [kind |-> "zoned", z |-> z, is |-> TzAccessors(args[1], z)])

DoDurAccessor ==
    /\ Len(args) = 1 /\ op = "none" /\ args[1].kind = "duration"
    /\ Call("length", DurAccessors(args[1]))

IsPair == Len(args) = 1 /\ op = "none" /\ args[1].kind = "pair"

DoEquals ==
    /\ IsPair
    /\ \/ Call("==", cel_equals(args[1].v, args[1].w))
       \/ Call("!=", cel_not_equals(args[1].v, args[1].w))

DoIn ==
    /\ IsPair /\ args[1].w.kind = "list"
    /\ Call("in", ABool(cel_list_in(args[1].v, args[1].w)))

DoConcat ==
    /\ IsPair /\ args[1].v.kind = "list" /\ args[1].w.kind = "list"
    /\ Call("concat", cel_list_concat(args[1].v, args[1].w))

Next ==
    \/ DoEquals \/ DoIn \/ DoConcat
    \/ DoTimeArith \/ DoTimeCompare \/ DoCivil \/ DoAccessor \/ DoDurAccessor
    \/ DoArith \/ DoCompare \/ DoKeyEq \/ DoConvert \/ DoText \/ DoParse
    \/ DoMath \/ DoMinMax \/ DoIndex

Spec == Init /\ [][Next]_vars

-----------------------------------------------------------------------------
\* The value of a text, as a number without bounds; -1 for what is no number.
ValueOf(digits) ==
    FoldLeft(LAMBDA n, d : IF n < 0 \/ d > 9 THEN -1 ELSE n * 10 + d, 0, digits)

\* The exact result of an integer operation on its operands.
Math(o, a, b) ==
    CASE o = "add" -> a + b [] o = "sub" -> a - b [] o = "mul" -> a * b
      [] o = "div" -> Quot(a, b) [] o = "mod" -> Rem(a, b)

Range64(kind) == IF kind = "int" THEN Int64 ELSE Uint64

\* Integer arithmetic gives the exact result if it fits, and an error if it
\* does not: the product assembled from half words loses no carry.  Shifts and
\* complement keep the low W bits.
ArithExact ==
    Len(args) = 2 /\ args[1].kind # "double" =>
      LET a == args[1].n  b == args[2].n  k == args[1].kind
          Is(n) == out = IF n \in Range64(k) THEN [kind |-> k, n |-> n] ELSE AnErr("overflow")
          Low(n) == out.kind = k /\ out.n \in Range64(k) /\ (out.n - n) % 2^W = 0
          by == 2^(IF b > W THEN W ELSE b)
      IN
      /\ op \in ArithOps /\ args[2].kind = k =>
           IF op \in {"div", "mod"} /\ b = 0 THEN out.kind = "error" /\ out.err # "overflow"
           ELSE IF op = "mod" /\ Quot(a, b) \notin Range64(k) THEN out = AnErr("overflow")
           ELSE Is(Math(op, a, b))
      /\ op = "neg" => Is(-a)
      /\ op = "abs" => Is(IF a < 0 THEN -a ELSE a)
      /\ op = "not" => Low(-a - 1)
      /\ op = "left" /\ b >= 0 => Low(a * by)
      /\ op = "right" /\ b >= 0 => Low((a % 2^W) \div by)

\* The comparison of two numbers of any kinds never inverts their exact order:
\* rounding may only make different numbers equal, and it makes two numbers of
\* one kind, or two integers, equal only when they are.
CompareKeepsOrder ==
    op \in {"eq", "lt", "le", "gt", "ge"} =>
      LET a == args[1]  b == args[2]
          x == Exact(a)  y == Exact(b) IN
      IF ~Known(a) \/ ~Known(b) THEN out = ABool(FALSE)
      ELSE /\ x = y => out.b = (op \in {"eq", "le", "ge"})
           /\ x < y => (op = "le" => out.b) /\ (op = "gt" => ~out.b)
           /\ y < x => (op = "ge" => out.b) /\ (op = "lt" => ~out.b)
           /\ (a.kind = "double") = (b.kind = "double") /\ op = "eq" => out.b = (x = y)

\* Two map keys are equal exactly when they are the same number, so that key
\* equality is transitive at every magnitude, and equal keys have equal hashes:
\* a key that a scan of the entries finds, the index finds.
KeyEqualityExact ==
    op = "key_eq" =>
      /\ out.b = (Known(args[1]) /\ Known(args[2]) /\ Exact(args[1]) = Exact(args[2]))
      /\ out.b => NumericKeyHash(args[1]) = NumericKeyHash(args[2])

\* A conversion between numeric kinds gives the number truncated toward zero,
\* or the nearest double, or an error; never an integer that wrapped.
ConversionsInRange ==
    /\ op \in {"int", "uint"} /\ out.kind # "error" =>
         /\ out.kind = op /\ out.n \in Range64(op)
         /\ out.n = (IF args[1].kind = "double" THEN Trunc(args[1].n) ELSE args[1].n)
    /\ op \in {"int", "uint"} /\ out.kind = "error" =>
         \/ ~Known(args[1])
         \/ Exact(args[1]) \notin 2 * IntMin + 1 .. 2 * IntMax + 1 \/ Exact(args[1]) < 0
    /\ op = "double" => \A d \in Finite : Abs(out.n - Exact(args[1])) <= Abs(d - Exact(args[1]))

\* Parsing accepts exactly the decimal numbers in range, whatever their length
\* and leading zeros, and parsing what was formatted gives the number back.
TextIsExact ==
    /\ op = "text" => out = args[1]
    /\ op \in {"parse_int", "parse_uint"} =>
         LET t == args[1]
             v == ValueOf(t.digits)
             k == IF op = "parse_int" THEN "int" ELSE "uint"
             n == IF t.sign = "-" THEN -v ELSE v
         IN  IF t.digits # <<>> /\ v >= 0 /\ n \in Range64(k) /\ (k = "uint" => t.sign # "-")
               THEN out = [kind |-> k, n |-> n] ELSE out = AnErr("overflow")

\* No element of a list of mixed kinds compares above its maximum or below its
\* minimum, although equality after rounding is not transitive.
ExtremeBoundsList ==
    op \in {"max", "min"} /\ (\A i \in 1 .. 3 : Known(args[i])) =>
      \A i \in 1 .. 3 :
        numeric_compare_kernel(args[i], out) # IF op = "max" THEN "greater" ELSE "less"

\* Adding and subtracting times gives the exact instant or length, whatever the
\* fields of the operands.  If their fractions are less than a second, of either
\* sign, the signs of the result are correlated and it is an error exactly when
\* it is out of range; the fraction of a message may be more, and one carry is
\* made then.
TimeArithExact ==
    op \in {"+", "-"} /\ ~(out.kind = "error" /\ out.err = "type_mismatch") =>
      LET x == Ticks(args[1]) + (IF op = "+" THEN 1 ELSE -1) * Ticks(args[2])
          isTs == {args[1].kind, args[2].kind} = {"timestamp", "duration"}
          limit == ArithMax * NanosPerSec + ArithNanos
          inRange == IF isTs THEN x \in TsMin * NanosPerSec .. (TsMax + 1) * NanosPerSec - 1
                     ELSE x \in -limit .. limit
      IN  /\ IF IsTime(out) THEN Ticks(out) = x ELSE out = AnErr("overflow")
          /\ WithinSecond(args[1]) /\ WithinSecond(args[2]) =>
               IsTime(out) = inRange /\ (inRange => SignCorrelated(out))

\* Times compare as the instants they denote, with one exception: fractions that
\* carry differently, of times closer than that difference.  The time with the
\* smaller carry is then the later one, whatever the instants: a parsed fraction
\* before 1970 is after every fraction of the same second, itself included, that
\* is bound as a Timestamp message.
TimeOrderExact ==
    op = "time_cmp" =>
      LET a == args[1]  b == args[2]
          Floor(t) == Ticks(t) \div NanosPerSec
      IN  IF Abs(Floor(a) - Floor(b)) < Abs(Carry(a) - Carry(b))
            THEN out.is = IF Carry(a) < Carry(b) THEN "greater" ELSE "less"
            ELSE out.is = Order(Ticks(a), Ticks(b))

\* The fields of a second are the calendar's: across centuries, leap days, the
\* ends of the 400-year eras, before 1970 and at both ends of a day.
CivilExact ==
    LET IsDate(date) ==
            /\ date.year = args[1].y /\ date.month_0 = args[1].m - 1 /\ date.day_1 = args[1].d
            /\ date.day_of_year = DayOf(args[1]) - DayOf([args[1] EXCEPT !.m = 1, !.d = 1])
            /\ date.day_of_week = (DayOf(args[1]) + 4) % 7
        IsClock(clock, s) ==
            /\ clock.hour \in 0 .. 23 /\ clock.minute \in 0 .. 59 /\ clock.second \in 0 .. 59
            /\ 3600 * clock.hour + 60 * clock.minute + clock.second = s
    IN  /\ op = "day" => IsDate(out.date)
        /\ op = "civil" => IsDate(out.is.date) /\ IsClock(out.is.clock, out.s)

\* An index that is accepted is the number the operand denotes, an integer; the
\* one exception is the double 2^(W-1), which gives the largest integer.
IndexExact ==
    op = "index" /\ out.kind = "int" =>
      Exact(args[1]) = 2 * out.n \/ (out.n = IntMax /\ args[1] = ADouble(2^W))

\* The instant, in seconds, at which a clock in UTC shows these fields.
SecondOf(at) ==
    SecondsPerDay * DayNumber(at.date.year, at.date.month_0 + 1, at.date.day_1)
      + 3600 * at.clock.hour + 60 * at.clock.minute + at.clock.second

\* The accessors that are given a zone show the second of the instant, rounded
\* down and moved by the zone's offset, of which the sign is that of hours and
\* minutes, and with the UTC accessor the milliseconds above it; a zone that does
\* not exist is an error.  The UTC accessors show that second exactly if the
\* fraction carries none; a parsed fraction before 1970 carries one, and they
\* show the second after the one absl::ToCivilSecond and zone "UTC" show.  int()
\* is the instant truncated toward zero exactly if the signs are correlated.
UtcFieldsOfInstant ==
    op \in {"utc", "zone"} =>
    LET t == args[1]
        floor == Ticks(t) \div NanosPerSec
        Millis(r) == WithinSecond(t) => r.ms = (Ticks(t) % NanosPerSec) \div NanosPerMilli
    IN
    /\ op = "utc" =>
         /\ (SecondOf(out.at) = floor) = (Carry(t) = 0)
         /\ SecondOf(out.at) = floor - Carry(t)
         /\ (out.int = Quot(Ticks(t), NanosPerSec)) = SignCorrelated(t)
         /\ Millis(out)
    /\ op = "zone" =>
         LET z == out.z  r == out.is IN
         IF r.kind = "error"
           THEN \/ z.form = "name" /\ z.offsets = {}
                \/ z.form = "hh:mm" /\ (z.h >= 24 \/ z.m >= 60)
           ELSE /\ SecondOf(r.at) =
                      floor + CASE z.form = "utc"  -> 0
                                [] z.form = "name" -> CHOOSE o \in z.offsets : TRUE
                                [] OTHER           -> 60 * (60 * z.sign * z.h + z.sign * z.m)
                /\ Millis(r)
                /\ r.at.date.day_of_week = (SecondOf(r.at) \div SecondsPerDay + 4) % 7
                /\ DayNumber(r.at.date.year, 1, 1) + r.at.date.day_of_year
                     = SecondOf(r.at) \div SecondsPerDay

\* The fields of a duration are the whole units of its length, toward zero, if
\* its signs are correlated: truncating its seconds field is truncating the
\* length.  Of a message whose signs are not, the seconds are never the length's.
LengthExact ==
    op = "length" =>
      LET x == Ticks(args[1]) IN
      /\ (out.seconds = Quot(x, NanosPerSec)) = SignCorrelated(args[1])
      /\ out.int = out.seconds
      /\ SignCorrelated(args[1]) =>
           /\ out.hours = Quot(x, 3600 * NanosPerSec) /\ out.minutes = Quot(x, 60 * NanosPerSec)
           /\ out.ms = Quot(Rem(x, NanosPerSec), NanosPerMilli)

\* What a value holds, whichever its origin: lists and maps without their
\* origins, times as instants, and what their fraction carries beside it.
RECURSIVE Content(_)
Content(v) ==
    CASE v.kind = "list" ->
           AList("any", [i \in DOMAIN v.e |-> Content(Elements(v)[i])])
      [] v.kind = "map" ->
           AMap("any", [i \in DOMAIN v.e |->
                          [k |-> v.e[i].k, v |-> Content(Entries(v)[i].v)]])
      [] v.kind = "optional" -> AnOptional([i \in DOMAIN v.c |-> Content(v.c[i])])
      [] IsTime(v) -> [kind |-> v.kind, ticks |-> Ticks(v), carry |-> Carry(v)]
      [] OTHER -> v

\* One instant written with fractions that carry differently.
Split(c, d) == c.ticks = d.ticks /\ c.carry # d.carry

SameKey(k, l) == IF Numeric(k) /\ Numeric(l) THEN Exact(k) = Exact(l) ELSE k = l

RECURSIVE ContentEq(_, _)
ContentEq(c, d) ==
    CASE Numeric(c) /\ Numeric(d) -> numeric_compare_kernel(c, d) = "equal"
      [] c.kind = "list" /\ d.kind = "list" ->
           Len(c.e) = Len(d.e) /\ \A i \in DOMAIN c.e : ContentEq(c.e[i], d.e[i])
      [] c.kind = "map" /\ d.kind = "map" ->
           /\ \A i \in DOMAIN c.e : \E j \in DOMAIN d.e :
                SameKey(c.e[i].k, d.e[j].k) /\ ContentEq(c.e[i].v, d.e[j].v)
           /\ \A j \in DOMAIN d.e : \E i \in DOMAIN c.e : SameKey(c.e[i].k, d.e[j].k)
      [] c.kind = "optional" /\ d.kind = "optional" ->
           Len(c.c) = Len(d.c) /\ \A i \in DOMAIN c.c : ContentEq(c.c[i], d.c[i])
      [] c.kind = "message" /\ d.kind = "message" -> CompareProtoMessages(c, d) = "equal"
      [] IsTime(c) /\ IsTime(d) -> c.kind = d.kind /\ c.ticks = d.ticks /\ ~Split(c, d)
      [] OTHER -> c.kind = d.kind /\ c = d

\* == and != of lists, maps and scalars depend on what they hold and not on
\* where they live, at any depth of nesting: the arena kernels and the host's
\* walks are one relation.  Times are the exception, and exactly the split ones:
\* one instant before 1970 with a fraction, parsed and bound as a Timestamp
\* message, is not equal to itself.  Only messages that cannot be compared,
\* outside a list or map, give an error.
EqualityOfContents ==
    LET v == args[1].v  w == args[1].w IN
    /\ op \in {"==", "!="} =>
         IF out.kind = "error"
           THEN v.kind \in {"message", "optional"} /\ v.kind = w.kind
           ELSE out = ABool(ContentEq(Content(v), Content(w)) = (op = "=="))
    /\ op = "concat" => Content(out).e = Content(v).e \o Content(w).e

\* v in l answers what comparing v with each element by == answers, whichever
\* scan is chosen and wherever the list lives.  The exception are the timestamps
\* with a fraction before 1970 in a host list, which the scan rounds down and ==
\* does not: v is found exactly if it is bound as that Timestamp message, which
\* == tells from the element, and never if == says that it is the element.
MembershipIsEquality ==
    op = "in" =>
      LET v == args[1].v  l == args[1].w
          Rounded(e) == e.kind = "timestamp" /\ e.ticks < 0 /\ e.ticks % NanosPerSec # 0
          AsMessage(e) == ATime("timestamp", e.ticks \div NanosPerSec, e.ticks % NanosPerSec)
          Found(i) == IF l.org = "host" /\ Rounded(l.e[i]) THEN v = AsMessage(l.e[i])
                      ELSE cel_equals(v, Elements(l)[i]) = ABool(TRUE)
      IN  out.b = \E i \in DOMAIN l.e : Found(i)

\* Numbers: arithmetic (cel_arith.c), conversions and parsing (cel_convert.c)
\* and list indexes (cel_runtime.c) are exact or an error.
NumbersExact == ArithExact /\ ConversionsInRange /\ TextIsExact /\ IndexExact

\* Order: comparisons (cel_compare.c), the equality and the hash of map keys
\* (cel_map_hash.h) and math.least/greatest (cel_math_ext.c) agree with the
\* order of the exact numbers.
OrderExact == CompareKeepsOrder /\ KeyEqualityExact /\ ExtremeBoundsList

\* Times (cel_time.c, cel_host_time.cc, instance.cc:821-845): sums are those of
\* the instants and lengths denoted, for every form a slot can hold; order and
\* fields are, except exactly where the fraction carries a second.
TimesExact == TimeArithExact /\ TimeOrderExact /\ CivilExact /\ UtcFieldsOfInstant /\ LengthExact

\* Equality, membership and concatenation (cel_compare.c, cel_host_eq.cc,
\* cel_host_list.cc) depend only on what the values hold, except exactly for
\* the times before 1970 with a fraction, of which the form shows.
EqualityExact == EqualityOfContents /\ MembershipIsEquality
=============================================================================
