----------------------------- MODULE TimeKernels -----------------------------
(***************************************************************************)
(* Durations and timestamps: cel_time.c, the parse and format edges of     *)
(* cel_time_parse.cc, the time zone accessors of cel_host_time.cc and the  *)
(* encoding of bound times (instance.cc).                                  *)
(*                                                                         *)
(* A time is seconds and a fraction of NanosPerSec parts.  Parsing and      *)
(* arithmetic give both the same sign; a time bound as a message keeps the *)
(* fields of the message, whatever they are.  The ranges are constants, so *)
(* that their limits are within reach; the calendar keeps its real         *)
(* numbers.                                                                *)
(***************************************************************************)
EXTENDS Numeric

CONSTANTS
    NanosPerSec,    \* 10^9 in the code
    NanosPerMilli,  \* 10^6
    TsMin, TsMax,   \* TIMESTAMP_{MIN,MAX}_SECONDS
    DurMax,         \* DURATION_MAX_SECONDS, and -DurMax the minimum
    ArithMax,       \* kMaxAbsSec of arith_duration_in_range
    ArithNanos      \* kMaxBoundaryNs

ASSUME TimeAssumption ==
    /\ NanosPerMilli \in Nat \ {0} /\ NanosPerSec \in {NanosPerMilli * n : n \in 1 .. 1000}
    /\ ArithNanos \in 0 .. NanosPerSec - 1
    /\ TsMin \in Int64 /\ TsMax \in Int64 /\ DurMax \in Int64 /\ ArithMax \in Int64

ATime(kind, s, n) == [kind |-> kind, s |-> s, n |-> n]

\* The instant, or the length, in parts of a second.
Ticks(t) == t.s * NanosPerSec + t.n

WithinSecond(t) == Abs(t.n) < NanosPerSec
SignCorrelated(t) == WithinSecond(t) /\ ~(t.s > 0 /\ t.n < 0) /\ ~(t.s < 0 /\ t.n > 0)

\* The whole seconds that the fraction adds to the seconds field, rounded down:
\* -1 for a parsed fraction before 1970, 0 for that of a Timestamp message.
Carry(t) == t.n \div NanosPerSec

payload_in_range(s, n) ==
    s \in -DurMax .. DurMax /\ ~(s = DurMax /\ n > 0) /\ ~(s = -DurMax /\ n < 0)

timestamp_in_range(s, n) == s \in TsMin .. TsMax /\ ~(s = TsMin /\ n < 0)

arith_duration_in_range(s, n) ==
    /\ s \in -ArithMax .. ArithMax
    /\ ~(s = ArithMax /\ n > ArithNanos) /\ ~(s = -ArithMax /\ n < -ArithNanos)

\* Mutant: the signs are not correlated after the carry.
CombineWithoutSigns(a, b, subtract) ==
    LET s == IF subtract THEN a.s - b.s ELSE a.s + b.s
        n == IF subtract THEN a.n - b.n ELSE a.n + b.n
        carry == IF n >= NanosPerSec THEN 1 ELSE IF n <= -NanosPerSec THEN -1 ELSE 0
    IN  IF s \notin Int64 \/ s + carry \notin Int64 THEN <<>>
        ELSE <<s + carry, n - carry * NanosPerSec>>

\* dur_combine: the carry of the fraction, then the correction of the signs;
\* <<>> where the seconds overflow.
dur_combine(a, b, subtract) ==
    LET s == IF subtract THEN a.s - b.s ELSE a.s + b.s
        n == IF subtract THEN a.n - b.n ELSE a.n + b.n
        carry == IF n >= NanosPerSec THEN 1 ELSE IF n <= -NanosPerSec THEN -1 ELSE 0
        s1 == s + carry
        n1 == n - carry * NanosPerSec
    IN  IF s \notin Int64 \/ s1 \notin Int64 THEN <<>>
        ELSE IF s1 > 0 /\ n1 < 0 THEN <<s1 - 1, n1 + NanosPerSec>>
        ELSE IF s1 < 0 /\ n1 > 0 THEN <<s1 + 1, n1 - NanosPerSec>>
        ELSE <<s1, n1>>

run_arith(a, b, subtract, result) ==
    LET r == dur_combine(a, b, subtract) IN
    IF r = <<>> THEN AnErr("overflow")
    ELSE IF result = "timestamp" /\ ~timestamp_in_range(r[1], r[2]) THEN AnErr("overflow")
    ELSE IF result = "duration" /\ ~arith_duration_in_range(r[1], r[2]) THEN AnErr("overflow")
    ELSE ATime(result, r[1], r[2])

\* The overloads of + and - on times.
TimeArith(o, a, b) ==
    CASE o = "+" /\ a.kind = "duration" /\ b.kind = "duration"   -> run_arith(a, b, FALSE, "duration")
      [] o = "+" /\ {a.kind, b.kind} = {"duration", "timestamp"} -> run_arith(a, b, FALSE, "timestamp")
      [] o = "-" /\ a.kind = b.kind                              -> run_arith(a, b, TRUE, "duration")
      [] o = "-" /\ a.kind = "timestamp" /\ b.kind = "duration"  -> run_arith(a, b, TRUE, "timestamp")
      [] OTHER                                                   -> AnErr("type_mismatch")

dur_compare_lex(a, b) == IF a.s # b.s THEN Order(a.s, b.s) ELSE Order(a.n, b.n)

-----------------------------------------------------------------------------
(* Where times come from *)

\* DecomposeAbslDuration: toward zero, the rest with the sign of the whole.
DecomposeAbslDuration(kind, ticks) ==
    ATime(kind, Quot(ticks, NanosPerSec), Rem(ticks, NanosPerSec))

\* cel_timestamp_parse_at_v, cel_duration_parse_at_v and a bound absl time.
ParseTime(kind, ticks) ==
    LET t == DecomposeAbslDuration(kind, ticks) IN
    IF kind = "timestamp" /\ ~timestamp_in_range(t.s, t.n) THEN AnErr("overflow")
    ELSE IF kind = "duration" /\ ~payload_in_range(t.s, t.n) THEN AnErr("overflow")
    ELSE t

\* TryEncodeWktTimeMessage: a Timestamp or Duration message is copied field by
\* field, neither normalised nor checked against the range.
TryEncodeWktTimeMessage(kind, seconds, nanos) == ATime(kind, seconds, nanos)

IntToTime(kind, i) ==
    IF kind = "timestamp" /\ ~timestamp_in_range(i, 0) THEN AnErr("overflow")
    ELSE IF kind = "duration" /\ ~payload_in_range(i, 0) THEN AnErr("overflow")
    ELSE ATime(kind, i, 0)

-----------------------------------------------------------------------------
(* The calendar *)

SecondsPerDay == 86400

split_days(seconds) ==
    LET d == Quot(seconds, SecondsPerDay)
        r == seconds - d * SecondsPerDay
    IN  IF r < 0 THEN <<d - 1, r + SecondsPerDay>> ELSE <<d, r>>

is_leap_year(y) == y % 4 = 0 /\ (y % 100 # 0 \/ y % 400 = 0)

DaysBeforeMonth(y) ==
    IF is_leap_year(y) THEN <<0, 31, 60, 91, 121, 152, 182, 213, 244, 274, 305, 335>>
    ELSE <<0, 31, 59, 90, 120, 151, 181, 212, 243, 273, 304, 334>>

\* cel_civil_from_seconds, the part that turns a day into a date.
CivilFromDays(days) ==
    LET z == days + 719468
        era == Quot(IF z >= 0 THEN z ELSE z - 146096, 146097)
        doe == z - era * 146097
        yoe == (doe - doe \div 1460 + doe \div 36524 - doe \div 146096) \div 365
        doy == doe - (365 * yoe + yoe \div 4 - yoe \div 100)
        mp == (5 * doy + 2) \div 153
        m == IF mp < 10 THEN mp + 3 ELSE mp - 9
        y == yoe + era * 400 + IF m <= 2 THEN 1 ELSE 0
        d == doy - (153 * mp + 2) \div 5 + 1
    IN  [year |-> y, month_0 |-> m - 1, day_1 |-> d,
         day_of_year |-> DaysBeforeMonth(y)[m] + d - 1,
         day_of_week |-> (Rem(days, 7) + 4 + 7) % 7]

TimeOfDay(s) == [hour |-> s \div 3600, minute |-> (s % 3600) \div 60, second |-> s % 60]

\* cel_civil_from_seconds, of the seconds field alone.
cel_civil_from_seconds(seconds) ==
    [date |-> CivilFromDays(split_days(seconds)[1]), clock |-> TimeOfDay(split_days(seconds)[2])]

\* The milliseconds within the second; the fraction of an instant before 1970
\* counts up from the second below it.
cel_ts_milliseconds_utc(t) ==
    Quot(IF t.n < 0 THEN t.n + NanosPerSec ELSE t.n, NanosPerMilli)

\* The ten UTC accessors, and int() of a timestamp.
TsAccessors(t) ==
    [kind |-> "fields", at |-> cel_civil_from_seconds(t.s), ms |-> cel_ts_milliseconds_utc(t),
     int |-> t.s]

\* cel_dur_{hours,minutes,seconds,milliseconds}_at_v and int() of a duration.
DurAccessors(t) ==
    [kind |-> "fields", hours |-> Quot(t.s, 3600), minutes |-> Quot(t.s, 60), seconds |-> t.s,
     ms |-> Quot(t.n, NanosPerMilli), int |-> t.s]

-----------------------------------------------------------------------------
(* The accessors with a time zone (cel_host_time.cc) *)

MonthLength(y, m) ==
    (IF m = 12 THEN IF is_leap_year(y) THEN 366 ELSE 365 ELSE DaysBeforeMonth(y)[m + 1])
      - DaysBeforeMonth(y)[m]

\* The day of a date, counted from 1970-01-01.
DayNumber(y, m, d) ==
    LET p == y - 1 IN
    365 * p + p \div 4 - p \div 100 + p \div 400 + DaysBeforeMonth(y)[m] + d - 1 - 719162

\* absl's civil time, which is the calendar's.
AbslCivil(seconds) ==
    LET n == seconds \div SecondsPerDay
        years == (1969 + n \div 366) .. (1971 + n \div 365)
        date == CHOOSE x \in years \X (1 .. 12) \X (1 .. 31) :
                    DayNumber(x[1], x[2], x[3]) = n /\ x[3] <= MonthLength(x[1], x[2])
    IN  [date |-> [year |-> date[1], month |-> date[2], day |-> date[3],
                   year_day |-> n - DayNumber(date[1], 1, 1) + 1, weekday |-> (n + 3) % 7],
         clock |-> TimeOfDay(seconds % SecondsPerDay)]

\* absl::LoadTimeZone: the offset of a name at the instant, none if unknown.
LoadTimeZone(z) == z.offsets

\* "UTC", "+hh:mm" or a name; the offsets in seconds, none when it is refused.
ResolveTimeZone(z) ==
    CASE z.form = "utc"   -> {0}
      [] z.form = "hh:mm" -> IF z.h > 23 \/ z.m > 59 THEN {}
                             ELSE {z.sign * (3600 * z.h + 60 * z.m)}
      [] OTHER            -> LoadTimeZone(z)

\* absl counts months, days and days of the year from 1 and weekdays from
\* Monday; getMonth, getDayOfYear and getDayOfWeek from 0 and from Sunday.
ProjectCivilFields(a, t) ==
    [kind |-> "fields", ms |-> cel_ts_milliseconds_utc(t),
     at |-> [date |-> [year |-> a.date.year, month_0 |-> a.date.month - 1, day_1 |-> a.date.day,
                       day_of_year |-> a.date.year_day - 1,
                       day_of_week |-> (a.date.weekday + 1) % 7],
             clock |-> a.clock]]

\* CelTimestampTzAccessorImpl: the fields of the instant.
TzAccessors(t, z) ==
    IF ResolveTimeZone(z) = {} THEN AnErr("invalid_argument")
    ELSE LET offset == CHOOSE o \in ResolveTimeZone(z) : TRUE IN
         ProjectCivilFields(AbslCivil(Ticks(t) \div NanosPerSec + offset), t)
=============================================================================
