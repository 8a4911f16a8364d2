------------------------------- MODULE Numeric -------------------------------
(***************************************************************************)
(* The numeric kernels of the runtime: arithmetic (cel_arith.c), the       *)
(* comparison ladder and the map-key equality (cel_compare.c), the key     *)
(* hash (cel_map_hash.h), conversions (cel_convert.c), math extensions     *)
(* (cel_math_ext.c) and the decoding of a list index (cel_runtime.c).      *)
(*                                                                         *)
(* The machine is scaled down: integers have W bits instead of 64 and      *)
(* doubles a significand of P bits instead of 53, with W - P >= 2, so that *)
(* integers exist that no double represents.  A double is counted in       *)
(* halves, which is the finest spacing kept: it tells integral values from *)
(* others.  3VL absorption of operands is in module ThreeValued.           *)
(***************************************************************************)
EXTENDS Integers, Sequences, FiniteSets, SequencesExt

CONSTANTS
    W,      \* bits of CEL_INT and CEL_UINT (64 in the code)
    P       \* bits of a double's significand (53 in the code)

ASSUME NumericAssumption == W \in Nat /\ P \in Nat /\ W % 2 = 0 /\ P >= 2 /\ W - P >= 2

IntMax  == 2^(W - 1) - 1
IntMin  == -(2^(W - 1))
UintMax == 2^W - 1

Int64  == IntMin .. IntMax
Uint64 == 0 .. UintMax

\* Doubles, in halves.  Inf is above every finite double, which reach twice
\* beyond the integers; NaN is a code outside their order.
Inf == 2^(W + 3)
NaN == Inf + 1
Finite == UNION {{m * 2^e, -(m * 2^e)} : m \in 0 .. 2^P - 1, e \in 0 .. W + 2 - P}
Doubles == Finite \cup {Inf, -Inf, NaN}

IsNaN(d) == d = NaN
DLess(d, e) == ~IsNaN(d) /\ ~IsNaN(e) /\ d < e
DEq(d, e) == ~IsNaN(d) /\ ~IsNaN(e) /\ d = e

Abs(x) == IF x < 0 THEN -x ELSE x

\* The distance between the doubles around a magnitude of h halves.
Spacing(h) == 2^(CHOOSE e \in 0 .. W + 3 - P :
                    /\ h < 2^(P + e)
                    /\ e = 0 \/ h >= 2^(P + e - 1))

\* A magnitude of h halves at a spacing of s: to nearest, ties to even.
Nearest(h, s) ==
    s * ((h \div s) + IF 2 * (h % s) + ((h \div s) % 2) > s THEN 1 ELSE 0)

\* (double)n.
ToDouble(n) == (IF n < 0 THEN -1 ELSE 1) * Nearest(2 * Abs(n), Spacing(2 * Abs(n)))

\* (int64_t)d and (uint64_t)d of a double within range: toward zero.
Trunc(d) == IF d < 0 THEN -((-d) \div 2) ELSE d \div 2

AnInt(n)    == [kind |-> "int", n |-> n]
AnUint(n)   == [kind |-> "uint", n |-> n]
ADouble(d)  == [kind |-> "double", n |-> d]
ABool(b)    == [kind |-> "bool", b |-> b]
AnErr(code) == [kind |-> "error", err |-> code]

Numbers == {AnInt(n) : n \in Int64} \cup {AnUint(n) : n \in Uint64}
             \cup {ADouble(d) : d \in Doubles}
Numeric(v) == v.kind \in {"int", "uint", "double"}

\* The number a value denotes, in halves; not for NaN.
Exact(v) == IF v.kind = "double" THEN v.n ELSE 2 * v.n
Known(v) == v.kind # "double" \/ ~IsNaN(v.n)

-----------------------------------------------------------------------------
(* cel_arith.c *)

Half == 2^(W \div 2)
Wrap(n) == n % 2^W

\* Mutant: the middle product is not checked for its carry.
UintMulWithoutCarry(a, b) ==
    LET ah == a \div Half  al == a % Half  bh == b \div Half  bl == b % Half
        mid == Wrap(ah * bl + al * bh)
        lo == Wrap(al * bl)
        result == Wrap(lo + Wrap(mid * Half))
    IN  [over |-> (ah # 0 /\ bh # 0) \/ result < lo, r |-> result]

\* uint64_mul_overflows: the product from half-width parts.
uint64_mul_overflows(a, b) ==
    LET ah == a \div Half  al == a % Half  bh == b \div Half  bl == b % Half
        mid == Wrap(ah * bl + al * bh)
        lo == Wrap(al * bl)
        result == Wrap(lo + Wrap(mid * Half))
    IN  [over |-> (ah # 0 /\ bh # 0) \/ mid \div Half # 0 \/ result < lo, r |-> result]

int64_mul_overflows(a, b) ==
    LET up == uint64_mul_overflows(Abs(a), Abs(b)) IN
    IF a = 0 \/ b = 0 THEN [over |-> FALSE, r |-> 0]
    ELSE IF a = IntMin THEN [over |-> b # 1, r |-> IntMin]
    ELSE IF b = IntMin THEN [over |-> a # 1, r |-> IntMin]
    ELSE IF (a < 0) # (b < 0) THEN [over |-> up.over \/ up.r > IntMax + 1, r |-> -up.r]
    ELSE [over |-> up.over \/ up.r > IntMax, r |-> up.r]

\* Division and remainder of C: toward zero.
Quot(a, b) == LET q == Abs(a) \div Abs(b) IN IF (a < 0) # (b < 0) THEN -q ELSE q
Rem(a, b) == a - b * Quot(a, b)

IntArith(op, a, b) ==
    CASE op = "add" -> IF a + b \in Int64 THEN AnInt(a + b) ELSE AnErr("overflow")
      [] op = "sub" -> IF a - b \in Int64 THEN AnInt(a - b) ELSE AnErr("overflow")
      [] op = "mul" -> LET m == int64_mul_overflows(a, b) IN
                       IF m.over THEN AnErr("overflow") ELSE AnInt(m.r)
      [] op = "div" -> IF b = 0 THEN AnErr("divide_by_zero")
                       ELSE IF a = IntMin /\ b = -1 THEN AnErr("overflow")
                       ELSE AnInt(Quot(a, b))
      [] op = "mod" -> IF b = 0 THEN AnErr("modulus_by_zero")
                       ELSE IF a = IntMin /\ b = -1 THEN AnErr("overflow")
                       ELSE AnInt(Rem(a, b))

UintArith(op, a, b) ==
    CASE op = "add" -> IF a + b \in Uint64 THEN AnUint(a + b) ELSE AnErr("overflow")
      [] op = "sub" -> IF a - b \in Uint64 THEN AnUint(a - b) ELSE AnErr("overflow")
      [] op = "mul" -> LET m == uint64_mul_overflows(a, b) IN
                       IF m.over THEN AnErr("overflow") ELSE AnUint(m.r)
      [] op = "div" -> IF b = 0 THEN AnErr("divide_by_zero") ELSE AnUint(a \div b)
      [] op = "mod" -> IF b = 0 THEN AnErr("modulus_by_zero") ELSE AnUint(a % b)

ArithOps == {"add", "sub", "mul", "div", "mod"}

\* The kernels of one kind each: require_kinds refuses everything else.
Arith(op, a, b) ==
    CASE a.kind = "int" /\ b.kind = "int"   -> IntArith(op, a.n, b.n)
      [] a.kind = "uint" /\ b.kind = "uint" -> UintArith(op, a.n, b.n)
      [] OTHER -> AnErr("type_mismatch")

cel_int_neg(v) == IF v.n = IntMin THEN AnErr("overflow") ELSE AnInt(-v.n)

-----------------------------------------------------------------------------
(* cel_compare.c *)

Order(x, y) == IF x < y THEN "less" ELSE IF x > y THEN "greater" ELSE "equal"

cmp_double(d, e) == IF IsNaN(d) \/ IsNaN(e) THEN "nan" ELSE Order(d, e)

cmp_int_vs_uint(a, b) == IF a < 0 THEN "less" ELSE Order(a, b)

\* The integer is rounded to a double, after the doubles beyond its range.
cmp_int_vs_double(a, d) ==
    CASE IsNaN(d)                     -> "nan"
      [] DLess(ToDouble(IntMax), d)   -> "less"
      [] DLess(d, ToDouble(IntMin))   -> "greater"
      [] OTHER                        -> cmp_double(ToDouble(a), d)

cmp_uint_vs_double(a, d) ==
    CASE IsNaN(d)                     -> "nan"
      [] DLess(ToDouble(UintMax), d)  -> "less"
      [] DLess(d, 0)                  -> "greater"
      [] OTHER                        -> cmp_double(ToDouble(a), d)

cmp_flip(r) == CASE r = "less" -> "greater" [] r = "greater" -> "less" [] OTHER -> r

numeric_compare_kernel(a, b) ==
    CASE a.kind = "int" /\ b.kind = "double"    -> cmp_int_vs_double(a.n, b.n)
      [] a.kind = "double" /\ b.kind = "int"    -> cmp_flip(cmp_int_vs_double(b.n, a.n))
      [] a.kind = "uint" /\ b.kind = "double"   -> cmp_uint_vs_double(a.n, b.n)
      [] a.kind = "double" /\ b.kind = "uint"   -> cmp_flip(cmp_uint_vs_double(b.n, a.n))
      [] a.kind = "double" /\ b.kind = "double" -> cmp_double(a.n, b.n)
      [] a.kind = "int" /\ b.kind = "uint"      -> cmp_int_vs_uint(a.n, b.n)
      [] a.kind = "uint" /\ b.kind = "int"      -> cmp_flip(cmp_int_vs_uint(b.n, a.n))
      [] OTHER                                  -> Order(a.n, b.n)

\* cel_numeric_{eq,lt,le,gt,ge}_at_vv.
Accepted == [eq |-> {"equal"}, lt |-> {"less"}, le |-> {"less", "equal"},
             gt |-> {"greater"}, ge |-> {"greater", "equal"}]
Relation(op, a, b) == numeric_compare_kernel(a, b) \in Accepted[op]

\* kMaxDoubleAsInt and kMaxDoubleAsUint: the largest doubles below 2^(W-1)
\* and 2^W, got by rounding an integer half a spacing short of the maximum.
MaxDoubleAsInt  == ToDouble(IntMax - 2^(W - 2 - P))
MaxDoubleAsUint == ToDouble(UintMax - 2^(W - 1 - P))

DoubleAsInt(d, i) ==
    ~IsNaN(d) /\ d >= ToDouble(IntMin) /\ d <= MaxDoubleAsInt
      /\ ToDouble(Trunc(d)) = d /\ Trunc(d) = i
DoubleAsUint(d, u) ==
    ~IsNaN(d) /\ d >= 0 /\ d <= MaxDoubleAsUint
      /\ ToDouble(Trunc(d)) = d /\ Trunc(d) = u

double_matches_integer(d, i) ==
    IF i.kind = "int" THEN DoubleAsInt(d, i.n) ELSE DoubleAsUint(d, i.n)

\* Map keys compare without loss.
cel_numeric_key_eq(a, b) ==
    CASE a.kind = "double" /\ b.kind = "double" -> DEq(a.n, b.n)
      [] a.kind = "double" /\ b.kind # "double" -> double_matches_integer(a.n, b)
      [] a.kind # "double" /\ b.kind = "double" -> double_matches_integer(b.n, a)
      [] OTHER                                  -> numeric_compare_kernel(a, b) = "equal"

-----------------------------------------------------------------------------
(* cel_map_hash.h: the token that cel_mix64 hashes, kept as the token. *)

cel_hash_nonneg_integer(n) == <<IF n <= IntMax THEN "int" ELSE "uint_high", n>>
IntToken(n) == IF n >= 0 THEN cel_hash_nonneg_integer(n) ELSE <<"neg", n>>
Sentinel == <<"sentinel", 0>>

\* Mutant: only the int64 representation of a double is tried.
HashDoubleAsIntOnly(d) ==
    IF ~IsNaN(d) /\ d >= ToDouble(IntMin) /\ d < 2^W /\ ToDouble(Trunc(d)) = d
      THEN IntToken(Trunc(d)) ELSE Sentinel

cel_hash_double_key(d) ==
    IF ~IsNaN(d) /\ d >= ToDouble(IntMin) /\ d < 2^W
      THEN IF ToDouble(Trunc(d)) = d THEN IntToken(Trunc(d)) ELSE Sentinel
      ELSE IF ~IsNaN(d) /\ d >= 0 /\ d < 2^(W + 1) /\ ToDouble(Trunc(d)) = d
             THEN cel_hash_nonneg_integer(Trunc(d)) ELSE Sentinel

NumericKeyHash(v) ==
    CASE v.kind = "int"    -> IntToken(v.n)
      [] v.kind = "uint"   -> cel_hash_nonneg_integer(v.n)
      [] v.kind = "double" -> cel_hash_double_key(v.n)

-----------------------------------------------------------------------------
(* cel_convert.c: numbers *)

cel_double_to_int(v) ==
    IF IsNaN(v.n) \/ v.n <= ToDouble(IntMin) \/ v.n >= 2^W
      THEN AnErr("overflow") ELSE AnInt(Trunc(v.n))

cel_double_to_uint(v) ==
    IF IsNaN(v.n) \/ v.n < 0 \/ v.n >= 2^(W + 1)
      THEN AnErr("overflow") ELSE AnUint(Trunc(v.n))

Convert(to, v) ==
    CASE to = "int" /\ v.kind = "uint"    -> IF v.n > IntMax THEN AnErr("overflow") ELSE AnInt(v.n)
      [] to = "int" /\ v.kind = "double"  -> cel_double_to_int(v)
      [] to = "uint" /\ v.kind = "int"    -> IF v.n < 0 THEN AnErr("overflow") ELSE AnUint(v.n)
      [] to = "uint" /\ v.kind = "double" -> cel_double_to_uint(v)
      [] to = "double" /\ v.kind # "double" -> ADouble(ToDouble(v.n))
      [] OTHER                            -> AnErr("type_mismatch")

(* cel_convert.c: decimal text, a sign and digits; a digit of 10 stands for *)
(* any other character.                                                     *)

Text == [kind : {"text"}, sign : {"", "-", "+"}, digits : Seq(0 .. 10)]

accumulate_u64_decimal(digits) ==
    FoldLeft(LAMBDA acc, d :
               IF ~acc.ok \/ d > 9 \/ acc.n > UintMax \div 10 \/ Wrap(acc.n * 10) > UintMax - d
                 THEN [acc EXCEPT !.ok = FALSE]
                 ELSE [ok |-> TRUE, n |-> Wrap(acc.n * 10) + d],
             [ok |-> TRUE, n |-> 0], digits)

\* Every refusal of the string conversions is reported as an overflow.
cel_string_to_int(t) ==
    LET acc == accumulate_u64_decimal(t.digits) IN
    CASE t.digits = <<>> \/ ~acc.ok -> AnErr("overflow")
      [] t.sign = "-"  -> IF acc.n > IntMax + 1 THEN AnErr("overflow") ELSE AnInt(-acc.n)
      [] OTHER         -> IF acc.n > IntMax THEN AnErr("overflow") ELSE AnInt(acc.n)

\* A minus sign is no digit to parse_uint64_str.
cel_string_to_uint(t) ==
    LET acc == accumulate_u64_decimal(t.digits) IN
    IF t.sign = "-" \/ t.digits = <<>> \/ ~acc.ok THEN AnErr("overflow") ELSE AnUint(acc.n)

\* write_uint_decimal: the digits, least significant first, then reversed.
write_uint_decimal(n) ==
    IF n = 0 THEN <<0>>
    ELSE LET len == CHOOSE k \in 1 .. W : n < 10^k /\ n >= 10^(k - 1)
         IN  Reverse([i \in 1 .. len |-> (n \div 10^(i - 1)) % 10])

\* cel_int_to_string_at_v and cel_uint_to_string_at_v.
ToText(v) ==
    IF v.n < 0 THEN [kind |-> "text", sign |-> "-", digits |-> write_uint_decimal(-v.n)]
    ELSE [kind |-> "text", sign |-> "", digits |-> write_uint_decimal(v.n)]

-----------------------------------------------------------------------------
(* cel_math_ext.c *)

cel_math_abs(v) ==
    CASE v.kind = "int"    -> IF v.n = IntMin THEN AnErr("overflow") ELSE AnInt(Abs(v.n))
      [] v.kind = "uint"   -> v
      [] v.kind = "double" -> IF IsNaN(v.n) THEN v ELSE ADouble(Abs(v.n))

cel_math_sign(v) ==
    LET s == IF v.n < 0 THEN -1 ELSE IF v.n > 0 THEN 1 ELSE 0 IN
    CASE v.kind = "double" -> IF IsNaN(v.n) THEN v ELSE ADouble(2 * s)
      [] OTHER             -> [v EXCEPT !.n = s]

\* Two's complement.
Signed(n) == IF n > IntMax THEN n - 2^W ELSE n
Like(v, n) == IF v.kind = "int" THEN AnInt(Signed(n)) ELSE AnUint(n)

cel_math_bit_not(v) == Like(v, Wrap(-v.n - 1))

Shift(dir, v, by) ==
    IF by.n < 0 THEN AnErr("invalid_argument")
    ELSE IF by.n > W - 1 THEN Like(v, 0)
    ELSE IF dir = "left" THEN Like(v, Wrap(Wrap(v.n) * 2^by.n))
    ELSE Like(v, Wrap(v.n) \div 2^by.n)

math_minmax_replaces(best, cand, greater) ==
    numeric_compare_kernel(best, cand) = IF greater THEN "less" ELSE "greater"

math_minmax_list(list, greater) ==
    FoldLeft(LAMBDA best, e : IF math_minmax_replaces(best, e, greater) THEN e ELSE best,
             Head(list), Tail(list))

-----------------------------------------------------------------------------
(* cel_runtime.c: decode_list_index *)

\* A double of exactly 2^(W-1) passes the range test; its cast to an integer
\* is undefined, and gives the largest integer where the instruction saturates
\* and a trap where it does not.
Cast(d) == IF d = 2^W THEN {AnInt(IntMax), [kind |-> "trap"]} ELSE {AnInt(Trunc(d))}

decode_list_index(v) ==
    CASE v.kind = "int"  -> {v}
      [] v.kind = "uint" -> {IF v.n > IntMax THEN AnErr("index_out_of_bounds") ELSE AnInt(v.n)}
      [] v.kind = "double" ->
           IF IsNaN(v.n) \/ v.n > 2^W \/ v.n < -(2^W) THEN {AnErr("invalid_argument")}
           ELSE {IF c.kind = "int" /\ ToDouble(c.n) # v.n THEN AnErr("invalid_argument") ELSE c :
                   c \in Cast(v.n)}
=============================================================================
