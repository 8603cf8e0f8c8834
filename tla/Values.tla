------------------------------- MODULE Values -------------------------------
(***************************************************************************)
(* The values of a row (vm/value.cpp).  A value has a type and its data, a *)
(* sequence of integers: a number is a fraction in lowest terms, a text is *)
(* its characters, a Boolean 0 or 1.  Doubles are exact, so rounding and   *)
(* overflow are left out, and so is the overflow of int64.                 *)
(***************************************************************************)
EXTENDS Integers, Sequences

Null == [t |-> "Null", v |-> << >>]
MakeInt(i) == [t |-> "Int", v |-> <<i, 1>>]
MakeBool(b) == [t |-> "Bool", v |-> IF b THEN <<1>> ELSE <<0>>]
MakeText(s) == [t |-> "Text", v |-> s]

Abs(i) == IF i < 0 THEN -i ELSE i

\* n / d in lowest terms, d # 0.
MakeDouble(n, d) ==
    LET sign == IF d < 0 THEN -1 ELSE 1
        g == CHOOSE k \in 1 .. Abs(d) :
                /\ n % k = 0 /\ Abs(d) % k = 0
                /\ \A j \in (k + 1) .. Abs(d) : ~(n % j = 0 /\ Abs(d) % j = 0)
    IN  [t |-> "Double", v |-> <<(sign * n) \div g, Abs(d) \div g>>]

IsNull(a) == a.t = "Null"
IsNumeric(a) == a.t \in {"Int", "Double"}
Num(a) == a.v[1]
Den(a) == a.v[2]
AsDouble(a) == MakeDouble(Num(a), Den(a))
IsTrue(a) == a = MakeBool(TRUE)

\* Division in C++ drops the fraction; % takes the sign of its left side.
Truncated(n, d) == LET q == Abs(n) \div Abs(d) IN IF (n < 0) = (d < 0) THEN q ELSE -q
Remainder(n, d) == n - d * Truncated(n, d)

\* std::string::compare: the first difference decides, then the length.
TextOrder(s, r) ==
    LET differ == {i \in DOMAIN s \cap DOMAIN r : s[i] # r[i]}
        first == CHOOSE i \in differ : \A j \in differ : i <= j
    IN  IF differ # {} THEN s[first] - r[first] ELSE Len(s) - Len(r)

Sign(i) == CASE i < 0 -> -1 [] i = 0 -> 0 [] OTHER -> 1

\* An optional result is a set of at most one element; here it is {} for NULL
\* and for types that do not compare.
CompareValues(a, b) ==
    CASE IsNumeric(a) /\ IsNumeric(b) -> {Sign(Num(a) * Den(b) - Num(b) * Den(a))}
      [] a.t = "Bool" /\ b.t = "Bool" -> {a.v[1] - b.v[1]}
      [] a.t = "Text" /\ b.t = "Text" -> {Sign(TextOrder(a.v, b.v))}
      [] OTHER -> {}

TypeRank == [Null |-> 0, Int |-> 1, Bool |-> 2, Text |-> 3, Double |-> 4]

\* The order of sorting, of indexes, MIN and MAX: total, NULL first.
ValueLess(a, b) ==
    CASE IsNull(a) \/ IsNull(b) -> IsNull(a) /\ ~IsNull(b)
      [] IsNumeric(a) /\ IsNumeric(b) -> CompareValues(a, b) = {-1}
      [] a.t # b.t -> TypeRank[a.t] < TypeRank[b.t]
      [] OTHER -> CompareValues(a, b) = {-1}

\* Decimal digits, as character codes.
Decimal(i) ==
    LET digits[n \in Nat] == IF n < 10 THEN <<48 + n>>
                             ELSE Append(digits[n \div 10], 48 + (n % 10))
    IN  IF i < 0 THEN <<45>> \o digits[-i] ELSE digits[i]

\* Value::toString.  A Double prints six significant digits; the fractions the
\* instances use have at most one digit behind the point.
ToString(a) ==
    CASE a.t = "Null" -> <<78, 85, 76, 76>>
      [] a.t = "Int" -> Decimal(Num(a))
      [] a.t = "Bool" -> IF IsTrue(a) THEN <<84, 82, 85, 69>>
                         ELSE <<70, 65, 76, 83, 69>>
      [] a.t = "Text" -> a.v
      [] OTHER ->
            LET tenths == (Abs(Num(a)) * 10) \div Den(a)
            IN  (IF Num(a) < 0 THEN <<45>> ELSE << >>)
                \o Decimal(tenths \div 10) \o <<46>> \o Decimal(tenths % 10)
=============================================================================
