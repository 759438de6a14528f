------------------------------ MODULE DataTypes ------------------------------
(***************************************************************************)
(* The values of cplus_data (data.c) and what C does to them: casts,       *)
(* memory images, printf and sscanf.  A byte has Radix values instead of   *)
(* 256 and every type keeps its size in bytes, so an int8 is one digit,    *)
(* an int64 eight of them.  A float is a mantissa of all its bytes but     *)
(* one and an exponent of base Radix^3; its value is counted in quarters.  *)
(* A half stands for the fractions that the six decimals of %f show, a     *)
(* quarter for the smaller ones, which a text rounds away.  Characters are *)
(* never spelled out: a text is its form and the number it shows.          *)
(***************************************************************************)
EXTENDS Integers, Sequences, FiniteSetsExt

CONSTANT Radix            \* how many values a byte has

\* All that is used of the 256 values of a real byte: they halve into the negative
\* numbers and the others, and they are enough for a float whose exponent is a byte
\* to reach every int64, as a real float does.
ASSUME RadixAssumption == Radix \in Nat /\ Radix >= 4 /\ Radix % 2 = 0

SignedTypes == {"INT8", "INT16", "INT32", "INT64"}
UnsignedTypes == {"UINT8", "UINT16", "UINT32", "UINT64"}
IntTypes == SignedTypes \cup UnsignedTypes
FloatTypes == {"FLOAT", "DOUBLE"}
BufferTypes == {"STRING", "BYTE_ARRAY"}
ScalarTypes == {"BOOL", "POINTER"} \cup IntTypes \cup FloatTypes
DataTypes == {"NULL"} \cup ScalarTypes \cup BufferTypes

\* sizeof, the value cplus_data_get_data_size gives for a scalar.
Size == [t \in ScalarTypes |->
          CASE t \in {"BOOL", "INT8", "UINT8"} -> 1
            [] t \in {"INT16", "UINT16"} -> 2
            [] t \in {"INT32", "UINT32", "FLOAT"} -> 4
            [] OTHER -> 8]

Power[k \in Nat] == IF k = 0 THEN 1 ELSE Radix * Power[k - 1]
Modulus(t) == Power[Size[t]]

Lo(t) == IF t \in SignedTypes \cup {"POINTER"} THEN -(Modulus(t) \div 2) ELSE 0
Hi(t) == Lo(t) + Modulus(t) - 1

\* An integer conversion keeps the low bytes.
Wrap(t, n) == ((n - Lo(t)) % Modulus(t)) + Lo(t)

Saturate(t, n) == IF n < Lo(t) THEN Lo(t) ELSE IF n > Hi(t) THEN Hi(t) ELSE n

---------------------------------------------------------------------------
\* Floating point

Unit(e) == Power[3 * e]
MantissaLimit(t) == (Modulus(t) \div Radix) \div 2
AbsVal(n) == IF n < 0 THEN -n ELSE n
Sign(n) == IF n < 0 THEN -1 ELSE 1

\* The exponent a value of h quarters is stored with.
Exponent(t, h) ==
  LET fits == {e \in 0..Radix-1 : AbsVal(h) \div Unit(e) < MantissaLimit(t)}
  IN IF fits = {} THEN Radix - 1 ELSE Min(fits)

\* The nearest value of floating type t to h quarters.
Nearest(t, h) ==
  LET unit == Unit(Exponent(t, h))
  IN Sign(h) * ((AbsVal(h) + (unit \div 2)) \div unit) * unit

\* Truncation towards zero, of a number counted in quarters.
Truncate(h) == Sign(h) * (AbsVal(h) \div 4)

\* The number that %f and %lf show: the nearest of six decimals, a tie to even.
SixDecimals(h) ==
  LET k == AbsVal(h) \div 2
  IN IF AbsVal(h) % 2 = 0 THEN h ELSE Sign(h) * 2 * (k + (k % 2))

\* Casting a float to an integer that cannot hold it is undefined: the
\* builds in use keep low bytes, saturate, or yield the "indefinite" integer.
CastFloat(t, h) ==
  LET n == Truncate(h)
  IN IF n \in Lo(t)..Hi(t) THEN {n}
     ELSE {Wrap(t, n), Saturate(t, n), Wrap(t, Lo("INT32")), Wrap(t, Lo("INT64"))}

\* The value v of scalar type s, counted in quarters.
Quarters(s, v) == IF s \in FloatTypes THEN v ELSE 4 * v

\* (t)(v) for a value v of scalar type s: the outcomes the build can produce.
Cast(t, s, v) ==
  CASE t = "BOOL" -> {IF v # 0 THEN 1 ELSE 0}
    [] t \in FloatTypes -> {Nearest(t, Quarters(s, v))}
    [] t \in IntTypes \cup {"POINTER"} /\ s \in FloatTypes -> CastFloat(t, v)
    [] OTHER -> {Wrap(t, v)}

---------------------------------------------------------------------------
\* Memory images, lowest byte first

Digits(n, k) == [i \in 1..k |-> (n \div Power[i - 1]) % Radix]
Number(s) ==
  LET sum[k \in 0..Len(s)] == IF k = 0 THEN 0 ELSE sum[k - 1] + s[k] * Power[k - 1]
  IN sum[Len(s)]

\* The bytes of v as scalar type t.
Image(t, v) ==
  IF t \in FloatTypes
  THEN LET e == Exponent(t, v)
           m == Sign(v) * (AbsVal(v) \div Unit(e))
       IN Append(Digits(m % (Modulus(t) \div Radix), Size[t] - 1), e)
  ELSE Digits(v % Modulus(t), Size[t])

\* The value of type t that the bytes s are the image of.
FromImage(t, s) ==
  IF t \in FloatTypes
  THEN LET n == Number(SubSeq(s, 1, Size[t] - 1)) % (Modulus(t) \div Radix)
           m == IF n < MantissaLimit(t) THEN n ELSE n - (2 * MantissaLimit(t))
       IN m * Unit(s[Size[t]] % Radix)
  ELSE Wrap(t, Number(s))

---------------------------------------------------------------------------
\* Texts: "dec" shows an integer, "fix" a number of quarters with six decimals,
\* "hex" a pointer; "raw" is any other text of n characters.

Text(form, n) == [form |-> form, n |-> n]
NoText == Text("none", 0)
Empty == Text("raw", 0)
True == Text("true", 0)
False == Text("false", 0)

CountDigits(n, base) == CHOOSE d \in 1..20 : n < base^d /\ (d = 1 \/ n >= base^(d-1))

\* strlen
TextLen(x) ==
  LET minus == IF x.n < 0 THEN 1 ELSE 0
  IN CASE x.form = "dec" -> minus + CountDigits(AbsVal(x.n), 10)
       [] x.form = "fix" -> minus + CountDigits(AbsVal(x.n) \div 4, 10) + 7
       [] x.form = "hex" -> IF x.n = 0 THEN 5 ELSE 2 + CountDigits(x.n, 16)
       [] x.form = "true" -> 4
       [] x.form = "false" -> 5
       [] OTHER -> x.n

\* What is left of a text in a buffer of size bytes, terminator included.
Cut(x, size) == IF TextLen(x) < size THEN x ELSE Text("raw", size - 1)

\* printf of a scalar with the format of its type; six decimals of a float.
Printed(t, v) ==
  CASE t = "BOOL" -> IF v # 0 THEN True ELSE False
    [] t \in FloatTypes -> Text("fix", SixDecimals(v))
    [] t = "POINTER" -> Text("hex", Wrap("UINT64", v))
    [] OTHER -> Text("dec", v)

\* The integer at the head of a text, if there is one: at most one element.
Whole(x) ==
  CASE x.form = "dec" -> {x.n}
    [] x.form = "fix" -> {Truncate(x.n)}
    [] x.form = "hex" /\ x.n # 0 -> {0}
    [] OTHER -> {}

\* sscanf of an integer: libc reads a 64-bit number, saturating, and stores
\* its low bytes; an unsigned conversion accepts a minus sign and wraps.
ScanInt(fmt, x) ==
  {CASE fmt = "%d" -> Wrap("INT32", Saturate("INT64", n))
     [] fmt = "%ld" -> Saturate("INT64", n)
     [] fmt = "%u" -> Wrap("UINT32", IF n < 0 THEN n ELSE Saturate("UINT64", n))
     [] fmt = "%lu" -> IF n < 0 THEN Wrap("UINT64", n) ELSE Saturate("UINT64", n)
    : n \in Whole(x)}

\* sscanf of %f and %lf: decimal or hexadecimal.
ScanFloat(t, x) ==
  CASE x.form = "fix" -> {Nearest(t, x.n)}
    [] x.form = "dec" \/ (x.form = "hex" /\ x.n # 0) -> {Nearest(t, 4 * x.n)}
    [] OTHER -> {}

\* The decimal digits of n read as hexadecimal ones.
ReadHex(n) == MapThenSumSet(LAMBDA i : ((n \div 10^i) % 10) * 16^i, 0..5)

\* sscanf of %p reads hexadecimal digits, with or without 0x, or "(nil)".
ScanPointer(x) ==
  CASE x.form = "hex" -> {Wrap("POINTER", x.n)}
    [] x.form = "false" -> {Wrap("POINTER", 250)}
    [] x.form \in {"dec", "fix"} ->
         {Wrap("POINTER", Sign(n) * Saturate("UINT64", ReadHex(AbsVal(n)))) : n \in Whole(x)}
    [] OTHER -> {}
=============================================================================
