------------------------------ MODULE StringCast ------------------------------
(***************************************************************************)
(* string_cast.h: numbers to text (string_cast, used for every argument of *)
(* a type-safe log statement) and back (number_cast).  A character is its  *)
(* value as a digit, case aside, so that x is 33; a minus sign is 36, the   *)
(* text "itoa err" and the text NULL are one of a kind, and 39 is a        *)
(* character that an index nobody can name reads.                          *)
(***************************************************************************)
EXTENDS Integers, Sequences

CONSTANTS
  WideBits,     \* width of long long, intmax_t and uintmax_t (64)
  NarrowBits    \* width of a narrower integer type (int: 32)

ASSUME WidthAssumption ==
  /\ WideBits \in Nat /\ NarrowBits \in Nat
  /\ 8 <= NarrowBits /\ NarrowBits < WideBits

Widths == {NarrowBits, WideBits}

Minus == 36
X     == 33
ItoaErr == <<37>>
NoText  == <<38>>
AnyChar == 39
Bases == 2 .. 36

\* numeric_limits of an integer type.
Lowest(bits, signed)  == IF signed THEN -(2 ^ (bits - 1)) ELSE 0
Highest(bits, signed) == IF signed THEN 2 ^ (bits - 1) - 1 ELSE 2 ^ bits - 1
Magnitude(v) == IF v < 0 THEN -v ELSE v

-----------------------------------------------------------------------------
(* string_cast                                                              *)

\* C++ division truncates; the remainder has the sign of the value.
Quotient(v, base)  == IF v < 0 THEN -(Magnitude(v) \div base) ELSE v \div base
\* num_mapping reads the same to the left and to the right of its middle.
Digit(remainder) == Magnitude(remainder)

\* The do-while loop: the digits, lowest first.
DigitsOf(value, base) ==
  LET digits[k \in 0 .. WideBits] ==
        IF k = 0 THEN [left |-> value, text |-> << >>]
        ELSE LET before == digits[k - 1]
                 rest   == Quotient(before.left, base)
             IN IF k > 1 /\ before.left = 0 THEN before
                ELSE [left |-> rest,
                      text |-> Append(before.text, Digit(before.left - rest * base))]
  IN digits[WideBits].text

Reversed(text) == [k \in 1 .. Len(text) |-> text[Len(text) + 1 - k]]

\* Faulty: negates first, which the lowest value of the type does not survive.
FaultyItoa(value, base) ==
  LET negated == IF value = Lowest(WideBits, TRUE) THEN 0 ELSE Magnitude(value)
  IN Reversed(DigitsOf(negated, base) \o (IF value < 0 THEN <<Minus>> ELSE << >>))

string_cast_itoa(value, base) ==
  IF base \notin Bases THEN ItoaErr
  ELSE Reversed(DigitsOf(value, base) \o (IF value < 0 THEN <<Minus>> ELSE << >>))

\* num_mapping[35 + tmp_value - quotient*base]: the sum comes first, and passes
\* the largest value of a signed T, which is undefined.  What is left after one
\* division is too small for that (LaterSumsFit, in PartsProofs).
Middle == 35
SumOverflows(value, base, bits, signed) ==
  base \in Bases /\ signed /\ Middle + value > Highest(bits, TRUE)

\* The compilers at hand come back to the right index, but need not: the lowest
\* digit is right or any character.
Spoilt(text) == [text EXCEPT ![Len(text)] = AnyChar]
ItoaTexts(value, base, bits, signed) ==
  LET text == string_cast_itoa(value, base)
  IN {text} \cup (IF SumOverflows(value, base, bits, signed) THEN {Spoilt(text)} ELSE {})

\* string_cast(const void*): 0x and the address.
FaultyPointerCast(address) == <<0>> \o string_cast_itoa(address, 16)
string_cast_pointer(address) == <<0, X>> \o string_cast_itoa(address, 16)

\* Faulty: no room for the NUL.
FaultyCacheSize == WideBits
\* char value_cache_[65]: WideBits and a NUL.
CacheSize == WideBits + 1

-----------------------------------------------------------------------------
(* strtoimax and strtoumax with base 0 (external).                          *)

Negative(text) == text # << >> /\ text[1] = Minus
Unsigned(text) == IF Negative(text) THEN Tail(text) ELSE text

\* 0x before a hexadecimal digit is base 16, another 0 is base 8.
BaseOf(text) ==
  IF Len(text) > 2 /\ text[1] = 0 /\ text[2] = X /\ text[3] < 16 THEN 16
  ELSE IF text # << >> /\ text[1] = 0 THEN 8 ELSE 10

\* The longest prefix of digits, as a number.
Strtol(text) ==
  LET base   == BaseOf(Unsigned(text))
      digits == IF base = 16 THEN SubSeq(Unsigned(text), 3, Len(Unsigned(text))) ELSE Unsigned(text)
      value[k \in 0 .. Len(digits)] ==
        IF k = 0 THEN [number |-> 0, used |-> 0]
        ELSE LET before == value[k - 1]
             IN IF before.used = k - 1 /\ digits[k] < base
                THEN [number |-> before.number * base + digits[k], used |-> k] ELSE before
      read   == value[Len(digits)]
  IN [number |-> IF Negative(text) THEN -read.number ELSE read.number,
      nothing |-> read.used = 0]

\* Out of range the signed one stays at the end it passed and the unsigned one
\* at the largest value; a minus sign is taken modulo 2^WideBits.
Saturated(v, signed) ==
  IF signed
  THEN IF v < Lowest(WideBits, TRUE) THEN Lowest(WideBits, TRUE)
       ELSE IF v > Highest(WideBits, TRUE) THEN Highest(WideBits, TRUE) ELSE v
  ELSE IF Magnitude(v) > Highest(WideBits, FALSE) THEN Highest(WideBits, FALSE)
       ELSE v % 2 ^ WideBits

-----------------------------------------------------------------------------
(* number_cast: __signed_number_cast and __unsigned_number_cast.            *)

FaultyNumberCast(text, bits, signed) ==
  LET read  == Strtol(text)
      value == Saturated(read.number, signed)
  IN [value |-> value, valid |-> ~ read.nothing]

number_cast(text, bits, signed) ==
  LET read  == Strtol(text)
      value == Saturated(read.number, signed)
      low   == Lowest(bits, signed)
      high  == Highest(bits, signed)
  IN IF text = NoText \/ read.nothing THEN [value |-> 0, valid |-> FALSE]
     ELSE IF value < low THEN [value |-> low, valid |-> FALSE]
     ELSE IF high < value THEN [value |-> high, valid |-> FALSE]
     ELSE [value |-> value, valid |-> TRUE]

-----------------------------------------------------------------------------
(* One number on its way: formatted, and its text read by a caller who may  *)
(* expect another type.                                                     *)

VARIABLE cast
castFields == [pc |-> "format", width |-> WideBits, signed |-> TRUE, value |-> 0, base |-> 10,
               text |-> << >>, bits |-> WideBits, reader |-> TRUE, read |-> << >>]

CastInit ==
  \E width \in Widths, signed \in BOOLEAN :
    \E value \in Lowest(width, signed) .. Highest(width, signed),
       base \in {1, 2, 8, 10, 16, 36, 37} :
      cast = [castFields EXCEPT !.width = width, !.signed = signed,
                                !.value = value, !.base = base]

Format ==
  /\ cast.pc = "format"
  /\ \E text \in ItoaTexts(cast.value, cast.base, cast.width, cast.signed) :
       cast' = [cast EXCEPT !.pc = "read", !.text = text]

\* An address is unsigned and always in base 16.
FormatPointer ==
  /\ cast.pc = "format" /\ cast.base = 16 /\ ~ cast.signed
  /\ cast' = [cast EXCEPT !.pc = "read", !.text = string_cast_pointer(cast.value)]

\* A text is taken as it is, NULL too.
FromNull ==
  /\ cast.pc = "format" /\ cast.value = 0
  /\ cast' = [cast EXCEPT !.pc = "read", !.text = NoText]

Read ==
  /\ cast.pc = "read"
  /\ \E bits \in Widths, signed \in BOOLEAN :
       cast' = [cast EXCEPT !.pc = "done", !.bits = bits, !.reader = signed,
                            !.read = <<number_cast(cast.text, bits, signed)>>]

CastNext == Format \/ FormatPointer \/ FromNull \/ Read

-----------------------------------------------------------------------------
IsPointer == Len(cast.text) > 2 /\ cast.text[1] = 0 /\ cast.text[2] = X

\* The last 35 values of a signed type, whose text no one can promise.
Undefined == SumOverflows(cast.value, cast.base, cast.width, cast.signed)

\* The text is the number in its base, written in one way only: no digit is too
\* large, none leads in vain, and the value comes out, the lowest one included.
\* Another base than 2 to 36 writes no number.  The undefined ones are set apart.
ItoaExact ==
  cast.pc # "format" /\ ~ IsPointer /\ cast.text # NoText /\ ~ Undefined =>
    LET digits == Unsigned(cast.text)
        value[k \in 0 .. Len(digits)] ==
          IF k = 0 THEN 0 ELSE value[k - 1] * cast.base + digits[k]
    IN /\ (cast.text = ItoaErr) <=> cast.base \notin Bases
       /\ cast.text # ItoaErr =>
            /\ digits # << >> /\ (Len(digits) > 1 => digits[1] # 0)
            /\ \A k \in DOMAIN digits : digits[k] < cast.base
            /\ value[Len(digits)] = Magnitude(cast.value)
            /\ Negative(cast.text) <=> cast.value < 0

\* Text and NUL fit in value_cache_, except for one number in one base; the
\* undefined ones are as long as they would be.
FitsCache ==
  cast.pc # "format" =>
    (Len(cast.text) + 1 > CacheSize <=>
       cast.base = 2 /\ cast.signed /\ cast.value = Lowest(WideBits, TRUE))

\* Decimal text and addresses are read back as what they were, and valid() says
\* whether the reader's type can hold it; a type of full width cannot tell what
\* strtoimax cut to its own range, or strtoumax took modulo.  No text is no number.
\* Of an undefined text nothing is said.
ReadsBack ==
  /\ cast.pc = "done" /\ cast.text \in {NoText, ItoaErr} => ~ cast.read[1].valid
  /\ cast.pc = "done" /\ cast.text # NoText /\ (cast.base = 10 \/ IsPointer) /\ ~ Undefined =>
    LET fits == cast.value \in Lowest(cast.bits, cast.reader) .. Highest(cast.bits, cast.reader)
    IN /\ fits => cast.read[1] = [value |-> cast.value, valid |-> TRUE]
       /\ cast.bits < WideBits =>
            /\ cast.read[1].valid = fits
            /\ cast.read[1].value \in
                 Lowest(cast.bits, cast.reader) .. Highest(cast.bits, cast.reader)
=============================================================================
