------------------------------ MODULE LogStream ------------------------------
(***************************************************************************)
(* multiThread/base/LogStream: values are formatted at the end of a         *)
(* FixedBuffer, if it has room for the longest of them.  Only numbers and   *)
(* pointers reach it: FixedBuffer::append is empty, so that characters,      *)
(* strings and flags leave no trace.                                        *)
(***************************************************************************)
EXTENDS Integers, Sequences, SequencesExt

CONSTANTS SIZE,              \* 4000 in the code
          kMaxNumericSize,   \* 32
          Number,            \* the values of the integer types
          Address,           \* those of uintptr_t
          Digits,            \* no integer and no pointer has more of them, 20 in the code
          Decimals           \* the lengths of a floating point number's text

Power[k \in 0 .. Digits] == IF k = 0 THEN 1 ELSE 10 * Power[k - 1]

\* A sign or the end of 0x, the digits and a null character are no more than the code keeps free.
ASSUME SizesAssumption ==
    SIZE \in Nat /\ Digits \in Nat \ {0} /\ kMaxNumericSize \in Nat /\ Digits + 2 <= kMaxNumericSize
ASSUME NumbersAssumption ==
    /\ Number \subseteq Int /\ Address \subseteq Nat /\ Decimals \subseteq 0 .. kMaxNumericSize - 1
    /\ \A n \in Number \union Address : n < Power[Digits] /\ -n < Power[Digits]

VARIABLE stream    \* buffer_: cur_ - data_, and how far data_ was ever written

LogTypeOK == stream \in [cur_ : 0 .. SIZE, reach : 0 .. SIZE]

LogInit == stream = [cur_ |-> 0, reach |-> 0]

-------------------------------------------------------------------------------
\* / and % of C++ cut towards zero.
Quotient(i)  == IF i < 0 THEN -((-i) \div 10) ELSE i \div 10

\* Mutant: a remainder that is never negative, for a quotient that is cut.
RemainderOfFloor(i) == i % 10

Remainder(i) == i - 10 * Quotient(i)

\* zero[lsd]: the middle of a table of digits that reads the same both ways.
Digit(lsd) == IF lsd < 0 THEN -lsd ELSE lsd

Minus == 10    \* a character that is no digit

\* convert(), without the null character that it adds.  cut[k] is i after k turns of its loop,
\* which ends when i is 0.
convert(value) ==
    LET cut[k \in 0 .. Digits] == IF k = 0 THEN value ELSE Quotient(cut[k - 1])
        turns  == CHOOSE k \in 1 .. Digits : cut[k] = 0 /\ \A j \in 1 .. k - 1 : cut[j] # 0
        digits == [k \in 1 .. turns |-> Digit(Remainder(cut[k - 1]))]
    IN  Reverse(digits \o (IF value < 0 THEN <<Minus>> ELSE << >>))

avail == SIZE - stream.cur_

\* len cells and a null character are written from cur_ on, and cur_ advances over them.
add(len) ==
    LET cur == stream.cur_ + len
    IN  stream' = [cur_ |-> cur, reach |-> IF cur + 1 > stream.reach THEN cur + 1 ELSE stream.reach]

-------------------------------------------------------------------------------
formatInteger(n) == avail >= kMaxNumericSize /\ add(Len(convert(n)))

\* Every integer type comes to formatInteger, short by way of int.
ShowInteger(n) == formatInteger(n)

\* A pointer, in decimal after its 0x.
ShowPointer(p) == avail > kMaxNumericSize /\ add(2 + Len(convert(p)))

\* float, double and long double: the length is what snprintf returns.
ShowDecimal(n) == avail > kMaxNumericSize /\ add(n)

\* bool, char, strings, and append(): the empty FixedBuffer::append.
ShowText == UNCHANGED stream

resetBuffer == stream' = [stream EXCEPT !.cur_ = 0]

LogNext ==
    \/ \E n \in Number : ShowInteger(n)
    \/ \E p \in Address : ShowPointer(p)
    \/ \E n \in Decimals : ShowDecimal(n)
    \/ ShowText
    \/ resetBuffer

LogSpec == LogInit /\ [][LogNext]_stream

-------------------------------------------------------------------------------
\* How a reader takes the digits of a number.
IsNatural(text, n) ==
    LET worth[k \in 0 .. Len(text)] == IF k = 0 THEN 0 ELSE 10 * worth[k - 1] + text[k]
    IN  /\ text \in Seq(0 .. 9) /\ text # << >>
        /\ Len(text) > 1 => text[1] # 0
        /\ n = worth[Len(text)]

IsNumber(text, n) ==
    IF n < 0 THEN Head(text) = Minus /\ IsNatural(Tail(text), -n) ELSE IsNatural(text, n)

Converts == \A n \in Number \union Address : IsNumber(convert(n), n)

\* The text of a number, the smallest of its type included, is what reads as that number,
\* without a zero in front; and kMaxNumericSize is enough: whatever is shown, nothing is
\* written behind the end of the buffer, its null characters included.
NumbersFit == LogTypeOK /\ Converts
===============================================================================
