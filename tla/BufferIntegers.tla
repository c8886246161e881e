----------------------------- MODULE BufferIntegers -----------------------------
(***************************************************************************)
(* Numbers and lines on their way through the Buffers of two hosts: a       *)
(* message is put together in one Buffer, its bytes come to another one in  *)
(* pieces, and the reader takes out what it knows must come.  Integers      *)
(* travel in network byte order; a host has its own in memory.              *)
(* A Buffer is what is readable in it, see ByteQueue.                       *)
(***************************************************************************)
EXTENDS Integers, Sequences, SequencesExt

CONSTANTS Base,       \* the number of values of a byte, 256 in the code
          Widths,     \* the sizes of integers, {1, 2, 4} in the code
          CR, LF,     \* two values of a byte
          Texts,      \* lines without their end
          MaxItems    \* bounds what is sent

ASSUME BytesAssumption ==
    /\ Base \in Nat \ {0} /\ Base % 2 = 0 /\ Widths \subseteq Nat \ {0}
    /\ CR \in 0 .. Base - 1 /\ LF \in 0 .. Base - 1 /\ CR # LF
    /\ Texts \subseteq Seq(0 .. Base - 1) /\ \A text \in Texts : LF \notin ToSet(text)

Orders == {"little", "big"}

-------------------------------------------------------------------------------
\* Numbers in n bytes.

\* How many values n bytes have.
Values(n) ==
    LET values[j \in 0 .. n] == IF j = 0 THEN 1 ELSE Base * values[j - 1] IN values[n]

Unsigned(x, n) == x % Values(n)
Signed(u, n)   == IF 2 * u >= Values(n) THEN u - Values(n) ELSE u

BigEndian(u, n) ==
    LET rest[j \in 0 .. n] == IF j = 0 THEN u ELSE rest[j - 1] \div Base
    IN  [i \in 1 .. n |-> rest[n - i] % Base]

\* The bytes of a number in the memory of a host, and the number again: what append does
\* with &be32, and memcpy.
Memory(x, n, order) ==
    IF order = "big" THEN BigEndian(Unsigned(x, n), n) ELSE Reverse(BigEndian(Unsigned(x, n), n))

Value(s, order) ==
    LET bytes == IF order = "big" THEN s ELSE Reverse(s)
        value[j \in 0 .. Len(bytes)] == IF j = 0 THEN 0 ELSE Base * value[j - 1] + bytes[j]
    IN  value[Len(bytes)]

\* htobe and be16toh, be32toh, which are the same function.
htobe(u, n, order) == Value(BigEndian(u, n), order)

\* A number to put into a Buffer: the unsigned result of htobe goes into a signed be32.
\* One byte is copied as it is.
Encoded(x, n, order) ==
    Memory(IF n = 1 THEN x ELSE Signed(htobe(Unsigned(x, n), n, order), n), n, order)

appendInt(b, x, n, order)  == b \o Encoded(x, n, order)
prependInt(b, x, n, order) == Encoded(x, n, order) \o b

\* Mutant: the number is returned as it lies in memory.
PeekMemory(b, n, order) == Signed(Value(SubSeq(b, 1, n), order), n)

\* What is in front of b, through a signed be32 again.
peekInt(b, n, order) ==
    LET be == Signed(Value(SubSeq(b, 1, n), order), n)
    IN IF n = 1 THEN be ELSE Signed(htobe(Unsigned(be, n), n, order), n)

retrieveBytes(b, n) == SubSeq(b, n + 1, Len(b))

-------------------------------------------------------------------------------
\* Ends of lines: how many bytes are before the first one that is found, or -1.

Before(b, start, end) ==
    LET at == {i \in start .. Len(b) - Len(end) : SubSeq(b, i + 1, i + Len(end)) = end}
    IN IF at = {} THEN -1 ELSE CHOOSE i \in at : \A j \in at : i <= j

findCRLF(b)       == Before(b, 0, <<CR, LF>>)
findEOL(b, start) == Before(b, start, <<LF>>)

-------------------------------------------------------------------------------
VARIABLES
    order,     \* of the two hosts
    draft,     \* the Buffer in which a message is put together
    wire,      \* bytes that have not come yet
    input,     \* the Buffer of the reader
    looked,    \* how far it has looked for the end of a line
    drafted, put, taken      \* what went into draft, and was sent, and has been taken

numberVars == <<order, draft, wire, input, looked, drafted, put, taken>>

Bytes == Seq(0 .. Base - 1)

Ints(n) ==
    {[is |-> "int", size |-> n, value |-> x] : x \in -(Values(n) \div 2) .. Values(n) \div 2 - 1}

Lines == [is : {"EOL", "CRLF"}, text : Texts]

Items == Lines \union UNION {Ints(n) : n \in Widths}

NumbersTypeOK ==
    /\ order \in [writer : Orders, reader : Orders]
    /\ draft \in Bytes /\ wire \in Bytes /\ input \in Bytes
    /\ looked \in 0 .. Len(input)
    /\ drafted \in Seq(Items) /\ put \in Seq(Items) /\ taken \in Seq(Items)

NumbersInit ==
    /\ order \in [writer : Orders, reader : Orders]
    /\ draft = <<>> /\ wire = <<>> /\ input = <<>>
    /\ looked = 0
    /\ drafted = <<>> /\ put = <<>> /\ taken = <<>>

Room == Len(put) + Len(drafted) < MaxItems

AppendInt(item) ==
    /\ Room
    /\ draft' = appendInt(draft, item.value, item.size, order.writer)
    /\ drafted' = Append(drafted, item)
    /\ UNCHANGED <<order, wire, input, looked, put, taken>>

\* A length or a type in front of what is there already.
PrependInt(item) ==
    /\ Room
    /\ draft # <<>>
    /\ draft' = prependInt(draft, item.value, item.size, order.writer)
    /\ drafted' = <<item>> \o drafted
    /\ UNCHANGED <<order, wire, input, looked, put, taken>>

AppendLine(item) ==
    /\ Room
    /\ draft' = draft \o item.text \o (IF item.is = "EOL" THEN <<LF>> ELSE <<CR, LF>>)
    /\ drafted' = Append(drafted, item)
    /\ UNCHANGED <<order, wire, input, looked, put, taken>>

\* The message is sent: retrieveAllAsString.
Send ==
    /\ drafted # <<>>
    /\ wire' = wire \o draft
    /\ put' = put \o drafted
    /\ draft' = <<>> /\ drafted' = <<>>
    /\ UNCHANGED <<order, input, looked, taken>>

\* A piece of it comes, and is appended.
Arrive(n) ==
    /\ n \in 1 .. Len(wire)
    /\ input' = input \o SubSeq(wire, 1, n)
    /\ wire' = SubSeq(wire, n + 1, Len(wire))
    /\ UNCHANGED <<order, draft, looked, drafted, put, taken>>

\* What the reader knows to come.
Expected == put[Len(taken) + 1]

Expects(kind) == Len(taken) < Len(put) /\ Expected.is = kind

\* peekInt and retrieveInt, once enough is readable: the assertion of peekInt.
ReadInt ==
    /\ Expects("int")
    /\ LET n == Expected.size
       IN /\ Len(input) >= n
          /\ taken' = Append(taken, [Expected EXCEPT !.value = peekInt(input, n, order.reader)])
          /\ input' = retrieveBytes(input, n)
    /\ looked' = 0
    /\ UNCHANGED <<order, draft, wire, drafted, put>>

\* retrieveAsString up to the end that was found, and retrieve over that.
TakeLine(kind, found, size) ==
    /\ taken' = Append(taken, [is |-> kind, text |-> SubSeq(input, 1, found)])
    /\ input' = retrieveBytes(retrieveBytes(input, found), size)
    /\ looked' = 0
    /\ UNCHANGED <<order, draft, wire, drafted, put>>

\* findEOL goes on where it ended; retrieveUntil.
ReadLine ==
    /\ Expects("EOL")
    /\ LET found == findEOL(input, looked)
       IN IF found < 0 THEN /\ looked # Len(input)
                            /\ looked' = Len(input)
                            /\ UNCHANGED <<order, draft, wire, input, drafted, put, taken>>
          ELSE TakeLine("EOL", found, 1)

\* findCRLF starts again: the first half of an end may have come alone.
ReadCRLF ==
    /\ Expects("CRLF")
    /\ findCRLF(input) >= 0
    /\ TakeLine("CRLF", findCRLF(input), 2)

NumbersNext ==
    \/ \E n \in Widths : \E item \in Ints(n) : AppendInt(item) \/ PrependInt(item)
    \/ \E item \in Lines : AppendLine(item)
    \/ \E n \in 1 .. Len(wire) : Arrive(n)
    \/ Send \/ ReadInt \/ ReadLine \/ ReadCRLF

NumbersSpec == NumbersInit /\ [][NumbersNext]_numberVars

-------------------------------------------------------------------------------
\* Whatever the byte orders of the two hosts and wherever the stream is cut, the reader
\* takes out the numbers, negative ones too, and the lines that were put in, in order
\* (the comments in appendInt: network byte order), and when it has them all nothing is
\* left over.
ValuesArrive ==
    /\ NumbersTypeOK
    /\ IsPrefix(taken, put)
    /\ Len(taken) = Len(put) => input = <<>> /\ wire = <<>>
=================================================================================
