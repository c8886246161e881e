-------------------------------- MODULE Buffer --------------------------------
(***************************************************************************)
(* The byte buffer of a connection: one vector with three regions,         *)
(*                                                                         *)
(*    prependable     readable      writable                               *)
(*   0 ........ readerIndex_ ... writerIndex_ ... size                     *)
(*                                                                         *)
(* and two indexes that move.  The three variants have the same buffer,    *)
(* but for an argument of readFd that gives errno.  The operators return   *)
(* the buffer after the call; the state machine is a user that makes any   *)
(* legal call.                                                             *)
(* Cell i of the vector is buffer_[i + 1].                                 *)
(***************************************************************************)
EXTENDS Integers, Sequences

CONSTANTS Byte,            \* the values of a byte
          Blank,           \* the one a fresh cell has
          kCheapPrepend,   \* 8 in the code
          kInitialSize,    \* 1024
          ExtraSize,       \* of the buffer on the stack of readFd, 65536
          Chunk,           \* what users append and prepend, and what arrives
          MaxSize          \* bounds the growth of the vector

\* What the constants are.
ASSUME ByteAssumption == Blank \in Byte
ASSUME SizeAssumption == /\ kCheapPrepend \in Nat \ {0}
                         /\ kInitialSize \in Nat
                         /\ ExtraSize \in Nat \ {0, 1}
                         /\ MaxSize \in Nat
ASSUME ChunkAssumption == Chunk \subseteq Seq(Byte)

-------------------------------------------------------------------------------
\* Vectors.

Blanks(n) == [i \in 1 .. n |-> Blank]

Resize(v, n) == [i \in 1 .. n |-> IF i <= Len(v) THEN v[i] ELSE Blank]

\* s is copied to the cells of v that begin at index `at`.
CopyTo(v, at, s) ==
    [i \in 1 .. Len(v) |-> IF i - at \in 1 .. Len(s) THEN s[i - at] ELSE v[i]]

-------------------------------------------------------------------------------
\* The members of the class.

EmptyBuffer == [buffer_      |-> Blanks(kCheapPrepend + kInitialSize),
                readerIndex_ |-> kCheapPrepend,
                writerIndex_ |-> kCheapPrepend]

readableBytes(b)    == b.writerIndex_ - b.readerIndex_
writableBytes(b)    == Len(b.buffer_) - b.writerIndex_
prependableBytes(b) == b.readerIndex_

\* peek() up to beginWrite().
Readable(b) == SubSeq(b.buffer_, b.readerIndex_ + 1, b.writerIndex_)

\* The assertion of makeSpace.
MakeSpaceAsserts(b, len) ==
    \/ writableBytes(b) + prependableBytes(b) < len + kCheapPrepend
    \/ kCheapPrepend < b.readerIndex_

\* Mutant: the room in front is forgotten when it asks whether there is room.
MakeSpaceForgetsRoom(b, len) ==
    IF writableBytes(b) + prependableBytes(b) < len
    THEN [b EXCEPT !.buffer_ = Resize(@, b.writerIndex_ + len)]
    ELSE [buffer_      |-> CopyTo(b.buffer_, kCheapPrepend, Readable(b)),
          readerIndex_ |-> kCheapPrepend,
          writerIndex_ |-> kCheapPrepend + readableBytes(b)]

makeSpace(b, len) ==
    IF writableBytes(b) + prependableBytes(b) < len + kCheapPrepend
    THEN [b EXCEPT !.buffer_ = Resize(@, b.writerIndex_ + len)]
    ELSE [buffer_      |-> CopyTo(b.buffer_, kCheapPrepend, Readable(b)),
          readerIndex_ |-> kCheapPrepend,
          writerIndex_ |-> kCheapPrepend + readableBytes(b)]

ensureWritableBytes(b, len) ==
    IF writableBytes(b) < len THEN makeSpace(b, len) ELSE b

\* The assertions on the way of ensureWritableBytes(len).
EnsureAsserts(b, len) ==
    /\ writableBytes(b) < len => MakeSpaceAsserts(b, len)
    /\ writableBytes(ensureWritableBytes(b, len)) >= len

\* Mutant: the writer index is read before the data is moved.
AppendAtOldIndex(b, s) ==
    LET e == ensureWritableBytes(b, Len(s))
    IN [e EXCEPT !.buffer_ = CopyTo(@, b.writerIndex_, s), !.writerIndex_ = @ + Len(s)]

append(b, s) ==
    LET e == ensureWritableBytes(b, Len(s))
    IN [e EXCEPT !.buffer_ = CopyTo(@, e.writerIndex_, s), !.writerIndex_ = @ + Len(s)]

prepend(b, s) ==
    LET r == b.readerIndex_ - Len(s)
    IN [b EXCEPT !.buffer_ = CopyTo(@, r, s), !.readerIndex_ = r]

retrieveAll(b) == [b EXCEPT !.readerIndex_ = kCheapPrepend, !.writerIndex_ = kCheapPrepend]

retrieve(b, len) ==
    IF len < readableBytes(b) THEN [b EXCEPT !.readerIndex_ = @ + len] ELSE retrieveAll(b)

\* A new buffer takes the place of the old one, and what was in it is lost.
shrink(b, reserve) == ensureWritableBytes(EmptyBuffer, readableBytes(b) + reserve)

-------------------------------------------------------------------------------
VARIABLES buffer,    \* the object
          reading,   \* readFd is between two of its calls of readv
          stored,    \* bytes that the present or last call of readFd has stored
          result,    \* what it returned, or the sum so far
          failed     \* an assertion failed

vars == <<buffer, reading, stored, result, failed>>

TypeOK ==
    /\ buffer \in [buffer_ : Seq(Byte), readerIndex_ : Nat, writerIndex_ : Nat]
    /\ reading \in BOOLEAN
    /\ stored \in Nat
    /\ result \in Int
    /\ failed \in BOOLEAN

Init ==
    /\ buffer = EmptyBuffer
    /\ reading = FALSE
    /\ stored = 0
    /\ result = 0
    /\ failed = FALSE

\* A call of the user, who waits for readFd to return.
Call == ~reading /\ ~failed /\ UNCHANGED <<reading, stored, result>>

AppendTo(s) ==
    /\ Call
    /\ buffer.writerIndex_ + Len(s) <= MaxSize
    /\ buffer' = append(buffer, s)
    /\ failed' = ~EnsureAsserts(buffer, Len(s))

PrependTo(s) ==
    /\ Call
    /\ Len(s) <= prependableBytes(buffer)
    /\ buffer' = prepend(buffer, s)
    /\ UNCHANGED failed

\* retrieve, retrieveInt*, retrieveAsString and, with the distance to a CRLF,
\* retrieveUntil.
Retrieve(len) ==
    /\ Call
    /\ len <= readableBytes(buffer)
    /\ buffer' = retrieve(buffer, len)
    /\ UNCHANGED failed

Shrink(reserve) ==
    /\ Call
    /\ kCheapPrepend + readableBytes(buffer) + reserve <= MaxSize
    /\ buffer' = shrink(buffer, reserve)
    /\ failed' = ~EnsureAsserts(EmptyBuffer, readableBytes(buffer) + reserve)

\* One readv of readFd that returns the bytes s: into the writable region, and
\* what does not fit by way of the buffer on the stack.
Store(s) ==
    LET writable == writableBytes(buffer)
        first    == SubSeq(s, 1, writable)
        rest     == SubSeq(s, writable + 1, Len(s))
        full     == [buffer EXCEPT !.buffer_ = CopyTo(@, buffer.writerIndex_, first),
                                   !.writerIndex_ = Len(buffer.buffer_)]
    IN IF Len(s) <= writable
       THEN /\ buffer' = [buffer EXCEPT !.buffer_ = CopyTo(@, buffer.writerIndex_, s),
                                        !.writerIndex_ = @ + Len(s)]
            /\ reading' = FALSE
            /\ UNCHANGED failed
       ELSE /\ buffer' = append(full, rest)
            /\ failed' = ~EnsureAsserts(full, Len(rest))
            /\ reading' = (Len(s) = writable + ExtraSize)

\* readFd reads again when the first readv filled all there was, and adds what the
\* second returns.
ReadFd(s) ==
    /\ ~failed
    /\ Len(s) <= writableBytes(buffer) + ExtraSize
    /\ buffer.writerIndex_ + Len(s) <= MaxSize
    /\ Store(s)
    /\ stored' = (IF reading THEN stored ELSE 0) + Len(s)
    /\ result' = (IF reading THEN result ELSE 0) + Len(s)

\* readv returns -1: the socket has nothing (it is non-blocking), or an error.
ReadFdFails ==
    /\ ~failed
    /\ reading' = FALSE
    /\ stored' = (IF reading THEN stored ELSE 0)
    /\ result' = (IF reading THEN result ELSE 0) - 1
    /\ UNCHANGED <<buffer, failed>>

Next ==
    \/ \E s \in Chunk : AppendTo(s) \/ PrependTo(s) \/ ReadFd(s)
    \/ \E n \in 0 .. MaxSize : Retrieve(n) \/ Shrink(n)
    \/ ReadFdFails

Spec == Init /\ [][Next]_vars

-------------------------------------------------------------------------------
\* The indexes are in order and the room in front is never given up.
IndexesInOrder ==
    /\ buffer.readerIndex_ <= buffer.writerIndex_
    /\ buffer.writerIndex_ <= Len(buffer.buffer_)
    /\ kCheapPrepend <= Len(buffer.buffer_)

\* TcpConnection::handleRead takes a positive result of readFd for data, zero for the end
\* of the stream and a negative one for an error.
DataIsNotTakenForClose == (stored > 0) <=> (result > 0)

\* In any sequence of legal calls no assertion of makeSpace or ensureWritableBytes
\* fails: when the data is moved to the front there is a gap to move it into, and
\* either way there is room after.  The indexes stay in order, and data that has come
\* is never taken for the end of the stream, even when the second readv of readFd finds
\* nothing and its -1 is added to the count.
AssertionsHold == TypeOK /\ ~failed /\ IndexesInOrder /\ DataIsNotTakenForClose

\* The buffer implements a queue of bytes: growing, moving to the front and
\* reading past the end by the extra buffer neither lose nor change nor reorder
\* what is readable.
Abstract == INSTANCE ByteQueue WITH bytes <- Readable(buffer)

ImplementsQueue == Abstract!Spec
===============================================================================
