------------------------------- MODULE NetProofs -------------------------------
(***************************************************************************)
(* Proofs about two parts of net that share nothing.                        *)
(* Buffer, for any bytes, sizes and chunks: its assertions hold, and it     *)
(* implements a queue of bytes.                                             *)
(* Connector, for any number of calls and attempts: a client that connects  *)
(* once may stop whenever it likes, and one that wants to connect never     *)
(* ceases to try.                                                           *)
(***************************************************************************)
EXTENDS Buffer, Connector, SequenceTheorems, TLAPS

-------------------------------------------------------------------------------
\* Buffer.

\* A buffer whose indexes are in order.
InOrder(b) ==
    /\ b \in [buffer_ : Seq(Byte), readerIndex_ : Nat, writerIndex_ : Nat]
    /\ b.readerIndex_ <= b.writerIndex_
    /\ b.writerIndex_ <= Len(b.buffer_)
    /\ kCheapPrepend <= Len(b.buffer_)

\* While readFd reads again, it has counted right and has filled the extra buffer: the -1
\* of the second call cannot make the sum zero.
CountInv == reading => result = stored /\ stored > 1

BufferInv ==
    /\ InOrder(buffer)
    /\ reading \in BOOLEAN /\ stored \in Nat /\ result \in Int
    /\ failed = FALSE
    /\ CountInv
    /\ DataIsNotTakenForClose

-------------------------------------------------------------------------------
\* Vectors.

LEMMA BlanksIs ==
    ASSUME NEW n \in Nat
    PROVE  Blanks(n) \in Seq(Byte) /\ Len(Blanks(n)) = n
<1>1. Blanks(n) \in [1 .. n -> Byte]
  BY ByteAssumption DEF Blanks
<1>2. Blanks(n) \in Seq(Byte)
  BY <1>1, SeqDef
<1>3. DOMAIN Blanks(n) = 1 .. n /\ DOMAIN Blanks(n) = 1 .. Len(Blanks(n)) /\ Len(Blanks(n)) \in Nat
  BY <1>1, <1>2, LenProperties
<1> QED
  BY <1>2, <1>3

LEMMA ResizeIs ==
    ASSUME NEW v \in Seq(Byte), NEW n \in Nat
    PROVE  /\ Resize(v, n) \in Seq(Byte)
           /\ Len(Resize(v, n)) = n
           /\ \A i \in 1 .. n : i <= Len(v) => Resize(v, n)[i] = v[i]
<1> DEFINE w == Resize(v, n)
<1>1. w \in [1 .. n -> Byte]
  BY ByteAssumption, ElementOfSeq, LenProperties DEF Resize
<1>2. w \in Seq(Byte)
  BY <1>1, SeqDef
<1>3. DOMAIN w = 1 .. n /\ DOMAIN w = 1 .. Len(w) /\ Len(w) \in Nat
  BY <1>1, <1>2, LenProperties
<1>4. \A i \in 1 .. n : i <= Len(v) => w[i] = v[i]
  BY DEF Resize
<1> QED
  BY <1>2, <1>3, <1>4

LEMMA CopyToIs ==
    ASSUME NEW v \in Seq(Byte), NEW at \in Nat, NEW s \in Seq(Byte)
    PROVE  /\ CopyTo(v, at, s) \in Seq(Byte)
           /\ Len(CopyTo(v, at, s)) = Len(v)
           /\ \A i \in 1 .. Len(v) :
                 CopyTo(v, at, s)[i] = IF i - at \in 1 .. Len(s) THEN s[i - at] ELSE v[i]
<1> DEFINE w == CopyTo(v, at, s)
<1>0. Len(v) \in Nat /\ Len(s) \in Nat
  BY LenProperties
<1>1. w \in [1 .. Len(v) -> Byte]
  <2>1. ASSUME NEW i \in 1 .. Len(v)
        PROVE  (IF i - at \in 1 .. Len(s) THEN s[i - at] ELSE v[i]) \in Byte
    BY ElementOfSeq
  <2> QED
    BY <2>1 DEF CopyTo
<1>2. w \in Seq(Byte)
  BY <1>0, <1>1, SeqDef
<1>3. DOMAIN w = 1 .. Len(v) /\ DOMAIN w = 1 .. Len(w) /\ Len(w) \in Nat
  BY <1>1, <1>2, LenProperties
<1>4. \A i \in 1 .. Len(v) : w[i] = IF i - at \in 1 .. Len(s) THEN s[i - at] ELSE v[i]
  BY DEF CopyTo
<1> QED
  BY <1>0, <1>2, <1>3, <1>4

-------------------------------------------------------------------------------
\* What is readable.

LEMMA ReadableIs ==
    ASSUME NEW b, InOrder(b)
    PROVE  /\ Readable(b) \in Seq(Byte)
           /\ Len(Readable(b)) = readableBytes(b)
           /\ \A i \in 1 .. readableBytes(b) : Readable(b)[i] = b.buffer_[b.readerIndex_ + i]
<1> DEFINE m == b.readerIndex_ + 1
           n == b.writerIndex_
<1>1. /\ m \in Int /\ n \in Int /\ Len(b.buffer_) \in Nat
      /\ b.readerIndex_ \in Nat /\ b.readerIndex_ <= n /\ b.buffer_ \in Seq(Byte)
      /\ n <= Len(b.buffer_)
  BY LenProperties DEF InOrder
<1>2. \A i \in m .. n : b.buffer_[i] \in Byte
  BY <1>1, ElementOfSeq
<1>3. /\ SubSeq(b.buffer_, m, n) \in Seq(Byte)
      /\ Len(SubSeq(b.buffer_, m, n)) = IF m <= n THEN n - m + 1 ELSE 0
      /\ \A i \in 1 .. n - m + 1 : SubSeq(b.buffer_, m, n)[i] = b.buffer_[m + i - 1]
  <2> HIDE DEF m, n
  <2>1. b.buffer_ \in Seq(Byte) /\ m \in Int /\ n \in Int
    BY <1>1 DEF m, n
  <2> QED
    BY <1>2, <2>1, SubSeqProperties
<1>4. n - m + 1 = readableBytes(b) /\ (m > n => readableBytes(b) = 0)
  BY <1>1 DEF readableBytes
<1>5. \A i \in 1 .. readableBytes(b) : m + i - 1 = b.readerIndex_ + i
  BY <1>1
<1>6. Len(SubSeq(b.buffer_, m, n)) = readableBytes(b)
  BY <1>1, <1>3, <1>4
<1>7. \A i \in 1 .. readableBytes(b) : SubSeq(b.buffer_, m, n)[i] = b.buffer_[b.readerIndex_ + i]
  BY <1>3, <1>4, <1>5
<1> QED
  BY <1>3, <1>6, <1>7 DEF Readable

LEMMA IsReadable ==
    ASSUME NEW b, InOrder(b), NEW s \in Seq(Byte), Len(s) = readableBytes(b),
           \A i \in 1 .. Len(s) : b.buffer_[b.readerIndex_ + i] = s[i]
    PROVE  Readable(b) = s
  BY ReadableIs, SeqEqual

LEMMA NothingReadable ==
    ASSUME NEW b, InOrder(b), readableBytes(b) = 0
    PROVE  Readable(b) = << >>
<1> DEFINE s == Readable(b)
<1>1. s \in Seq(Byte) /\ Len(s) = 0
  BY ReadableIs
<1> HIDE DEF s
<1>2. s = << >>
  BY <1>1, EmptySeq
<1> QED
  BY <1>2 DEF s

\* Bytes written at the writer index, where there is room for them.
Put(b, s) == [b EXCEPT !.buffer_ = CopyTo(@, b.writerIndex_, s), !.writerIndex_ = @ + Len(s)]

LEMMA PutIs ==
    ASSUME NEW b, InOrder(b), NEW s \in Seq(Byte), Len(s) <= writableBytes(b)
    PROVE  /\ InOrder(Put(b, s))
           /\ Readable(Put(b, s)) = Readable(b) \o s
           /\ Len(Put(b, s).buffer_) = Len(b.buffer_)
           /\ Put(b, s).writerIndex_ = b.writerIndex_ + Len(s)
<1> DEFINE w == b.writerIndex_
           v == CopyTo(b.buffer_, w, s)
           e == Put(b, s)
           t == Readable(b) \o s
<1>1. /\ b.buffer_ \in Seq(Byte) /\ b.readerIndex_ \in Nat /\ w \in Nat
      /\ b.readerIndex_ <= w /\ Len(b.buffer_) \in Nat /\ Len(s) \in Nat
      /\ w + Len(s) <= Len(b.buffer_) /\ kCheapPrepend <= Len(b.buffer_)
  BY LenProperties DEF InOrder, writableBytes
<1>2. /\ v \in Seq(Byte) /\ Len(v) = Len(b.buffer_)
      /\ \A i \in 1 .. Len(b.buffer_) :
            v[i] = IF i - w \in 1 .. Len(s) THEN s[i - w] ELSE b.buffer_[i]
  BY <1>1, CopyToIs
<1>3. /\ e.buffer_ = v /\ e.readerIndex_ = b.readerIndex_ /\ e.writerIndex_ = w + Len(s)
      /\ e \in [buffer_ : Seq(Byte), readerIndex_ : Nat, writerIndex_ : Nat]
  <2> DEFINE n == w + Len(s)
  <2>1. e = [b EXCEPT !.buffer_ = v, !.writerIndex_ = n] /\ n \in Nat
    BY <1>1 DEF Put, InOrder
  <2> HIDE DEF v, e, n
  <2>2. /\ e.buffer_ = v /\ e.readerIndex_ = b.readerIndex_ /\ e.writerIndex_ = n
        /\ e \in [buffer_ : Seq(Byte), readerIndex_ : Nat, writerIndex_ : Nat]
    BY <1>2, <2>1 DEF InOrder
  <2> QED
    BY <2>2 DEF n
<1> HIDE DEF v, e
<1>4. InOrder(e)
  BY <1>1, <1>2, <1>3 DEF InOrder
<1>5. /\ Readable(b) \in Seq(Byte) /\ Len(Readable(b)) = w - b.readerIndex_
      /\ \A i \in 1 .. w - b.readerIndex_ : Readable(b)[i] = b.buffer_[b.readerIndex_ + i]
  BY ReadableIs DEF readableBytes
<1>6. /\ t \in Seq(Byte) /\ Len(t) = w - b.readerIndex_ + Len(s)
      /\ \A i \in 1 .. w - b.readerIndex_ + Len(s) :
            t[i] = IF i <= w - b.readerIndex_ THEN Readable(b)[i] ELSE s[i - (w - b.readerIndex_)]
  <2> DEFINE r == Readable(b)
  <2>1. /\ t \in Seq(Byte) /\ Len(t) = Len(r) + Len(s)
        /\ \A i \in 1 .. Len(r) + Len(s) : t[i] = IF i <= Len(r) THEN r[i] ELSE s[i - Len(r)]
    <3> HIDE DEF r
    <3>1. r \in Seq(Byte) /\ t = r \o s
      BY <1>5 DEF r
    <3> HIDE DEF t
    <3> QED
      BY <3>1, ConcatProperties, Zenon
  <2> HIDE DEF t, r
  <2> QED
    BY <1>5, <2>1 DEF r
<1> HIDE DEF t
<1>7. ASSUME NEW i \in 1 .. Len(t)
      PROVE  e.buffer_[b.readerIndex_ + i] = t[i]
  <2> DEFINE j == b.readerIndex_ + i
  <2>1. /\ i \in Nat /\ j \in 1 .. Len(b.buffer_) /\ j - w = i - (w - b.readerIndex_)
        /\ i \in 1 .. w - b.readerIndex_ + Len(s)
    BY <1>1, <1>6
  <2>2. CASE i <= w - b.readerIndex_
    <3>1. j - w \notin 1 .. Len(s) /\ i \in 1 .. w - b.readerIndex_
      BY <1>1, <2>1, <2>2
    <3> QED
      BY <1>2, <1>3, <1>5, <1>6, <2>1, <2>2, <3>1
  <2>3. CASE ~(i <= w - b.readerIndex_)
    <3>1. j - w \in 1 .. Len(s)
      BY <1>1, <2>1, <2>3
    <3> QED
      BY <1>2, <1>3, <1>6, <2>1, <2>3, <3>1
  <2> QED
    BY <2>2, <2>3
<1>8. Len(t) = readableBytes(e)
  BY <1>1, <1>3, <1>6 DEF readableBytes
<1>9. Readable(e) = t
  BY <1>3, <1>4, <1>6, <1>7, <1>8, IsReadable
<1> QED
  BY <1>2, <1>3, <1>4, <1>9 DEF e, t

-------------------------------------------------------------------------------
\* Room is made without a change of what is readable, and the assertions hold.

LEMMA GrowIs ==
    ASSUME NEW b, InOrder(b), NEW n \in Nat, Len(b.buffer_) <= n
    PROVE  LET e == [b EXCEPT !.buffer_ = Resize(@, n)]
           IN InOrder(e) /\ Readable(e) = Readable(b) /\ Len(e.buffer_) = n
              /\ e.writerIndex_ = b.writerIndex_
<1> DEFINE v == Resize(b.buffer_, n)
           e == [b EXCEPT !.buffer_ = v]
<1>1. /\ b.buffer_ \in Seq(Byte) /\ b.readerIndex_ \in Nat /\ b.writerIndex_ \in Nat
      /\ b.readerIndex_ <= b.writerIndex_ /\ Len(b.buffer_) \in Nat
      /\ b.writerIndex_ <= Len(b.buffer_) /\ kCheapPrepend <= Len(b.buffer_)
  BY LenProperties DEF InOrder
<1>2. v \in Seq(Byte) /\ Len(v) = n /\ \A i \in 1 .. n : i <= Len(b.buffer_) => v[i] = b.buffer_[i]
  BY <1>1, ResizeIs
<1> HIDE DEF v
<1>3. /\ e.buffer_ = v /\ e.readerIndex_ = b.readerIndex_ /\ e.writerIndex_ = b.writerIndex_
      /\ e \in [buffer_ : Seq(Byte), readerIndex_ : Nat, writerIndex_ : Nat]
  BY <1>2 DEF InOrder
<1>4. [b EXCEPT !.buffer_ = Resize(@, n)] = e
  BY DEF v
<1> HIDE DEF e
<1>5. InOrder(e)
  BY <1>1, <1>2, <1>3, SizeAssumption DEF InOrder
<1>6. /\ Readable(b) \in Seq(Byte) /\ Len(Readable(b)) = b.writerIndex_ - b.readerIndex_
      /\ \A i \in 1 .. b.writerIndex_ - b.readerIndex_ :
            Readable(b)[i] = b.buffer_[b.readerIndex_ + i]
  BY ReadableIs DEF readableBytes
<1>7. ASSUME NEW i \in 1 .. b.writerIndex_ - b.readerIndex_
      PROVE  e.buffer_[e.readerIndex_ + i] = Readable(b)[i]
  <2>1. b.readerIndex_ + i \in 1 .. n /\ b.readerIndex_ + i <= Len(b.buffer_)
    BY <1>1
  <2> QED
    BY <1>2, <1>3, <1>6, <2>1
<1>8. Len(Readable(b)) = readableBytes(e)
  BY <1>3, <1>6 DEF readableBytes
<1>9. Readable(e) = Readable(b)
  BY <1>5, <1>6, <1>7, <1>8, IsReadable
<1> QED
  BY <1>2, <1>3, <1>4, <1>5, <1>9

\* The data is moved to the front.
Moved(b) ==
    [buffer_      |-> CopyTo(b.buffer_, kCheapPrepend, Readable(b)),
     readerIndex_ |-> kCheapPrepend,
     writerIndex_ |-> kCheapPrepend + readableBytes(b)]

LEMMA MovedIs ==
    ASSUME NEW b, InOrder(b), kCheapPrepend + readableBytes(b) <= Len(b.buffer_)
    PROVE  /\ InOrder(Moved(b)) /\ Readable(Moved(b)) = Readable(b)
           /\ Len(Moved(b).buffer_) = Len(b.buffer_)
<1> DEFINE v == CopyTo(b.buffer_, kCheapPrepend, Readable(b))
           e == Moved(b)
           n == readableBytes(b)
<1>1. /\ b.buffer_ \in Seq(Byte) /\ n \in Nat /\ Len(b.buffer_) \in Nat
      /\ kCheapPrepend \in Nat
  BY LenProperties, SizeAssumption DEF InOrder, readableBytes
<1>2. Readable(b) \in Seq(Byte) /\ Len(Readable(b)) = n
  BY ReadableIs
<1>3. /\ v \in Seq(Byte) /\ Len(v) = Len(b.buffer_)
      /\ \A i \in 1 .. Len(b.buffer_) :
            v[i] = IF i - kCheapPrepend \in 1 .. n THEN Readable(b)[i - kCheapPrepend]
                                                   ELSE b.buffer_[i]
  BY <1>1, <1>2, CopyToIs
<1> HIDE DEF v
<1>4. /\ e.buffer_ = v /\ e.readerIndex_ = kCheapPrepend /\ e.writerIndex_ = kCheapPrepend + n
      /\ e \in [buffer_ : Seq(Byte), readerIndex_ : Nat, writerIndex_ : Nat]
  BY <1>1, <1>3 DEF Moved, v
<1> HIDE DEF e
<1>5. readableBytes(e) = n
  BY <1>1, <1>4 DEF readableBytes
<1> HIDE DEF n
<1>6. InOrder(e)
  BY <1>1, <1>3, <1>4 DEF InOrder, n
<1>7. ASSUME NEW i \in 1 .. n
      PROVE  e.buffer_[e.readerIndex_ + i] = Readable(b)[i]
  <2>1. /\ kCheapPrepend + i \in 1 .. Len(b.buffer_)
        /\ kCheapPrepend + i - kCheapPrepend = i
    BY <1>1 DEF n
  <2> QED
    BY <1>3, <1>4, <2>1
<1>8. Readable(e) = Readable(b)
  BY <1>2, <1>5, <1>6, <1>7, IsReadable
<1> QED
  BY <1>3, <1>4, <1>6, <1>8 DEF e

LEMMA EnsureIs ==
    ASSUME NEW b, InOrder(b), NEW n \in Nat
    PROVE  /\ InOrder(ensureWritableBytes(b, n))
           /\ Readable(ensureWritableBytes(b, n)) = Readable(b)
           /\ n <= writableBytes(ensureWritableBytes(b, n))
           /\ EnsureAsserts(b, n)
<1> DEFINE r == b.readerIndex_
           w == b.writerIndex_
           size == Len(b.buffer_)
           e == ensureWritableBytes(b, n)
<1>1. /\ r \in Nat /\ w \in Nat /\ size \in Nat /\ r <= w /\ w <= size
      /\ kCheapPrepend \in Nat
  BY LenProperties, SizeAssumption DEF InOrder
<1>2. writableBytes(b) = size - w /\ prependableBytes(b) = r /\ readableBytes(b) = w - r
  BY DEF writableBytes, prependableBytes, readableBytes
<1>3. CASE size - w >= n
  BY <1>1, <1>2, <1>3 DEF ensureWritableBytes, EnsureAsserts
<1>4. CASE size - w < n /\ size - w + r < n + kCheapPrepend
  <2>1. e = [b EXCEPT !.buffer_ = Resize(@, w + n)]
    BY <1>1, <1>2, <1>4 DEF ensureWritableBytes, makeSpace
  <2>2. w + n \in Nat /\ size <= w + n
    BY <1>1, <1>4
  <2>3. /\ InOrder(e) /\ Readable(e) = Readable(b) /\ Len(e.buffer_) = w + n
        /\ e.writerIndex_ = w
    BY <2>1, <2>2, GrowIs
  <2> HIDE DEF e
  <2>4. writableBytes(e) = n
    BY <1>1, <2>3 DEF writableBytes
  <2>5. EnsureAsserts(b, n)
    BY <1>2, <1>4, <2>4 DEF EnsureAsserts, MakeSpaceAsserts, e
  <2> QED
    BY <2>3, <2>4, <2>5 DEF e
<1>5. CASE size - w < n /\ ~(size - w + r < n + kCheapPrepend)
  <2>1. e = Moved(b)
    BY <1>1, <1>2, <1>5 DEF ensureWritableBytes, makeSpace, Moved
  <2>2. kCheapPrepend + readableBytes(b) <= size
    BY <1>1, <1>2, <1>5
  <2>3. InOrder(e) /\ Readable(e) = Readable(b) /\ Len(e.buffer_) = size
    BY <2>1, <2>2, MovedIs
  <2>4. e.writerIndex_ = kCheapPrepend + (w - r)
    BY <1>2, <2>1 DEF Moved
  <2> HIDE DEF e
  <2>5. n <= writableBytes(e)
    BY <1>1, <1>5, <2>3, <2>4 DEF writableBytes
  <2>6. EnsureAsserts(b, n)
    <3>1. kCheapPrepend < r
      BY <1>1, <1>5
    <3>2. writableBytes(e) \in Int
      BY <1>1, <2>3, <2>4 DEF writableBytes
    <3> QED
      BY <2>5, <3>1, <3>2 DEF EnsureAsserts, MakeSpaceAsserts, e
  <2> QED
    BY <2>3, <2>5, <2>6 DEF e
<1> QED
  BY <1>1, <1>3, <1>4, <1>5

-------------------------------------------------------------------------------
\* The calls, and what the queue sees of them.

LEMMA AppendIs ==
    ASSUME NEW b, InOrder(b), NEW s \in Seq(Byte)
    PROVE  /\ InOrder(append(b, s))
           /\ Readable(append(b, s)) = Readable(b) \o s
           /\ EnsureAsserts(b, Len(s))
<1> DEFINE e == ensureWritableBytes(b, Len(s))
<1>1. Len(s) \in Nat
  BY LenProperties
<1>2. InOrder(e) /\ Readable(e) = Readable(b) /\ Len(s) <= writableBytes(e) /\ EnsureAsserts(b, Len(s))
  BY <1>1, EnsureIs
<1>3. append(b, s) = Put(e, s)
  BY DEF append, Put
<1> HIDE DEF e
<1> QED
  BY <1>2, <1>3, PutIs

LEMMA PrependIs ==
    ASSUME NEW b, InOrder(b), NEW s \in Seq(Byte), Len(s) <= prependableBytes(b)
    PROVE  /\ InOrder(prepend(b, s))
           /\ Readable(prepend(b, s)) = s \o Readable(b)
<1> DEFINE r == b.readerIndex_ - Len(s)
           v == CopyTo(b.buffer_, r, s)
           e == prepend(b, s)
           t == s \o Readable(b)
           n == b.writerIndex_ - b.readerIndex_
<1>1. /\ b.buffer_ \in Seq(Byte) /\ b.readerIndex_ \in Nat /\ b.writerIndex_ \in Nat
      /\ b.readerIndex_ <= b.writerIndex_ /\ Len(b.buffer_) \in Nat /\ Len(s) \in Nat
      /\ b.writerIndex_ <= Len(b.buffer_) /\ kCheapPrepend <= Len(b.buffer_)
      /\ r \in Nat /\ b.readerIndex_ = r + Len(s)
      /\ n \in Nat /\ b.writerIndex_ = b.readerIndex_ + n
  <2>1. /\ b.buffer_ \in Seq(Byte) /\ b.readerIndex_ \in Nat /\ b.writerIndex_ \in Nat
        /\ b.readerIndex_ <= b.writerIndex_ /\ b.writerIndex_ <= Len(b.buffer_)
        /\ kCheapPrepend <= Len(b.buffer_)
    BY DEF InOrder
  <2>2. Len(b.buffer_) \in Nat /\ Len(s) \in Nat
    BY <2>1, LenProperties
  <2>3. Len(s) <= b.readerIndex_
    BY DEF prependableBytes
  <2> QED
    BY <2>1, <2>2, <2>3
<1>2. /\ v \in Seq(Byte) /\ Len(v) = Len(b.buffer_)
      /\ \A i \in 1 .. Len(b.buffer_) :
            v[i] = IF i - r \in 1 .. Len(s) THEN s[i - r] ELSE b.buffer_[i]
  <2>1. r \in Nat /\ b.buffer_ \in Seq(Byte)
    BY <1>1
  <2> HIDE DEF r
  <2> QED
    BY <2>1, CopyToIs
<1>3. /\ e.buffer_ = v /\ e.readerIndex_ = r /\ e.writerIndex_ = b.writerIndex_
      /\ e \in [buffer_ : Seq(Byte), readerIndex_ : Nat, writerIndex_ : Nat]
  <2>1. e = [b EXCEPT !.buffer_ = v, !.readerIndex_ = r]
    BY <1>1 DEF prepend, InOrder
  <2>2. b \in [buffer_ : Seq(Byte), readerIndex_ : Nat, writerIndex_ : Nat]
    BY DEF InOrder
  <2>3. r \in Nat /\ v \in Seq(Byte)
    BY <1>1, <1>2
  <2> HIDE DEF v, e, r
  <2> QED
    BY <2>1, <2>2, <2>3
<1> HIDE DEF v, e
<1>4. InOrder(e)
  BY <1>1, <1>2, <1>3 DEF InOrder
<1>5. /\ Readable(b) \in Seq(Byte) /\ Len(Readable(b)) = n
      /\ \A i \in 1 .. n : Readable(b)[i] = b.buffer_[b.readerIndex_ + i]
  BY ReadableIs DEF readableBytes
<1>6. /\ t \in Seq(Byte) /\ Len(t) = Len(s) + n
      /\ \A i \in 1 .. Len(s) + n : t[i] = IF i <= Len(s) THEN s[i] ELSE Readable(b)[i - Len(s)]
  <2> DEFINE u == Readable(b)
  <2>1. /\ t \in Seq(Byte) /\ Len(t) = Len(s) + Len(u)
        /\ \A i \in 1 .. Len(s) + Len(u) : t[i] = IF i <= Len(s) THEN s[i] ELSE u[i - Len(s)]
    <3> HIDE DEF u
    <3>1. u \in Seq(Byte) /\ t = s \o u
      BY <1>5 DEF u
    <3> HIDE DEF t
    <3> QED
      BY <3>1, ConcatProperties, Zenon
  <2> HIDE DEF t, u, n
  <2> QED
    BY <1>5, <2>1 DEF u
<1> HIDE DEF t, n, r
<1>7. ASSUME NEW i \in 1 .. Len(t)
      PROVE  e.buffer_[e.readerIndex_ + i] = t[i]
  <2> DEFINE j == r + i
  <2>1. i \in 1 .. Len(s) + n /\ j \in 1 .. Len(b.buffer_) /\ j - r = i
    BY <1>1, <1>6
  <2>2. CASE i <= Len(s)
    BY <1>2, <1>3, <1>6, <2>1, <2>2
  <2>3. CASE ~(i <= Len(s))
    <3>1. /\ j - r \notin 1 .. Len(s) /\ i - Len(s) \in 1 .. n
          /\ j = b.readerIndex_ + (i - Len(s))
      BY <1>1, <2>1, <2>3
    <3> HIDE DEF j
    <3>2. e.buffer_[j] = b.buffer_[j]
      BY <1>2, <1>3, <2>1, <3>1
    <3>3. t[i] = Readable(b)[i - Len(s)]
      BY <1>6, <2>1, <2>3
    <3> QED
      BY <1>3, <1>5, <3>1, <3>2, <3>3 DEF j
  <2> QED
    BY <2>2, <2>3
<1>8. Len(t) = readableBytes(e)
  BY <1>1, <1>3, <1>6 DEF readableBytes, n
<1>9. Readable(e) = t
  BY <1>3, <1>4, <1>6, <1>7, <1>8, IsReadable
<1> QED
  BY <1>4, <1>9 DEF e, t

LEMMA RetrieveAllIs ==
    ASSUME NEW b, InOrder(b)
    PROVE  InOrder(retrieveAll(b)) /\ Readable(retrieveAll(b)) = << >>
<1> DEFINE e == retrieveAll(b)
<1>1. /\ e.buffer_ = b.buffer_ /\ e.readerIndex_ = kCheapPrepend
      /\ e.writerIndex_ = kCheapPrepend
      /\ e \in [buffer_ : Seq(Byte), readerIndex_ : Nat, writerIndex_ : Nat]
  BY SizeAssumption DEF retrieveAll, InOrder
<1> HIDE DEF e
<1>2. InOrder(e) /\ readableBytes(e) = 0
  BY <1>1, SizeAssumption DEF InOrder, readableBytes
<1>3. Readable(e) = << >>
  BY <1>2, NothingReadable
<1> QED
  BY <1>2, <1>3 DEF e

LEMMA RetrieveIs ==
    ASSUME NEW b, InOrder(b), NEW len \in Nat, len <= readableBytes(b)
    PROVE  /\ InOrder(retrieve(b, len))
           /\ Readable(retrieve(b, len)) = SubSeq(Readable(b), len + 1, Len(Readable(b)))
<1> DEFINE s == Readable(b)
           n == readableBytes(b)
           t == SubSeq(s, len + 1, n)
           e == [b EXCEPT !.readerIndex_ = @ + len]
<1>1. /\ s \in Seq(Byte) /\ Len(s) = n
      /\ \A i \in 1 .. n : s[i] = b.buffer_[b.readerIndex_ + i]
  BY ReadableIs
<1>2. /\ b.readerIndex_ \in Nat /\ b.writerIndex_ \in Nat /\ n \in Nat
      /\ b.writerIndex_ = b.readerIndex_ + n
  BY DEF InOrder, readableBytes
<1> HIDE DEF n, s
<1>3. CASE len < n
  <2>1. /\ e.buffer_ = b.buffer_ /\ e.readerIndex_ = b.readerIndex_ + len
        /\ e.writerIndex_ = b.writerIndex_
        /\ e \in [buffer_ : Seq(Byte), readerIndex_ : Nat, writerIndex_ : Nat]
    BY <1>2 DEF InOrder
  <2>2. retrieve(b, len) = e
    BY <1>3 DEF retrieve, n
  <2> HIDE DEF e
  <2>3. InOrder(e) /\ readableBytes(e) = n - len
    BY <1>2, <1>3, <2>1 DEF InOrder, readableBytes
  <2>4. /\ t \in Seq(Byte) /\ Len(t) = n - len
        /\ \A i \in 1 .. n - len : t[i] = s[len + i]
    <3>1. \A i \in len + 1 .. n : s[i] \in Byte
      BY <1>1, <1>2, ElementOfSeq
    <3>2. /\ t \in Seq(Byte) /\ Len(t) = IF len + 1 <= n THEN n - (len + 1) + 1 ELSE 0
          /\ \A i \in 1 .. n - (len + 1) + 1 : t[i] = s[len + 1 + i - 1]
      BY <1>2, <3>1, SubSeqProperties
    <3>3. n - (len + 1) + 1 = n - len /\ \A i \in 1 .. n - len : len + 1 + i - 1 = len + i
      BY <1>2
    <3> HIDE DEF t
    <3> QED
      BY <1>2, <1>3, <3>2, <3>3
  <2> HIDE DEF t
  <2>5. ASSUME NEW i \in 1 .. Len(t)
        PROVE  e.buffer_[e.readerIndex_ + i] = t[i]
    <3>1. i \in 1 .. n - len /\ len + i \in 1 .. n
      BY <1>2, <2>4
    <3>2. b.readerIndex_ + (len + i) = e.readerIndex_ + i
      BY <1>2, <2>1, <3>1
    <3>3. s[len + i] = b.buffer_[b.readerIndex_ + (len + i)]
      BY <1>1, <3>1
    <3> QED
      BY <2>1, <2>4, <3>1, <3>2, <3>3
  <2>6. Readable(e) = t
    BY <2>3, <2>4, <2>5, IsReadable
  <2> QED
    BY <1>1, <2>2, <2>3, <2>6 DEF t, s
<1>4. CASE len = n
  <2>1. retrieve(b, len) = retrieveAll(b)
    BY <1>2, <1>4 DEF retrieve, n
  <2>2. t = << >>
    BY <1>2, <1>4, SubSeqEmpty
  <2> QED
    BY <1>1, <2>1, <2>2, RetrieveAllIs DEF s
<1>5. len <= n
  BY DEF n
<1> QED
  BY <1>2, <1>3, <1>4, <1>5

LEMMA EmptyIs == InOrder(EmptyBuffer) /\ Readable(EmptyBuffer) = << >>
<1> DEFINE v == Blanks(kCheapPrepend + kInitialSize)
           e == EmptyBuffer
<1>1. v \in Seq(Byte) /\ Len(v) = kCheapPrepend + kInitialSize
  BY BlanksIs, SizeAssumption
<1> HIDE DEF v
<1>2. InOrder(e) /\ readableBytes(e) = 0
  BY <1>1, SizeAssumption DEF EmptyBuffer, InOrder, readableBytes, v
<1>3. Readable(e) = << >>
  BY <1>2, NothingReadable
<1> QED
  BY <1>2, <1>3 DEF e

LEMMA ShrinkIs ==
    ASSUME NEW b, InOrder(b), NEW reserve \in Nat
    PROVE  /\ InOrder(shrink(b, reserve)) /\ Readable(shrink(b, reserve)) = << >>
           /\ EnsureAsserts(EmptyBuffer, readableBytes(b) + reserve)
<1>1. readableBytes(b) + reserve \in Nat
  BY DEF InOrder, readableBytes
<1> QED
  BY <1>1, EmptyIs, EnsureIs DEF shrink

\* One readv: what fits goes into the buffer, and the rest is appended to it.
LEMMA StoreIs ==
    ASSUME InOrder(buffer), failed = FALSE, NEW s \in Seq(Byte), Store(s)
    PROVE  /\ InOrder(buffer') /\ failed' = FALSE
           /\ Readable(buffer') = Readable(buffer) \o s
           /\ reading' \in BOOLEAN
           /\ reading' => ExtraSize <= Len(s)
<1> DEFINE n == writableBytes(buffer)
           first == SubSeq(s, 1, n)
           rest == SubSeq(s, n + 1, Len(s))
           full == [buffer EXCEPT !.buffer_ = CopyTo(@, buffer.writerIndex_, first),
                                  !.writerIndex_ = Len(buffer.buffer_)]
<1>1. n \in Nat /\ Len(s) \in Nat /\ n + buffer.writerIndex_ = Len(buffer.buffer_)
  BY LenProperties DEF InOrder, writableBytes
<1>2. CASE Len(s) <= n
  <2>1. buffer' = Put(buffer, s) /\ reading' = FALSE /\ UNCHANGED failed
    BY <1>2 DEF Store, Put
  <2> QED
    BY <1>2, <2>1, PutIs
<1>3. CASE ~(Len(s) <= n)
  <2>1. /\ first \in Seq(Byte) /\ Len(first) = n
        /\ rest \in Seq(Byte)
        /\ first \o rest = s
    <3> HIDE DEF n
    <3>1. /\ \A i \in 1 .. n : s[i] \in Byte
          /\ \A i \in n + 1 .. Len(s) : s[i] \in Byte
      BY <1>1, <1>3, ElementOfSeq
    <3>2. first \in Seq(Byte) /\ Len(first) = IF 1 <= n THEN n - 1 + 1 ELSE 0
      BY <1>1, <3>1, SubSeqProperties
    <3>3. rest \in Seq(Byte)
      BY <1>1, <3>1, SubSeqProperties
    <3>4. SubSeq(s, 1, n) \o SubSeq(s, n + 1, Len(s)) = SubSeq(s, 1, Len(s))
      <4>1. 1 \in 1 .. Len(s) + 1 /\ n \in 1 - 1 .. Len(s) /\ Len(s) \in n .. Len(s)
        BY <1>1, <1>3
      <4> QED
        BY <4>1, ConcatAdjacentSubSeq
    <3>5. SubSeq(s, 1, Len(s)) = s
      BY SubSeqFull
    <3> HIDE DEF first, rest
    <3>6. Len(first) = n
      BY <1>1, <3>2
    <3> QED
      BY <3>2, <3>3, <3>4, <3>5, <3>6 DEF first, rest
  <2>2. full = Put(buffer, first)
    <3>1. buffer.writerIndex_ + Len(first) = Len(buffer.buffer_)
      BY <1>1, <2>1 DEF InOrder
    <3> HIDE DEF first
    <3> QED
      BY <3>1 DEF Put
  <2>3. InOrder(full) /\ Readable(full) = Readable(buffer) \o first
    <3>1. Len(first) <= writableBytes(buffer)
      BY <1>1, <2>1
    <3> HIDE DEF first, full
    <3> QED
      BY <2>1, <2>2, <3>1, PutIs
  <2>4. /\ buffer' = append(full, rest)
        /\ failed' = ~EnsureAsserts(full, Len(rest))
        /\ reading' = (Len(s) = n + ExtraSize)
    BY <1>3 DEF Store
  <2> HIDE DEF first, rest, full
  <2>5. /\ InOrder(buffer') /\ failed' = FALSE
        /\ Readable(buffer') = (Readable(buffer) \o first) \o rest
    BY <2>1, <2>3, <2>4, AppendIs
  <2>6. (Readable(buffer) \o first) \o rest = Readable(buffer) \o s
    <3>1. Readable(buffer) \in Seq(Byte)
      BY ReadableIs
    <3>2. \A r, x, y \in Seq(Byte) : (r \o x) \o y = r \o (x \o y)
      BY ConcatAssociative
    <3>3. (Readable(buffer) \o first) \o rest = Readable(buffer) \o (first \o rest)
      BY <2>1, <3>1, <3>2, Zenon
    <3> QED
      BY <2>1, <3>3, Zenon
  <2>7. reading' \in BOOLEAN /\ (reading' => ExtraSize <= Len(s))
    <3>1. reading' \in BOOLEAN /\ (reading' => Len(s) = n + ExtraSize)
      BY <2>4, Zenon
    <3>2. Len(s) = n + ExtraSize => ExtraSize <= Len(s)
      BY <1>1, SizeAssumption
    <3> QED
      BY <3>1, <3>2, Zenon
  <2> QED
    BY <2>5, <2>6, <2>7
<1> QED
  BY <1>2, <1>3
-------------------------------------------------------------------------------
\* The steps.  Each keeps BufferInv, and is a step of the queue or changes nothing of it.

LEMMA BufferInitInv == Init => BufferInv
<1> SUFFICES ASSUME Init PROVE BufferInv
  OBVIOUS
<1>1. InOrder(buffer)
  BY EmptyIs, Zenon DEF Init
<1>2. reading = FALSE /\ stored = 0 /\ result = 0 /\ failed = FALSE
  BY DEF Init
<1>3. CountInv /\ DataIsNotTakenForClose
  <2>1. CountInv
    BY <1>2, Zenon DEF CountInv
  <2>2. ~(0 > 0)
    OBVIOUS
  <2>3. DataIsNotTakenForClose
    BY <1>2, <2>2, Zenon DEF DataIsNotTakenForClose
  <2> QED
    BY <2>1, <2>3
<1>4. reading \in BOOLEAN /\ stored \in Nat /\ result \in Int
  <2>1. 0 \in Nat /\ 0 \in Int
    OBVIOUS
  <2> QED
    BY <1>2, <2>1, Zenon
<1> QED
  BY <1>1, <1>2, <1>3, <1>4, Zenon DEF BufferInv

LEMMA CallKeeps ==
    ASSUME BufferInv, Call, InOrder(buffer'), failed' = FALSE
    PROVE  BufferInv'
  BY DEF BufferInv, Call, CountInv, DataIsNotTakenForClose

LEMMA AppendStep ==
    ASSUME BufferInv, NEW s \in Chunk, AppendTo(s)
    PROVE  BufferInv' /\ Readable(buffer') = Readable(buffer) \o s
<1>1. s \in Seq(Byte)
  BY ChunkAssumption
<1>2. /\ InOrder(append(buffer, s)) /\ Readable(append(buffer, s)) = Readable(buffer) \o s
      /\ EnsureAsserts(buffer, Len(s))
  BY <1>1, AppendIs DEF BufferInv
<1>3. buffer' = append(buffer, s) /\ failed' = FALSE /\ Call
  BY <1>2 DEF AppendTo
<1> QED
  BY <1>2, <1>3, CallKeeps

LEMMA PrependStep ==
    ASSUME BufferInv, NEW s \in Chunk, PrependTo(s)
    PROVE  BufferInv' /\ Readable(buffer') = s \o Readable(buffer)
<1>1. s \in Seq(Byte)
  BY ChunkAssumption
<1>2. buffer' = prepend(buffer, s) /\ failed' = FALSE /\ Call /\ Len(s) <= prependableBytes(buffer)
  BY DEF PrependTo, BufferInv
<1>3. InOrder(buffer') /\ Readable(buffer') = s \o Readable(buffer)
  BY <1>1, <1>2, PrependIs DEF BufferInv
<1> QED
  BY <1>2, <1>3, CallKeeps

LEMMA RetrieveStep ==
    ASSUME BufferInv, NEW n \in Nat, Retrieve(n)
    PROVE  /\ BufferInv' /\ n <= Len(Readable(buffer))
           /\ Readable(buffer') = SubSeq(Readable(buffer), n + 1, Len(Readable(buffer)))
<1>1. buffer' = retrieve(buffer, n) /\ failed' = FALSE /\ Call /\ n <= readableBytes(buffer)
  BY DEF Retrieve, BufferInv
<1>2. /\ InOrder(buffer')
      /\ Readable(buffer') = SubSeq(Readable(buffer), n + 1, Len(Readable(buffer)))
  BY <1>1, RetrieveIs DEF BufferInv
<1>3. Len(Readable(buffer)) = readableBytes(buffer)
  BY ReadableIs DEF BufferInv
<1> QED
  BY <1>1, <1>2, <1>3, CallKeeps

LEMMA ShrinkStep ==
    ASSUME BufferInv, NEW n \in Nat, Shrink(n)
    PROVE  BufferInv' /\ Readable(buffer') = << >>
<1>1. /\ InOrder(shrink(buffer, n)) /\ Readable(shrink(buffer, n)) = << >>
      /\ EnsureAsserts(EmptyBuffer, readableBytes(buffer) + n)
  BY ShrinkIs DEF BufferInv
<1>2. buffer' = shrink(buffer, n) /\ failed' = FALSE /\ Call
  BY <1>1 DEF Shrink
<1> QED
  BY <1>1, <1>2, CallKeeps

LEMMA ReadStep ==
    ASSUME BufferInv, NEW s \in Chunk, ReadFd(s)
    PROVE  BufferInv' /\ Readable(buffer') = Readable(buffer) \o s
<1>1. s \in Seq(Byte) /\ Len(s) \in Nat
  BY ChunkAssumption, LenProperties
<1>2. /\ InOrder(buffer') /\ failed' = FALSE
      /\ Readable(buffer') = Readable(buffer) \o s
      /\ reading' \in BOOLEAN
      /\ reading' => ExtraSize <= Len(s)
  BY <1>1, StoreIs DEF ReadFd, BufferInv
<1>3. /\ stored \in Nat /\ result \in Int /\ (reading => result = stored)
      /\ stored' = (IF reading THEN stored ELSE 0) + Len(s)
      /\ result' = (IF reading THEN result ELSE 0) + Len(s)
  BY DEF ReadFd, BufferInv, CountInv
<1>4. stored' \in Nat /\ result' = stored' /\ Len(s) <= stored'
  BY <1>1, <1>3
<1>5. reading' => stored' > 1
  BY <1>1, <1>2, <1>4, SizeAssumption
<1> QED
  BY <1>2, <1>4, <1>5 DEF BufferInv, CountInv, DataIsNotTakenForClose

\* A -1 that is added to what has come leaves a positive sum.
LEMMA FailsStep ==
    ASSUME BufferInv, ReadFdFails
    PROVE  BufferInv' /\ Readable(buffer') = Readable(buffer)
<1>1. /\ stored \in Nat /\ result \in Int /\ (reading => result = stored /\ stored > 1)
      /\ stored' = IF reading THEN stored ELSE 0
      /\ result' = (IF reading THEN result ELSE 0) - 1
      /\ reading' = FALSE /\ UNCHANGED <<buffer, failed>>
  BY DEF ReadFdFails, BufferInv, CountInv
<1>2. /\ stored' \in Nat /\ result' \in Int
      /\ (stored' > 0) <=> (result' > 0)
  BY <1>1
<1> QED
  BY <1>1, <1>2 DEF BufferInv, CountInv, DataIsNotTakenForClose

LEMMA BufferStepInv == BufferInv /\ [Next]_vars => BufferInv'
<1> SUFFICES ASSUME BufferInv, [Next]_vars PROVE BufferInv'
  OBVIOUS
<1>1. ASSUME NEW s \in Chunk, AppendTo(s) \/ PrependTo(s) \/ ReadFd(s) PROVE BufferInv'
  BY <1>1, AppendStep, PrependStep, ReadStep
<1>2. ASSUME NEW n \in 0 .. MaxSize, Retrieve(n) \/ Shrink(n) PROVE BufferInv'
  <2>1. n \in Nat
    BY SizeAssumption
  <2> QED
    BY <1>2, <2>1, RetrieveStep, ShrinkStep
<1>3. CASE ReadFdFails
  BY <1>3, FailsStep
<1>4. CASE UNCHANGED vars
  BY <1>4 DEF vars, BufferInv, CountInv, DataIsNotTakenForClose
<1> QED
  BY <1>1, <1>2, <1>3, <1>4 DEF Next

LEMMA StepRefines == BufferInv /\ [Next]_vars => [Abstract!Next]_(Readable(buffer))
<1> SUFFICES ASSUME BufferInv, [Next]_vars
             PROVE  Abstract!Next \/ UNCHANGED Readable(buffer)
  OBVIOUS
<1>1. ASSUME NEW s \in Chunk, AppendTo(s) \/ ReadFd(s) PROVE Abstract!PutBack
  BY <1>1, AppendStep, ReadStep DEF Abstract!PutBack
<1>2. ASSUME NEW s \in Chunk, PrependTo(s) PROVE Abstract!PutFront
  BY <1>2, PrependStep DEF Abstract!PutFront
<1>3. ASSUME NEW n \in 0 .. MaxSize, Retrieve(n) PROVE Abstract!Take
  <2>1. n \in Nat
    BY SizeAssumption
  <2>2. Len(Readable(buffer)) \in Nat
    BY ReadableIs, LenProperties DEF BufferInv
  <2>3. /\ n <= Len(Readable(buffer))
        /\ Readable(buffer)' = SubSeq(Readable(buffer), n + 1, Len(Readable(buffer)))
    BY <1>3, <2>1, RetrieveStep DEF Readable
  <2>4. n \in 0 .. Len(Readable(buffer))
    BY <2>1, <2>2, <2>3
  <2> QED
    BY <2>3, <2>4, Zenon DEF Abstract!Take
<1>4. ASSUME NEW n \in 0 .. MaxSize, Shrink(n) PROVE Abstract!Take
  <2> DEFINE size == Len(Readable(buffer))
  <2>1. n \in Nat
    BY SizeAssumption
  <2>2. size \in 0 .. size
    BY ReadableIs, LenProperties DEF BufferInv
  <2>3. Readable(buffer)' = << >>
    BY <1>4, <2>1, ShrinkStep DEF Readable
  <2>4. SubSeq(Readable(buffer), size + 1, size) = << >>
    BY <2>2, SubSeqEmpty
  <2> QED
    BY <2>2, <2>3, <2>4, Zenon DEF Abstract!Take
<1>5. CASE ReadFdFails
  BY <1>5, FailsStep DEF Readable
<1>6. CASE UNCHANGED vars
  BY <1>6 DEF vars, Readable
<1> QED
  BY <1>1, <1>2, <1>3, <1>4, <1>5, <1>6 DEF Next, Abstract!Next

\* BufferInv holds in every state.
THEOREM BufferInvariance == Spec => []BufferInv
  BY BufferInitInv, BufferStepInv, PTL DEF Spec

\* No sequence of legal calls makes an assertion of makeSpace or ensureWritableBytes fail
\* or moves the indexes out of order, and readFd never returns zero or a negative number
\* when it has stored data, whatever the chunks and the sizes of buffer and stack are.
THEOREM BufferIsSafe == Spec => []AssertionsHold
<1>1. BufferInv => AssertionsHold
  BY DEF BufferInv, InOrder, AssertionsHold, TypeOK, IndexesInOrder
<1> QED
  BY <1>1, BufferInvariance, PTL

\* What is readable is a queue of bytes: no call loses, changes or reorders it.
THEOREM BufferIsQueue == Spec => ImplementsQueue
<1>1. Init => Abstract!Init
  BY EmptyIs DEF Init, Abstract!Init
<1> QED
  BY <1>1, BufferInvariance, StepRefines, PTL DEF Spec, ImplementsQueue, Abstract!Spec

-------------------------------------------------------------------------------
\* Connector.

\* The functors that wait, those of the round first.
Line == batch \o k.queue

Has(s, f)  == \E i \in 1 .. Len(s) : s[i] = f
Once(s, f) == \A i, j \in 1 .. Len(s) : s[i] = f /\ s[j] = f => i = j

\* Every stopInLoop is before a startInLoop.
StopsFirst(s) ==
    \A i \in 1 .. Len(s) : s[i] = "stopInLoop" =>
        \E j \in 1 .. Len(s) : i < j /\ s[j] = "startInLoop"

If(P) == IF P THEN 1 ELSE 0

\* The loop: what it has to do in a round is there only in its part of the round.
RoundInv ==
    /\ pc # "functors" => batch = << >>
    /\ pc # "events" => active = {}
    /\ "timer" \in active => k.timers > 0
    /\ Runs /\ "channel" \in active => k.channel_ = "armed" /\ socket \in {"done", "refused"}

\* An attempt has its channel in epoll; a channel that has left it waits for its one reset.
\* Every timer, and the attempt under way, stands for a call of connect(2).
ChannelInv ==
    Runs => /\ k.state_ = "kConnecting" <=> k.channel_ = "armed"
            /\ k.channel_ = "removed" <=> Has(Line, "resetChannel")
            /\ Once(Line, "resetChannel")
            /\ k.timers + If(k.state_ = "kConnecting") <= k.attempts

\* Who wants to connect has a way to the next attempt.
TryingInv ==
    connect_ /\ user # "starting" /\ Runs /\ ~k.gaveUp /\ k.state_ # "kConnected" =>
        k.timers > 0 \/ k.state_ = "kConnecting" \/ Has(Line, "startInLoop")

\* After one start() there is one way or none: the call itself, its functor, a timer, or an
\* attempt, which may have ended well.
OneWay ==
    /\ Once(Line, "startInLoop")
    /\ k.timers + If(k.state_ # "kDisconnected") + If(Has(Line, "startInLoop"))
          + If(user = "starting") <= 1

\* Before it there is none; and while it is on its way nothing has been tried.
NothingYet ==
    /\ starts = 0 => /\ ~connect_ /\ k.timers = 0 /\ k.state_ = "kDisconnected"
                     /\ user # "starting" /\ ~Has(Line, "startInLoop") /\ k.channel_ = "none"
    /\ user = "starting" \/ Has(Line, "startInLoop") => k.channel_ = "none"

\* Once stopped, a client that does not connect again is stopped for good: while it wants
\* to connect, a stopInLoop that waits was queued before the startInLoop and does nothing,
\* and the reset of a channel runs before the next timer does.
StoppedForGood ==
    Runs /\ connect_ =>
        /\ user # "stopping"
        /\ user = "starting" \/ StopsFirst(Line)
        /\ k.channel_ = "removed" => \/ pc = "events" /\ "timer" \notin active
                                     \/ pc = "functors" /\ Has(batch, "resetChannel")

OnceInv ==
    starts <= 1 => k.aborted # "connector" /\ OneWay /\ NothingYet /\ StoppedForGood

ConnectorInv == ClientTypeOK /\ starts <= calls /\ RoundInv /\ ChannelInv /\ TryingInv /\ OnceInv
-------------------------------------------------------------------------------
\* Lines of functors.

LEMMA AppendLine ==
    ASSUME NEW s \in Seq(Functors), NEW g \in Functors
    PROVE  /\ Append(s, g) \in Seq(Functors)
           /\ \A f : Has(Append(s, g), f) <=> Has(s, f) \/ f = g
           /\ \A f : Once(s, f) /\ (f = g => ~Has(s, f)) => Once(Append(s, g), f)
           /\ g = "startInLoop" => StopsFirst(Append(s, g))
           /\ g = "resetChannel" /\ StopsFirst(s) => StopsFirst(Append(s, g))
<1> DEFINE t == Append(s, g)
           n == Len(s)
<1>1. /\ t \in Seq(Functors) /\ Len(t) = n + 1 /\ n \in Nat
      /\ \A i \in 1 .. n : t[i] = s[i]
      /\ t[n + 1] = g
  BY AppendProperties, LenProperties
<1> HIDE DEF t, n
<1>2. \A f : Has(t, f) <=> Has(s, f) \/ f = g
  <2> TAKE f
  <2>1. ASSUME NEW i \in 1 .. Len(t), t[i] = f PROVE Has(s, f) \/ f = g
    BY <1>1, <2>1 DEF Has, n
  <2>2. ASSUME NEW i \in 1 .. n, s[i] = f PROVE Has(t, f)
    BY <1>1, <2>2 DEF Has
  <2>3. g = f => Has(t, f)
    <3>1. n + 1 \in 1 .. Len(t)
      BY <1>1
    <3> QED
      BY <1>1, <3>1 DEF Has
  <2> QED
    BY <2>1, <2>2, <2>3 DEF Has, n
<1>3. ASSUME NEW f, Once(s, f), f = g => ~Has(s, f)
      PROVE  Once(t, f)
  <2> SUFFICES ASSUME NEW i \in 1 .. Len(t), NEW j \in 1 .. Len(t), t[i] = f, t[j] = f
               PROVE  i = j
    BY DEF Once
  <2>1. CASE f = g
    BY <1>1, <1>3, <2>1 DEF Has, n
  <2>2. CASE f # g
    BY <1>1, <1>3, <2>2 DEF Once, n
  <2> QED
    BY <2>1, <2>2
<1>4. g = "startInLoop" => StopsFirst(t)
  <2> SUFFICES ASSUME g = "startInLoop", NEW i \in 1 .. Len(t), t[i] = "stopInLoop"
               PROVE  \E j \in 1 .. Len(t) : i < j /\ t[j] = "startInLoop"
    BY DEF StopsFirst
  <2>1. i < n + 1 /\ n + 1 \in 1 .. Len(t)
    BY <1>1
  <2> QED
    BY <1>1, <2>1
<1>5. ASSUME g = "resetChannel", StopsFirst(s) PROVE StopsFirst(t)
  <2> SUFFICES ASSUME NEW i \in 1 .. Len(t), t[i] = "stopInLoop"
               PROVE  \E j \in 1 .. Len(t) : i < j /\ t[j] = "startInLoop"
    BY DEF StopsFirst
  <2>1. i \in 1 .. n /\ s[i] = "stopInLoop"
    BY <1>1, <1>5
  <2>2. PICK j \in 1 .. n : i < j /\ s[j] = "startInLoop"
    BY <1>5, <2>1 DEF StopsFirst, n
  <2>3. j \in 1 .. Len(t) /\ t[j] = "startInLoop"
    BY <1>1, <2>2
  <2> QED
    BY <2>2, <2>3
<1> QED
  BY <1>1, <1>2, <1>3, <1>4, <1>5 DEF t

LEMMA TailLine ==
    ASSUME NEW s \in Seq(Functors), s # << >>
    PROVE  /\ Tail(s) \in Seq(Functors)
           /\ Head(s) \in Functors
           /\ Has(s, Head(s))
           /\ \A f : Has(s, f) <=> Head(s) = f \/ Has(Tail(s), f)
           /\ \A f : Once(s, f) => Once(Tail(s), f) /\ (Head(s) = f => ~Has(Tail(s), f))
           /\ StopsFirst(s) => /\ Head(s) = "stopInLoop" => Has(Tail(s), "startInLoop")
                               /\ Head(s) # "startInLoop" => StopsFirst(Tail(s))
                               /\ Once(s, "startInLoop") => StopsFirst(Tail(s))
<1> DEFINE t == Tail(s)
           n == Len(t)
           h == Head(s)
<1>1. /\ t \in Seq(Functors) /\ h \in Functors /\ Len(s) = n + 1 /\ n \in Nat
      /\ \A i \in 1 .. n : t[i] = s[i + 1]
      /\ s[1] = h
  BY HeadTailProperties, LenProperties
<1> HIDE DEF t, n, h
<1>2. 1 \in 1 .. Len(s) /\ Has(s, h)
  BY <1>1 DEF Has
<1>3. ASSUME NEW i \in 1 .. Len(s)
      PROVE  i = 1 \/ (i - 1 \in 1 .. n /\ t[i - 1] = s[i])
  <2>1. i # 1 => i - 1 \in 1 .. n /\ i - 1 + 1 = i
    BY <1>1
  <2> QED
    BY <1>1, <2>1
<1>4. ASSUME NEW i \in 1 .. n
      PROVE  i + 1 \in 1 .. Len(s) /\ s[i + 1] = t[i] /\ i + 1 # 1
  BY <1>1
<1>5. \A f : Has(s, f) <=> h = f \/ Has(t, f)
  <2> TAKE f
  <2>1. ASSUME NEW i \in 1 .. Len(s), s[i] = f PROVE h = f \/ Has(t, f)
    BY <1>1, <1>3, <2>1 DEF Has, n
  <2>2. ASSUME NEW i \in 1 .. n, t[i] = f PROVE Has(s, f)
    BY <1>4, <2>2 DEF Has
  <2>3. h = f => Has(s, f)
    BY <1>2
  <2> QED
    BY <2>1, <2>2, <2>3 DEF Has, n
<1>6. ASSUME NEW f, Once(s, f)
      PROVE  Once(t, f) /\ (h = f => ~Has(t, f))
  <2>1. ASSUME NEW i \in 1 .. n, NEW j \in 1 .. n, t[i] = f, t[j] = f PROVE i = j
    <3>1. i + 1 = j + 1
      BY <1>4, <1>6, <2>1 DEF Once
    <3> QED
      BY <3>1
  <2>2. ASSUME NEW i \in 1 .. n, t[i] = f, h = f PROVE FALSE
    BY <1>1, <1>2, <1>4, <1>6, <2>2 DEF Once
  <2> QED
    BY <2>1, <2>2 DEF Once, Has, n
<1>7. ASSUME StopsFirst(s)
      PROVE  /\ h = "stopInLoop" => Has(t, "startInLoop")
             /\ h # "startInLoop" => StopsFirst(t)
             /\ Once(s, "startInLoop") => StopsFirst(t)
  <2>1. ASSUME NEW i \in 1 .. Len(s), s[i] = "stopInLoop"
        PROVE  \E j \in 1 .. n : i < j + 1 /\ t[j] = "startInLoop"
    <3>1. PICK j \in 1 .. Len(s) : i < j /\ s[j] = "startInLoop"
      BY <1>7, <2>1 DEF StopsFirst
    <3>2. j - 1 \in 1 .. n /\ t[j - 1] = "startInLoop" /\ i < j - 1 + 1
      BY <1>3, <3>1
    <3> QED
      BY <3>2
  <2>2. StopsFirst(t)
    <3> SUFFICES ASSUME NEW i \in 1 .. n, t[i] = "stopInLoop"
                 PROVE  \E j \in 1 .. n : i < j /\ t[j] = "startInLoop"
      BY DEF StopsFirst, n
    <3>1. PICK j \in 1 .. n : i + 1 < j + 1 /\ t[j] = "startInLoop"
      BY <1>4, <2>1
    <3> QED
      BY <3>1
  <2>3. h = "stopInLoop" => Has(t, "startInLoop")
    BY <1>1, <1>2, <2>1 DEF Has, n
  <2> QED
    BY <2>2, <2>3
<1> QED
  BY <1>1, <1>2, <1>5, <1>6, <1>7 DEF t, h

\* The line when a functor is queued, when the queue is swapped out, and when one has run.
LEMMA LineQueued ==
    ASSUME NEW b \in Seq(Functors), NEW q \in Seq(Functors), NEW f \in Functors
    PROVE  b \o Append(q, f) = Append(b \o q, f)
  BY AppendIsConcat, ConcatAssociative, ConcatProperties

LEMMA LineSwapped ==
    ASSUME NEW q \in Seq(Functors)
    PROVE  q \o << >> = << >> \o q
  BY ConcatEmptySeq

LEMMA LineRun ==
    ASSUME NEW b \in Seq(Functors), NEW q \in Seq(Functors), b # << >>
    PROVE  Tail(b) \o q = Tail(b \o q) /\ Head(b \o q) = Head(b) /\ b \o q # << >>
           /\ b \o q \in Seq(Functors)
  OBVIOUS

LEMMA WaitingIs ==
    ASSUME ClientTypeOK, NEW f
    PROVE  Waiting(f) <=> Has(Line, f)
<1> DEFINE q == k.queue
           n == Len(batch)
           m == Len(q)
           s == batch \o q
<1>1. /\ batch \in Seq(Functors) /\ q \in Seq(Functors) /\ n \in Nat /\ m \in Nat
  BY LenProperties DEF ClientTypeOK
<1> HIDE DEF q
<1>2. /\ Len(s) = n + m
      /\ \A i \in 1 .. n + m : s[i] = IF i <= n THEN batch[i] ELSE q[i - n]
  BY <1>1, ConcatProperties
<1> HIDE DEF n, m, s
<1>3. ASSUME NEW i \in 1 .. Len(s), s[i] = f PROVE Waiting(f)
  <2>1. CASE i <= n
    <3>1. i \in 1 .. n /\ batch[i] = f
      BY <1>1, <1>2, <1>3, <2>1
    <3> QED
      BY <3>1 DEF Waiting, Contains, n
  <2>2. CASE ~(i <= n)
    <3>1. i - n \in 1 .. m /\ q[i - n] = f
      BY <1>1, <1>2, <1>3, <2>2
    <3> QED
      BY <3>1 DEF Waiting, Contains, m, q
  <2> QED
    BY <2>1, <2>2
<1>4. ASSUME NEW i \in 1 .. n, batch[i] = f PROVE Has(s, f)
  <2>1. i \in 1 .. Len(s) /\ s[i] = f
    BY <1>1, <1>2, <1>4
  <2> QED
    BY <2>1 DEF Has
<1>5. ASSUME NEW i \in 1 .. m, q[i] = f PROVE Has(s, f)
  <2>1. i + n \in 1 .. Len(s) /\ s[i + n] = f
    <3>1. i + n \in 1 .. n + m /\ i + n - n = i /\ ~(i + n <= n)
      BY <1>1
    <3>2. PICK j \in Nat : j = i + n
      BY <1>1
    <3>3. j \in 1 .. n + m /\ j - n = i /\ ~(j <= n)
      BY <1>1, <3>2
    <3> QED
      BY <1>2, <1>5, <3>2, <3>3
  <2> QED
    BY <2>1 DEF Has
<1> QED
  BY <1>3, <1>4, <1>5 DEF Waiting, Contains, Has, Line, s, q, n, m

-------------------------------------------------------------------------------
\* What the members of Connector do.

\* The record of ClientTypeOK.
Record == [state_   : {"kDisconnected", "kConnecting", "kConnected"},
           channel_ : {"none", "armed", "removed"},
           queue    : Seq(Functors),
           timers   : 0 .. MaxAttempts,
           attempts : 0 .. MaxAttempts,
           gaveUp   : BOOLEAN,
           aborted  : {"no", "connector", "connection"}]

\* The same without the bound.
Loose == [state_   : {"kDisconnected", "kConnecting", "kConnected"},
          channel_ : {"none", "armed", "removed"},
          queue    : Seq(Functors),
          timers   : Nat,
          attempts : Nat,
          gaveUp   : BOOLEAN,
          aborted  : {"no", "connector", "connection"}]

LEMMA LooseIs ==
    ASSUME NEW r \in Loose, r.timers <= MaxAttempts, r.attempts <= MaxAttempts
    PROVE  r \in Record
  BY BoundsAssumption DEF Loose, Record

\* A connection is tried, or not: what startInLoop leaves.
Tried(r, s) ==
    \/ /\ r.state_ # "kDisconnected" /\ s.state_ = r.state_ /\ s.channel_ = r.channel_
       /\ s.timers = r.timers /\ s.attempts = r.attempts /\ s.gaveUp = r.gaveUp
       /\ s.aborted = "connector"
    \/ r.state_ = "kDisconnected" /\ ~connect_ /\ s = r
    \/ /\ r.state_ = "kDisconnected" /\ connect_ /\ s.attempts = r.attempts + 1
       /\ s.attempts <= MaxAttempts
       /\ \/ /\ s.state_ = "kConnecting" /\ s.channel_ = "armed"
             /\ s.timers = r.timers /\ s.gaveUp = r.gaveUp
             /\ s.aborted = IF r.channel_ = "none" THEN r.aborted ELSE "connector"
          \/ /\ s.state_ = "kDisconnected" /\ s.channel_ = r.channel_
             /\ s.timers = r.timers + 1 /\ s.gaveUp = r.gaveUp /\ s.aborted = r.aborted
          \/ /\ s.state_ = "kDisconnected" /\ s.channel_ = r.channel_
             /\ s.timers = r.timers /\ s.gaveUp = TRUE /\ s.aborted = r.aborted

LEMMA StartsIs ==
    ASSUME NEW r \in Record, r.timers < MaxAttempts \/ r.timers <= r.attempts,
           NEW s \in Starts(r), connect_ \in BOOLEAN
    PROVE  Tried(r, s) /\ s.queue = r.queue /\ s \in Record
<1>0. /\ r.timers \in Nat /\ r.attempts \in 0 .. MaxAttempts /\ MaxAttempts \in Nat
  BY BoundsAssumption DEF Record
<1>1. CASE r.state_ # "kDisconnected"
  <2>1. s = [r EXCEPT !.aborted = "connector"]
    BY <1>1 DEF Starts, startInLoop, Asserted
  <2> QED
    BY <1>1, <2>1 DEF Tried, Record
<1>2. CASE r.state_ = "kDisconnected" /\ ~connect_
  BY <1>2 DEF Starts, startInLoop, Tried
<1>3. CASE r.state_ = "kDisconnected" /\ connect_
  <2> DEFINE t == [r EXCEPT !.attempts = @ + 1]
  <2>1. r.attempts # MaxAttempts /\ s \in {connecting(t), retry(t), [t EXCEPT !.gaveUp = TRUE]}
    BY <1>3 DEF Starts, startInLoop, connect
  <2>2. /\ t.attempts = r.attempts + 1 /\ t.attempts <= MaxAttempts
        /\ t.state_ = r.state_ /\ t.channel_ = r.channel_ /\ t.timers = r.timers
        /\ t.gaveUp = r.gaveUp /\ t.aborted = r.aborted /\ t.queue = r.queue
        /\ t \in Loose
    BY <1>0, <2>1 DEF Record, Loose
  <2>6. r.timers + 1 <= MaxAttempts
    BY <1>0, <2>1
  <2> HIDE DEF t
  <2>3. CASE s = connecting(t)
    <3>1. /\ s.state_ = "kConnecting" /\ s.channel_ = "armed" /\ s.queue = t.queue
          /\ s.timers = t.timers /\ s.gaveUp = t.gaveUp /\ s.attempts = t.attempts
          /\ s.aborted = IF t.channel_ = "none" THEN t.aborted ELSE "connector"
      BY <2>2, <2>3 DEF connecting, Asserted, Loose
    <3>2. s \in Record
      <4>1. s \in Loose
        BY <1>0, <2>2, <2>3 DEF connecting, Asserted, Loose
      <4> QED
        BY <1>0, <2>2, <2>6, <3>1, <4>1, LooseIs
    <3> QED
      BY <1>3, <2>2, <3>1, <3>2 DEF Tried
  <2>4. CASE s = retry(t)
    <3>1. /\ s.state_ = "kDisconnected" /\ s.channel_ = t.channel_ /\ s.queue = t.queue
          /\ s.timers = t.timers + 1 /\ s.gaveUp = t.gaveUp /\ s.aborted = t.aborted
          /\ s.attempts = t.attempts
      BY <1>3, <2>2, <2>4 DEF retry, Loose
    <3>2. s \in Record
      <4>1. /\ t.timers + 1 \in Nat
            /\ s = [t EXCEPT !.state_ = "kDisconnected", !.timers = t.timers + 1]
        BY <1>0, <1>3, <2>2, <2>4 DEF retry, Loose
      <4>2. s \in Loose
        BY <2>2, <4>1 DEF Loose
      <4> QED
        BY <1>0, <2>2, <2>6, <3>1, <4>2, LooseIs
    <3> QED
      BY <1>3, <2>2, <3>1, <3>2 DEF Tried
  <2>5. CASE s = [t EXCEPT !.gaveUp = TRUE]
    <3>1. /\ s.state_ = t.state_ /\ s.channel_ = t.channel_ /\ s.queue = t.queue
          /\ s.timers = t.timers /\ s.gaveUp = TRUE /\ s.aborted = t.aborted
          /\ s.attempts = t.attempts
      BY <2>2, <2>5 DEF Loose
    <3>2. s \in Record
      <4>1. s \in Loose
        BY <1>0, <2>2, <2>5 DEF Loose
      <4> QED
        BY <1>0, <2>2, <2>6, <3>1, <4>1, LooseIs
    <3> QED
      BY <1>3, <2>2, <3>1, <3>2 DEF Tried
  <2> QED
    BY <2>1, <2>3, <2>4, <2>5
<1> QED
  BY <1>1, <1>2, <1>3

\* stopInLoop, or an attempt that ends and is tried again if the client still wants it.
LEMMA EndIs ==
    ASSUME NEW r \in Record, NEW s, s = retry(removeAndResetChannel(r)), connect_ \in BOOLEAN
    PROVE  /\ s.state_ = "kDisconnected" /\ s.channel_ = "removed"
           /\ s.queue = Append(r.queue, "resetChannel")
           /\ s.timers = r.timers + If(connect_)
           /\ s.attempts = r.attempts /\ s.gaveUp = r.gaveUp /\ s.aborted = r.aborted
<1> DEFINE t == removeAndResetChannel(r)
<1>1. /\ t.state_ = r.state_ /\ t.channel_ = "removed"
      /\ t.queue = Append(r.queue, "resetChannel")
      /\ t.timers = r.timers /\ t.attempts = r.attempts /\ t.gaveUp = r.gaveUp
      /\ t.aborted = r.aborted
      /\ t \in [state_   : {"kDisconnected", "kConnecting", "kConnected"},
                channel_ : {"none", "armed", "removed"},
                queue    : {Append(r.queue, "resetChannel")},
                timers   : 0 .. MaxAttempts,
                attempts : 0 .. MaxAttempts,
                gaveUp   : BOOLEAN,
                aborted  : {"no", "connector", "connection"}]
  BY DEF removeAndResetChannel, Queued, Record
<1>2. r.timers \in Nat
  BY BoundsAssumption DEF Record
<1> HIDE DEF t
<1> QED
  BY <1>1, <1>2 DEF retry, If, t

LEMMA ConnectedIs ==
    ASSUME NEW r \in Record, NEW s,
           s = [removeAndResetChannel(r) EXCEPT !.state_ = "kConnected"]
    PROVE  /\ s.state_ = "kConnected" /\ s.channel_ = "removed"
           /\ s.queue = Append(r.queue, "resetChannel") /\ s.timers = r.timers
           /\ s.attempts = r.attempts /\ s.gaveUp = r.gaveUp /\ s.aborted = r.aborted
           /\ newConnection(s) = [s EXCEPT !.aborted = "connection"]
           /\ s \in [state_   : {"kDisconnected", "kConnecting", "kConnected"},
                     channel_ : {"none", "armed", "removed"},
                     queue    : {Append(r.queue, "resetChannel")},
                     timers   : 0 .. MaxAttempts,
                     attempts : 0 .. MaxAttempts,
                     gaveUp   : BOOLEAN,
                     aborted  : {"no", "connector", "connection"}]
  BY DEF removeAndResetChannel, Queued, Record, newConnection

-------------------------------------------------------------------------------
\* The steps.

LEMMA TypesAre ==
    ClientTypeOK <=> /\ connect_ \in BOOLEAN
                     /\ k \in Record
                     /\ socket \in {"none", "pending", "done", "refused"}
                     /\ pc \in {"poll", "events", "functors"}
                     /\ active \in SUBSET {"channel", "timer"}
                     /\ batch \in Seq(Functors)
                     /\ user \in {"out", "starting", "stopping"}
                     /\ calls \in 0 .. MaxCalls
                     /\ starts \in 0 .. MaxCalls
  BY DEF ClientTypeOK, Record

LEMMA LineIs == ClientTypeOK => Line \in Seq(Functors)
  BY ConcatProperties DEF ClientTypeOK, Line

LEMMA ConnectorInitInv == ClientInit => ConnectorInv
<1> SUFFICES ASSUME ClientInit PROVE ConnectorInv
  OBVIOUS
<1>1. << >> \in Seq(Functors) /\ << >> \o << >> = << >> /\ Len(<< >>) = 0
  BY EmptySeq, ConcatEmptySeq
<1>2. Line = << >> /\ \A f : ~Has(Line, f) /\ Once(Line, f)
  BY <1>1 DEF ClientInit, Line, Has, Once
<1>3. ClientTypeOK
  <2>1. k \in Record
    BY <1>1, BoundsAssumption DEF ClientInit, Record
  <2>2. connect_ \in BOOLEAN
    BY Zenon DEF ClientInit
  <2>3. /\ socket = "none" /\ pc = "poll" /\ active = {} /\ batch \in Seq(Functors)
        /\ user = "out" /\ calls \in 0 .. MaxCalls /\ starts \in 0 .. MaxCalls
    BY <1>1, BoundsAssumption DEF ClientInit
  <2> QED
    BY <2>1, <2>2, <2>3, TypesAre
<1>4. RoundInv
  BY DEF ClientInit, RoundInv
<1>5. ChannelInv
  BY <1>2 DEF ClientInit, ChannelInv, If
<1>6. TryingInv
  BY DEF ClientInit, TryingInv
<1>7. OnceInv
  BY <1>2 DEF ClientInit, OnceInv, OneWay, NothingYet, StoppedForGood, If
<1>8. starts <= calls
  BY DEF ClientInit
<1> QED
  BY <1>3, <1>4, <1>5, <1>6, <1>7, <1>8 DEF ConnectorInv

\* Steps that only move the loop on.
LEMMA PollStep == ASSUME ConnectorInv, Poll PROVE ConnectorInv'
<1>1. /\ Runs /\ pc = "poll" /\ active' \in SUBSET {"channel", "timer"} /\ pc' = "events"
      /\ "channel" \in active' <=> k.channel_ = "armed" /\ socket \in {"done", "refused"}
      /\ "timer" \in active' => k.timers > 0
      /\ UNCHANGED <<connect_, k, socket, batch, user, calls, starts>>
  BY DEF Poll
<1>2. Line' = Line /\ Runs'
  BY <1>1 DEF Line, Runs
<1>3. ClientTypeOK'
  BY <1>1 DEF ClientTypeOK, ConnectorInv
<1>4. RoundInv'
  BY <1>1, <1>2 DEF ConnectorInv, RoundInv
<1>5. ChannelInv' /\ TryingInv'
  BY <1>1, <1>2 DEF ConnectorInv, ChannelInv, TryingInv
<1>6. OnceInv'
  BY <1>1, <1>2 DEF ConnectorInv, OnceInv, OneWay, NothingYet, StoppedForGood
<1> QED
  BY <1>1, <1>3, <1>4, <1>5, <1>6 DEF ConnectorInv

LEMMA SwapStep == ASSUME ConnectorInv, Swap PROVE ConnectorInv'
<1> DEFINE q == k.queue
<1>1. /\ Runs /\ pc = "events" /\ pc' = "functors" /\ active = {}
      /\ batch' = q /\ k' = [k EXCEPT !.queue = << >>]
      /\ UNCHANGED <<connect_, socket, active, user, calls, starts>>
  BY DEF Swap
<1>2. q \in Seq(Functors) /\ << >> \in Seq(Functors) /\ k \in Record /\ batch = << >>
  BY <1>1, EmptySeq, TypesAre DEF Record, ConnectorInv, RoundInv
<1>3. /\ k' \in Record /\ k'.queue = << >> /\ k'.state_ = k.state_ /\ k'.channel_ = k.channel_
      /\ k'.timers = k.timers /\ k'.attempts = k.attempts /\ k'.gaveUp = k.gaveUp
      /\ k'.aborted = k.aborted
  BY <1>1, <1>2 DEF Record
<1> HIDE DEF q
<1>4. Line' = Line /\ Runs'
  <2>1. Line' = q \o << >> /\ Line = << >> \o q
    BY <1>1, <1>2, <1>3 DEF Line, q
  <2>2. q \o << >> = << >> \o q
    BY <1>2, LineSwapped
  <2> QED
    BY <1>1, <1>3, <2>1, <2>2 DEF Runs
<1>5. ClientTypeOK'
  BY <1>1, <1>2, <1>3, TypesAre DEF ConnectorInv, ClientTypeOK, Record
<1>6. RoundInv'
  BY <1>1, <1>3 DEF RoundInv
<1>7. ChannelInv' /\ TryingInv'
  BY <1>1, <1>3, <1>4 DEF ConnectorInv, ChannelInv, TryingInv
<1>8. OnceInv'
  <2>1. Has(Line, "resetChannel") => Has(batch', "resetChannel")
    <3>1. << >> \o q = q
      BY <1>2, ConcatEmptySeq
    <3>2. Line = batch'
      BY <1>1, <1>2, <3>1 DEF Line, q
    <3> QED
      BY <3>2
  <2>2. k.channel_ = "removed" => Has(batch', "resetChannel")
    BY <1>1, <2>1 DEF ConnectorInv, ChannelInv
  <2> QED
    BY <1>1, <1>3, <1>4, <2>2 DEF ConnectorInv, OnceInv, OneWay, NothingYet, StoppedForGood
<1> QED
  BY <1>1, <1>5, <1>6, <1>7, <1>8 DEF ConnectorInv

LEMMA EndRoundStep == ASSUME ConnectorInv, EndRound PROVE ConnectorInv'
<1>1. /\ Runs /\ pc = "functors" /\ batch = << >> /\ pc' = "poll"
      /\ UNCHANGED <<connect_, k, socket, active, batch, user, calls, starts>>
  BY DEF EndRound
<1>2. Line' = Line /\ Runs' /\ ~Has(batch, "resetChannel")
  <2>1. Len(<< >>) = 0
    BY EmptySeq
  <2> QED
    BY <1>1, <2>1 DEF Line, Runs, Has
<1>3. ClientTypeOK' /\ RoundInv'
  BY <1>1, <1>2 DEF ClientTypeOK, ConnectorInv, RoundInv
<1>4. ChannelInv' /\ TryingInv'
  BY <1>1, <1>2 DEF ConnectorInv, ChannelInv, TryingInv
<1>5. OnceInv'
  BY <1>1, <1>2 DEF ConnectorInv, OnceInv, OneWay, NothingYet, StoppedForGood
<1> QED
  BY <1>1, <1>3, <1>4, <1>5 DEF ConnectorInv

LEMMA AnswerStep == ASSUME ConnectorInv, Answer PROVE ConnectorInv'
<1>1. /\ socket = "pending" /\ socket' \in {"done", "refused"}
      /\ UNCHANGED <<connect_, k, pc, active, batch, user, calls, starts>>
  BY DEF Answer
<1>2. Line' = Line /\ (Runs' <=> Runs)
  BY <1>1 DEF Line, Runs
<1>3. ClientTypeOK' /\ RoundInv'
  BY <1>1, <1>2 DEF ClientTypeOK, ConnectorInv, RoundInv
<1>4. ChannelInv' /\ TryingInv'
  BY <1>1, <1>2 DEF ConnectorInv, ChannelInv, TryingInv
<1>5. OnceInv'
  BY <1>1, <1>2 DEF ConnectorInv, OnceInv, OneWay, NothingYet, StoppedForGood
<1> QED
  BY <1>1, <1>3, <1>4, <1>5 DEF ConnectorInv

\* The user.
LEMMA CallConnectStep == ASSUME ConnectorInv, CallConnect PROVE ConnectorInv'
<1>1. /\ user = "out" /\ calls < MaxCalls /\ connect_' = TRUE /\ user' = "starting"
      /\ calls' = calls + 1 /\ starts' = starts + 1
      /\ UNCHANGED <<k, socket, pc, active, batch>>
  BY DEF CallConnect
<1>2. Line' = Line /\ (Runs' <=> Runs)
  BY <1>1 DEF Line, Runs
<1>3. calls' \in 0 .. MaxCalls /\ starts' \in 0 .. MaxCalls /\ starts' <= calls'
      /\ (starts' <= 1 => starts = 0)
  BY <1>1, BoundsAssumption DEF ConnectorInv, ClientTypeOK
<1>4. ClientTypeOK' /\ RoundInv'
  BY <1>1, <1>2, <1>3 DEF ClientTypeOK, ConnectorInv, RoundInv
<1>5. ChannelInv' /\ TryingInv'
  BY <1>1, <1>2 DEF ConnectorInv, ChannelInv, TryingInv
<1>6. OnceInv'
  <2>1. SUFFICES ASSUME starts = 0, starts' = 1 PROVE OnceInv'
    BY <1>1, <1>3 DEF OnceInv, ConnectorInv, ClientTypeOK
  <2>2. /\ k.aborted # "connector" /\ Once(Line, "startInLoop")
        /\ k.timers = 0 /\ k.state_ = "kDisconnected" /\ ~Has(Line, "startInLoop")
        /\ k.channel_ = "none"
    BY <2>1 DEF ConnectorInv, OnceInv, OneWay, NothingYet
  <2>3. OneWay'
    BY <1>1, <1>2, <2>2 DEF OneWay, If
  <2> QED
    BY <1>1, <1>2, <2>1, <2>2, <2>3 DEF OnceInv, NothingYet, StoppedForGood
<1> QED
  BY <1>3, <1>4, <1>5, <1>6 DEF ConnectorInv

LEMMA CallStopStep == ASSUME ConnectorInv, CallStop PROVE ConnectorInv'
<1>1. /\ user = "out" /\ calls < MaxCalls /\ connect_' = FALSE /\ user' = "stopping"
      /\ calls' = calls + 1
      /\ UNCHANGED <<k, socket, pc, active, batch, starts>>
  BY DEF CallStop
<1>2. Line' = Line /\ (Runs' <=> Runs)
  BY <1>1 DEF Line, Runs
<1>3. calls' \in 0 .. MaxCalls /\ starts' <= calls'
  BY <1>1, BoundsAssumption DEF ConnectorInv, ClientTypeOK
<1>4. ClientTypeOK' /\ RoundInv'
  BY <1>1, <1>2, <1>3 DEF ClientTypeOK, ConnectorInv, RoundInv
<1>5. ChannelInv' /\ TryingInv'
  BY <1>1, <1>2 DEF ConnectorInv, ChannelInv, TryingInv
<1>6. OnceInv'
  BY <1>1, <1>2 DEF ConnectorInv, OnceInv, OneWay, NothingYet, StoppedForGood
<1> QED
  BY <1>3, <1>4, <1>5, <1>6 DEF ConnectorInv

\* A functor is queued.
LEMMA QueuedIs ==
    ASSUME ClientTypeOK, NEW f \in Functors, k' = Queued(k, f), batch' = batch
    PROVE  /\ k' \in Record /\ k'.state_ = k.state_ /\ k'.channel_ = k.channel_
           /\ k'.timers = k.timers /\ k'.attempts = k.attempts /\ k'.gaveUp = k.gaveUp
           /\ k'.aborted = k.aborted
           /\ Line' = Append(Line, f) /\ Line \in Seq(Functors)
<1>1. k \in Record /\ k.queue \in Seq(Functors) /\ batch \in Seq(Functors)
  BY TypesAre DEF Record
<1>2. Append(k.queue, f) \in Seq(Functors)
  BY <1>1, AppendProperties
<1>3. k' = [k EXCEPT !.queue = Append(k.queue, f)]
  BY <1>1 DEF Queued, Record
<1>4. /\ k' \in Record /\ k'.state_ = k.state_ /\ k'.channel_ = k.channel_
      /\ k'.timers = k.timers /\ k'.attempts = k.attempts /\ k'.gaveUp = k.gaveUp
      /\ k'.aborted = k.aborted /\ k'.queue = Append(k.queue, f)
  BY <1>1, <1>2, <1>3 DEF Record
<1>5. Line' = Append(Line, f)
  BY <1>1, <1>4, LineQueued DEF Line
<1> QED
  BY <1>4, <1>5, LineIs

LEMMA QueueStep == ASSUME ConnectorInv, Queue PROVE ConnectorInv'
<1> DEFINE f == IF user = "starting" THEN "startInLoop" ELSE "stopInLoop"
<1>1. /\ user # "out" /\ k' = Queued(k, f) /\ user' = "out"
      /\ UNCHANGED <<connect_, socket, pc, active, batch, calls, starts>>
  BY DEF Queue
<1>2. f \in Functors
  BY DEF Functors
<1>3. /\ k' \in Record /\ k'.state_ = k.state_ /\ k'.channel_ = k.channel_
      /\ k'.timers = k.timers /\ k'.attempts = k.attempts /\ k'.gaveUp = k.gaveUp
      /\ k'.aborted = k.aborted
      /\ Line' = Append(Line, f) /\ Line \in Seq(Functors)
  BY <1>1, <1>2, QueuedIs DEF ConnectorInv
<1>4. /\ \A g : Has(Line', g) <=> Has(Line, g) \/ g = f
      /\ \A g : Once(Line, g) /\ (g = f => ~Has(Line, g)) => Once(Line', g)
      /\ f = "startInLoop" => StopsFirst(Line')
  BY <1>2, <1>3, AppendLine
<1>5. Runs' <=> Runs
  BY <1>3 DEF Runs
<1>6. ClientTypeOK' /\ RoundInv'
  BY <1>1, <1>3, <1>5, TypesAre DEF ClientTypeOK, Record, ConnectorInv, RoundInv
<1>7. ChannelInv' /\ TryingInv'
  BY <1>1, <1>3, <1>4, <1>5 DEF ConnectorInv, ChannelInv, TryingInv
<1>8. OnceInv'
  <2>1. SUFFICES ASSUME starts <= 1 PROVE OnceInv'
    BY <1>1 DEF OnceInv
  <2>2. k.aborted # "connector" /\ OneWay /\ NothingYet /\ StoppedForGood
    BY <2>1 DEF ConnectorInv, OnceInv
  <2>3. k.timers \in Nat
    BY TypesAre DEF ConnectorInv, Record
  <2>4. CASE user = "starting"
    <3>1. ~Has(Line, "startInLoop") /\ Has(Line', "startInLoop") /\ Once(Line', "startInLoop")
      BY <1>4, <2>2, <2>3, <2>4 DEF OneWay, If
    <3>2. OneWay'
      BY <1>1, <1>3, <2>2, <2>3, <2>4, <3>1 DEF OneWay, If
    <3> QED
      BY <1>1, <1>3, <1>4, <1>5, <2>2, <2>4, <3>2 DEF OnceInv, NothingYet, StoppedForGood
  <2>5. CASE user = "stopping"
    <3>1. /\ Has(Line', "startInLoop") <=> Has(Line, "startInLoop")
          /\ Once(Line', "startInLoop")
      BY <1>4, <2>2, <2>5 DEF OneWay
    <3>2. OneWay'
      BY <1>1, <1>3, <2>2, <2>3, <2>5, <3>1 DEF OneWay, If
    <3> QED
      BY <1>1, <1>3, <1>5, <2>2, <2>5, <3>1, <3>2 DEF OnceInv, NothingYet, StoppedForGood
  <2> QED
    BY <1>1, <2>4, <2>5, TypesAre DEF ConnectorInv
<1> QED
  BY <1>1, <1>6, <1>7, <1>8 DEF ConnectorInv

LEMMA StopInCallbackStep == ASSUME ConnectorInv, StopInCallback PROVE ConnectorInv'
<1>1. /\ calls < MaxCalls /\ connect_' = FALSE /\ k' = Queued(k, "stopInLoop")
      /\ calls' = calls + 1 /\ "stopInLoop" \in Functors
      /\ UNCHANGED <<socket, pc, active, batch, user, starts>>
  BY DEF StopInCallback, Functors
<1>2. /\ k' \in Record /\ k'.state_ = k.state_ /\ k'.channel_ = k.channel_
      /\ k'.timers = k.timers /\ k'.attempts = k.attempts /\ k'.gaveUp = k.gaveUp
      /\ k'.aborted = k.aborted
      /\ Line' = Append(Line, "stopInLoop") /\ Line \in Seq(Functors)
  BY <1>1, QueuedIs DEF ConnectorInv
<1>3. /\ \A g : Has(Line', g) <=> Has(Line, g) \/ g = "stopInLoop"
      /\ \A g : Once(Line, g) /\ (g = "stopInLoop" => ~Has(Line, g)) => Once(Line', g)
  BY <1>1, <1>2, AppendLine
<1>4. (Runs' <=> Runs) /\ calls' \in 0 .. MaxCalls /\ starts' <= calls'
  BY <1>1, <1>2, BoundsAssumption DEF Runs, ConnectorInv, ClientTypeOK
<1>5. ClientTypeOK' /\ RoundInv'
  BY <1>1, <1>2, <1>4, TypesAre DEF ClientTypeOK, Record, ConnectorInv, RoundInv
<1>6. ChannelInv' /\ TryingInv'
  BY <1>1, <1>2, <1>3, <1>4 DEF ConnectorInv, ChannelInv, TryingInv
<1>7. OnceInv'
  <2>1. SUFFICES ASSUME starts <= 1 PROVE OnceInv'
    BY <1>1 DEF OnceInv
  <2>2. k.aborted # "connector" /\ OneWay /\ NothingYet
    BY <2>1 DEF ConnectorInv, OnceInv
  <2>3. /\ Has(Line', "startInLoop") <=> Has(Line, "startInLoop")
        /\ Once(Line', "startInLoop")
    BY <1>3, <2>2 DEF OneWay
  <2>4. OneWay'
    BY <1>1, <1>2, <2>2, <2>3 DEF OneWay, If
  <2> QED
    BY <1>1, <1>2, <2>2, <2>3, <2>4 DEF OnceInv, NothingYet, StoppedForGood
<1> QED
  BY <1>4, <1>5, <1>6, <1>7 DEF ConnectorInv

\* The events of a round.
LEMMA HandleChannelStep == ASSUME ConnectorInv, HandleChannel PROVE ConnectorInv'
<1>1. /\ Runs /\ pc = "events" /\ "channel" \in active
      /\ k' \in IF socket = "refused" THEN {handleError(k)} ELSE handleWrite(k)
      /\ socket' = "none" /\ active' = active \ {"channel"}
      /\ UNCHANGED <<connect_, pc, batch, user, calls, starts>>
  BY DEF HandleChannel
<1>2. /\ k \in Record /\ connect_ \in BOOLEAN /\ k.aborted = "no"
      /\ k.state_ = "kConnecting" /\ k.channel_ = "armed" /\ k.timers \in 0 .. MaxAttempts
      /\ k.timers + 1 <= k.attempts /\ k.attempts \in 0 .. MaxAttempts
      /\ MaxAttempts \in Nat /\ k.queue \in Seq(Functors)
  BY <1>1, TypesAre, BoundsAssumption DEF ConnectorInv, RoundInv, ChannelInv, Runs, If, Record
<1>3. /\ k'.channel_ = "removed" /\ k'.queue = Append(k.queue, "resetChannel")
      /\ k'.attempts = k.attempts /\ k'.gaveUp = k.gaveUp
      /\ \/ k'.state_ = "kDisconnected" /\ k'.timers = k.timers + If(connect_) /\ k'.aborted = "no"
         \/ k'.state_ = "kConnected" /\ k'.timers = k.timers /\ k'.aborted \in {"no", "connection"}
      /\ k' \in Record
  <2>0. /\ k.timers + If(connect_) \in 0 .. MaxAttempts
        /\ Append(k.queue, "resetChannel") \in Seq(Functors)
    BY <1>2, AppendProperties DEF If, Functors
  <2> DEFINE e == retry(removeAndResetChannel(k))
             c == [removeAndResetChannel(k) EXCEPT !.state_ = "kConnected"]
  <2>1. k' \in {e, c, newConnection(c)}
    BY <1>1, <1>2 DEF handleError, handleWrite, Asserted
  <2>2. CASE k' = e
    <3>1. /\ e.state_ = "kDisconnected" /\ e.channel_ = "removed"
          /\ e.queue = Append(k.queue, "resetChannel")
          /\ e.timers = k.timers + If(connect_)
          /\ e.attempts = k.attempts /\ e.gaveUp = k.gaveUp /\ e.aborted = k.aborted
      BY <1>2, EndIs
    <3>2. e \in Record
      BY <1>2, <2>0 DEF retry, removeAndResetChannel, Queued, Record, If
    <3> HIDE DEF e
    <3> QED
      BY <1>2, <2>2, <3>1, <3>2
  <2>3. CASE k' = c \/ k' = newConnection(c)
    <3>1. /\ c.state_ = "kConnected" /\ c.channel_ = "removed"
          /\ c.queue = Append(k.queue, "resetChannel") /\ c.timers = k.timers
          /\ c.attempts = k.attempts /\ c.gaveUp = k.gaveUp /\ c.aborted = k.aborted
          /\ newConnection(c) = [c EXCEPT !.aborted = "connection"]
          /\ c \in [state_   : {"kDisconnected", "kConnecting", "kConnected"},
                    channel_ : {"none", "armed", "removed"},
                    queue    : {Append(k.queue, "resetChannel")},
                    timers   : 0 .. MaxAttempts,
                    attempts : 0 .. MaxAttempts,
                    gaveUp   : BOOLEAN,
                    aborted  : {"no", "connector", "connection"}]
      BY <1>2, ConnectedIs
    <3> HIDE DEF c
    <3>2. c \in Record
      BY <2>0, <3>1 DEF Record
    <3> QED
      BY <1>2, <2>3, <3>1, <3>2 DEF Record
  <2> QED
    BY <2>1, <2>2, <2>3
<1>4. Line' = Append(Line, "resetChannel") /\ Line \in Seq(Functors)
  BY <1>1, <1>2, <1>3, LineQueued, LineIs DEF Line, ConnectorInv, ClientTypeOK, Functors
<1>5. /\ \A g : Has(Line', g) <=> Has(Line, g) \/ g = "resetChannel"
      /\ \A g : Once(Line, g) /\ (g = "resetChannel" => ~Has(Line, g)) => Once(Line', g)
      /\ StopsFirst(Line) => StopsFirst(Line')
  BY <1>4, AppendLine DEF Functors
<1>6. ClientTypeOK'
  BY <1>1, <1>3, TypesAre DEF ConnectorInv, ClientTypeOK, Record
<1>7. RoundInv'
  <2>1. "timer" \in active' => k'.timers > 0
    BY <1>1, <1>2, <1>3 DEF ConnectorInv, RoundInv, If
  <2> QED
    BY <1>1, <2>1 DEF ConnectorInv, RoundInv
<1>8. ChannelInv'
  <2>1. Once(Line', "resetChannel") /\ Has(Line', "resetChannel")
    BY <1>1, <1>2, <1>5 DEF ConnectorInv, ChannelInv
  <2> QED
    BY <1>2, <1>3, <2>1 DEF ChannelInv, If
<1>9. TryingInv'
  BY <1>1, <1>2, <1>3 DEF TryingInv, If
<1>10. OnceInv'
  <2>1. SUFFICES ASSUME starts <= 1 PROVE OnceInv'
    BY <1>1 DEF OnceInv
  <2>2. OneWay /\ NothingYet /\ StoppedForGood
    BY <2>1 DEF ConnectorInv, OnceInv
  <2>3. k.timers = 0 /\ ~Has(Line, "startInLoop") /\ user # "starting" /\ starts # 0
    BY <1>2, <2>2 DEF OneWay, NothingYet, If
  <2>4. ~Has(Line', "startInLoop") /\ Once(Line', "startInLoop")
    BY <1>5, <2>2, <2>3 DEF OneWay
  <2>5. OneWay'
    BY <1>1, <1>3, <2>3, <2>4 DEF OneWay, If
  <2>6. "timer" \notin active'
    BY <1>1, <2>3 DEF ConnectorInv, RoundInv
  <2>7. NothingYet'
    BY <1>1, <2>3, <2>4 DEF NothingYet
  <2>8. StoppedForGood'
    BY <1>1, <1>5, <2>2, <2>3, <2>6 DEF StoppedForGood
  <2> QED
    BY <1>3, <2>5, <2>7, <2>8 DEF OnceInv
<1> QED
  BY <1>1, <1>6, <1>7, <1>8, <1>9, <1>10 DEF ConnectorInv

LEMMA HandleTimerStep == ASSUME ConnectorInv, HandleTimer PROVE ConnectorInv'
<1> DEFINE r == [k EXCEPT !.timers = k.timers - 1]
<1>1. /\ Runs /\ pc = "events" /\ "timer" \in active
      /\ k' \in Starts(r)
      /\ socket' = IF k'.state_ = "kConnecting" /\ k.state_ # "kConnecting" THEN "pending"
                                                                            ELSE socket
      /\ active' = active \ {"timer"}
      /\ UNCHANGED <<connect_, pc, batch, user, calls, starts>>
  BY TypesAre DEF HandleTimer, ConnectorInv, Record
<1>2. /\ k \in Record /\ connect_ \in BOOLEAN /\ k.aborted = "no"
      /\ k.timers \in 1 .. MaxAttempts /\ k.attempts \in 0 .. MaxAttempts
      /\ k.timers + If(k.state_ = "kConnecting") <= k.attempts
      /\ k.state_ = "kConnecting" <=> k.channel_ = "armed"
      /\ MaxAttempts \in Nat
  BY <1>1, TypesAre, BoundsAssumption DEF ConnectorInv, RoundInv, ChannelInv, Runs, Record
<1>3. /\ r \in Record /\ r.state_ = k.state_ /\ r.channel_ = k.channel_ /\ r.queue = k.queue
      /\ r.timers = k.timers - 1 /\ r.attempts = k.attempts /\ r.gaveUp = k.gaveUp
      /\ r.aborted = k.aborted
  BY <1>2 DEF Record
<1> HIDE DEF r
<1>4. Tried(r, k') /\ k'.queue = k.queue /\ k' \in Record
  BY <1>1, <1>2, <1>3, StartsIs
<1>5. Line' = Line
  BY <1>1, <1>4 DEF Line
<1>6. CASE r.state_ # "kDisconnected"
  <2>1. ~Runs' /\ k'.aborted = "connector" /\ k'.timers = k.timers - 1 /\ k'.state_ = k.state_
    BY <1>3, <1>4, <1>6 DEF Tried, Runs
  <2>2. starts > 1
    <3>1. starts <= 1 => k.timers + If(k.state_ # "kDisconnected") <= 1
      BY <1>2 DEF ConnectorInv, OnceInv, OneWay, If
    <3> QED
      BY <1>2, <1>3, <1>6, <3>1 DEF If, ConnectorInv, ClientTypeOK
  <2>3. ClientTypeOK'
    BY <1>1, <1>4, TypesAre DEF ConnectorInv, ClientTypeOK, Record
  <2>4. RoundInv'
    BY <1>1, <2>1 DEF ConnectorInv, RoundInv
  <2>5. ChannelInv' /\ TryingInv'
    BY <2>1 DEF ChannelInv, TryingInv
  <2>6. OnceInv'
    BY <1>1, <2>2, BoundsAssumption DEF OnceInv, ConnectorInv, ClientTypeOK
  <2> QED
    BY <1>1, <2>3, <2>4, <2>5, <2>6 DEF ConnectorInv
<1>7. CASE r.state_ = "kDisconnected"
  <2>1. /\ k.channel_ # "armed" /\ k.state_ = "kDisconnected" /\ k.timers <= k.attempts
        /\ "channel" \notin active
    BY <1>1, <1>2, <1>3, <1>7 DEF If, ConnectorInv, RoundInv
  <2>2. \/ /\ ~connect_ /\ k'.state_ = "kDisconnected" /\ k'.channel_ = k.channel_
           /\ k'.timers = k.timers - 1 /\ k'.attempts = k.attempts /\ k'.aborted = "no"
        \/ /\ connect_ /\ k'.attempts = k.attempts + 1
           /\ \/ /\ k'.state_ = "kConnecting" /\ k'.channel_ = "armed"
                 /\ k'.timers = k.timers - 1
                 /\ k'.aborted = IF k.channel_ = "none" THEN "no" ELSE "connector"
              \/ /\ k'.state_ = "kDisconnected" /\ k'.channel_ = k.channel_
                 /\ k'.timers = k.timers /\ k'.aborted = "no"
              \/ /\ k'.state_ = "kDisconnected" /\ k'.channel_ = k.channel_
                 /\ k'.timers = k.timers - 1 /\ k'.gaveUp = TRUE /\ k'.aborted = "no"
    BY <1>2, <1>3, <1>4, <1>7 DEF Tried
  <2>3. ClientTypeOK'
    BY <1>1, <1>4, TypesAre DEF ConnectorInv, ClientTypeOK, Record
  <2>4. RoundInv'
    BY <1>1, <2>1 DEF ConnectorInv, RoundInv
  <2>5. ChannelInv'
    BY <1>1, <1>2, <1>5, <2>1, <2>2 DEF ConnectorInv, ChannelInv, Runs, If
  <2>6. TryingInv'
    BY <1>2, <2>2, <1>1 DEF TryingInv
  <2>7. OnceInv'
    <3>1. SUFFICES ASSUME starts <= 1 PROVE OnceInv'
      BY <1>1 DEF OnceInv
    <3>2. OneWay /\ NothingYet /\ StoppedForGood
      BY <3>1 DEF ConnectorInv, OnceInv
    <3>3. k.timers = 1 /\ ~Has(Line, "startInLoop") /\ user # "starting" /\ starts # 0
      BY <1>2, <3>2 DEF OneWay, NothingYet, If
    <3>4. connect_ => k.channel_ = "none"
      BY <1>1, <1>2, <2>1, <3>2 DEF StoppedForGood, Record
    <3>5. OneWay'
      BY <1>1, <1>5, <2>2, <3>2, <3>3 DEF OneWay, If
    <3>6. NothingYet' /\ k'.aborted # "connector"
      BY <1>1, <1>5, <2>2, <3>3, <3>4 DEF NothingYet
    <3>7. StoppedForGood'
      BY <1>1, <1>5, <2>2, <3>2, <3>3, <3>4 DEF StoppedForGood
    <3> QED
      BY <3>5, <3>6, <3>7 DEF OnceInv
  <2> QED
    BY <1>1, <2>3, <2>4, <2>5, <2>6, <2>7 DEF ConnectorInv
<1> QED
  BY <1>6, <1>7

\* A functor runs.
LEMMA RunFunctorIs ==
    ASSUME ConnectorInv, RunFunctor, NEW s, s = Tail(Line)
    PROVE  /\ s \in Seq(Functors)
           /\ Tail(batch) \in Seq(Functors) /\ Head(batch) \in Functors
           /\ \A f : Has(Line, f) <=> Head(batch) = f \/ Has(s, f)
           /\ \A f : Once(Line, f) => Once(s, f) /\ (Head(batch) = f => ~Has(s, f))
           /\ StopsFirst(Line) => /\ Head(batch) = "stopInLoop" => Has(s, "startInLoop")
                                  /\ Head(batch) # "startInLoop" => StopsFirst(s)
                                  /\ Once(Line, "startInLoop") => StopsFirst(s)
           /\ \A f : Has(batch, f) <=> Head(batch) = f \/ Has(Tail(batch), f)
           /\ k'.queue = k.queue => Line' = s
           /\ k'.queue = Append(k.queue, "resetChannel") => Line' = Append(s, "resetChannel")
<1>1. batch # << >> /\ batch \in Seq(Functors) /\ k.queue \in Seq(Functors)
      /\ batch' = Tail(batch)
  BY TypesAre DEF RunFunctor, ConnectorInv, Record
<1>2. /\ Tail(batch) \o k.queue = Tail(Line) /\ Head(Line) = Head(batch)
      /\ Line # << >> /\ Line \in Seq(Functors)
  BY <1>1, LineRun DEF Line
<1>3. /\ Tail(batch) \in Seq(Functors) /\ Head(batch) \in Functors
      /\ \A f : Has(batch, f) <=> Head(batch) = f \/ Has(Tail(batch), f)
  BY <1>1, TailLine
<1>4. /\ Tail(Line) \in Seq(Functors)
      /\ \A f : Has(Line, f) <=> Head(Line) = f \/ Has(Tail(Line), f)
      /\ \A f : Once(Line, f) => Once(Tail(Line), f) /\ (Head(Line) = f => ~Has(Tail(Line), f))
      /\ StopsFirst(Line) => /\ Head(Line) = "stopInLoop" => Has(Tail(Line), "startInLoop")
                             /\ Head(Line) # "startInLoop" => StopsFirst(Tail(Line))
                             /\ Once(Line, "startInLoop") => StopsFirst(Tail(Line))
  BY <1>2, TailLine
<1>5. k'.queue = k.queue => Line' = s
  BY <1>1, <1>2 DEF Line
<1>6. k'.queue = Append(k.queue, "resetChannel") => Line' = Append(s, "resetChannel")
  BY <1>1, <1>2, <1>3, LineQueued DEF Line, Functors
<1> QED
  BY <1>2, <1>3, <1>4, <1>5, <1>6

\* What does not depend on the functor: the round goes on, and nothing is handled in it.
LEMMA RunKeeps ==
    ASSUME ConnectorInv, RunFunctor, k' \in Record
    PROVE  ClientTypeOK' /\ RoundInv'
<1>1. /\ pc = "functors" /\ batch' = Tail(batch) /\ active = {} /\ Tail(batch) \in Seq(Functors)
      /\ UNCHANGED <<connect_, pc, active, user, calls, starts>>
      /\ socket' = IF k'.state_ # "kConnecting" THEN "none"
                   ELSE IF k.state_ # "kConnecting" THEN "pending" ELSE socket
  BY RunFunctorIs DEF RunFunctor, ConnectorInv, RoundInv
<1> QED
  BY <1>1, TypesAre DEF ConnectorInv, ClientTypeOK, Record, RoundInv

\* startInLoop.
LEMMA StartRuns ==
    ASSUME ConnectorInv, RunFunctor, Head(batch) = "startInLoop"
    PROVE  ConnectorInv'
<1> DEFINE s == Tail(Line)
<1>1. /\ Runs /\ pc = "functors" /\ k' \in Starts(k) /\ batch' = Tail(batch)
      /\ UNCHANGED <<connect_, pc, active, user, calls, starts>>
  BY DEF RunFunctor
<1>2. /\ k \in Record /\ connect_ \in BOOLEAN /\ k.aborted = "no"
      /\ k.timers \in 0 .. MaxAttempts /\ k.attempts \in 0 .. MaxAttempts
      /\ k.timers + If(k.state_ = "kConnecting") <= k.attempts
      /\ k.state_ = "kConnecting" <=> k.channel_ = "armed"
      /\ k.channel_ = "removed" <=> Has(Line, "resetChannel")
      /\ Once(Line, "resetChannel")
      /\ MaxAttempts \in Nat
  BY <1>1, TypesAre, BoundsAssumption DEF ConnectorInv, ChannelInv, Runs, Record
<1>3. k.timers <= k.attempts
  BY <1>2 DEF If
<1>4. Tried(k, k') /\ k'.queue = k.queue /\ k' \in Record
  BY <1>1, <1>2, <1>3, StartsIs
<1>5. /\ \A f : Has(Line, f) <=> f = "startInLoop" \/ Has(s, f)
      /\ \A f : Once(Line, f) => Once(s, f)
      /\ Once(Line, "startInLoop") => ~Has(s, "startInLoop")
      /\ StopsFirst(Line) /\ Once(Line, "startInLoop") => StopsFirst(s)
      /\ Line' = s
  BY <1>4, RunFunctorIs
<1> HIDE DEF s
<1>6. ClientTypeOK' /\ RoundInv'
  BY <1>4, RunKeeps
<1>7. starts <= 1 => /\ k.timers = 0 /\ k.state_ = "kDisconnected" /\ user # "starting"
                     /\ k.channel_ = "none" /\ starts # 0
                     /\ ~Has(s, "startInLoop") /\ Once(s, "startInLoop")
                     /\ connect_ => user # "stopping" /\ StopsFirst(s)
  <2> SUFFICES ASSUME starts <= 1
               PROVE  /\ k.timers = 0 /\ k.state_ = "kDisconnected" /\ user # "starting"
                      /\ k.channel_ = "none" /\ starts # 0
                      /\ ~Has(s, "startInLoop") /\ Once(s, "startInLoop")
                      /\ connect_ => user # "stopping" /\ StopsFirst(s)
    OBVIOUS
  <2>1. OneWay /\ NothingYet /\ StoppedForGood
    BY DEF ConnectorInv, OnceInv
  <2>2. Has(Line, "startInLoop")
    BY <1>5
  <2>3. k.timers = 0 /\ k.state_ = "kDisconnected" /\ user # "starting"
    BY <1>2, <2>1, <2>2 DEF OneWay, If
  <2> QED
    BY <1>1, <1>5, <2>1, <2>2, <2>3 DEF OneWay, NothingYet, StoppedForGood
<1>8. ChannelInv' /\ TryingInv' /\ OnceInv'
  <2>1. CASE k.state_ # "kDisconnected"
    <3>1. ~Runs' /\ starts > 1
      BY <1>4, <1>7, <2>1, BoundsAssumption DEF Tried, Runs, ConnectorInv, ClientTypeOK
    <3> QED
      BY <1>1, <3>1, BoundsAssumption DEF ChannelInv, TryingInv, OnceInv, ConnectorInv, ClientTypeOK
  <2>2. CASE k.state_ = "kDisconnected" /\ ~connect_
    <3>1. k' = k
      BY <1>4, <2>2 DEF Tried
    <3>2. ChannelInv'
      BY <1>2, <1>5, <3>1 DEF ChannelInv
    <3>3. TryingInv'
      BY <1>1, <2>2 DEF TryingInv
    <3>4. OnceInv'
      <4>1. SUFFICES ASSUME starts <= 1 PROVE OnceInv'
        BY <1>1 DEF OnceInv
      <4>2. OneWay'
        BY <1>1, <1>5, <1>7, <3>1, <4>1 DEF OneWay, If
      <4>3. NothingYet' /\ k'.aborted # "connector"
        BY <1>1, <1>2, <1>5, <1>7, <3>1, <4>1 DEF NothingYet
      <4> QED
        BY <1>1, <2>2, <4>2, <4>3 DEF OnceInv, StoppedForGood
    <3> QED
      BY <3>2, <3>3, <3>4
  <2>3. CASE k.state_ = "kDisconnected" /\ connect_
    <3>1. /\ k'.attempts = k.attempts + 1
          /\ \/ /\ k'.state_ = "kConnecting" /\ k'.channel_ = "armed"
                /\ k'.timers = k.timers
                /\ k'.aborted = IF k.channel_ = "none" THEN "no" ELSE "connector"
             \/ /\ k'.state_ = "kDisconnected" /\ k'.channel_ = k.channel_
                /\ k'.timers = k.timers + 1 /\ k'.aborted = "no"
             \/ /\ k'.state_ = "kDisconnected" /\ k'.channel_ = k.channel_
                /\ k'.timers = k.timers /\ k'.gaveUp = TRUE /\ k'.aborted = "no"
      BY <1>2, <1>4, <2>3 DEF Tried
    <3>2. ChannelInv'
      BY <1>2, <1>3, <1>5, <2>3, <3>1 DEF ChannelInv, Runs, If
    <3>3. TryingInv'
      BY <1>2, <3>1 DEF TryingInv
    <3>4. OnceInv'
      <4>1. SUFFICES ASSUME starts <= 1 PROVE OnceInv'
        BY <1>1 DEF OnceInv
      <4>2. OneWay'
        BY <1>1, <1>5, <1>7, <3>1, <4>1 DEF OneWay, If
      <4>3. NothingYet' /\ k'.aborted # "connector"
        BY <1>1, <1>5, <1>7, <3>1, <4>1 DEF NothingYet
      <4>4. StoppedForGood'
        BY <1>1, <1>5, <1>7, <2>3, <3>1, <4>1 DEF StoppedForGood
      <4> QED
        BY <4>2, <4>3, <4>4 DEF OnceInv
    <3> QED
      BY <3>2, <3>3, <3>4
  <2> QED
    BY <1>2, <2>1, <2>2, <2>3
<1> QED
  BY <1>1, <1>6, <1>8 DEF ConnectorInv

\* stopInLoop.
LEMMA StopRuns ==
    ASSUME ConnectorInv, RunFunctor, Head(batch) = "stopInLoop"
    PROVE  ConnectorInv'
<1> DEFINE s == Tail(Line)
<1>1. /\ Runs /\ pc = "functors" /\ k' = stopInLoop(k) /\ batch' = Tail(batch)
      /\ UNCHANGED <<connect_, pc, active, user, calls, starts>>
  BY DEF RunFunctor
<1>2. /\ k \in Record /\ connect_ \in BOOLEAN /\ k.aborted = "no"
      /\ k.timers \in 0 .. MaxAttempts /\ k.attempts \in 0 .. MaxAttempts
      /\ k.timers + If(k.state_ = "kConnecting") <= k.attempts
      /\ k.state_ = "kConnecting" <=> k.channel_ = "armed"
      /\ k.channel_ = "removed" <=> Has(Line, "resetChannel")
      /\ Once(Line, "resetChannel")
      /\ MaxAttempts \in Nat /\ k.queue \in Seq(Functors)
  BY <1>1, TypesAre, BoundsAssumption DEF ConnectorInv, ChannelInv, Runs, Record
<1>3. /\ s \in Seq(Functors)
      /\ \A f : Has(Line, f) <=> f = "stopInLoop" \/ Has(s, f)
      /\ \A f : Once(Line, f) => Once(s, f)
      /\ StopsFirst(Line) => Has(s, "startInLoop") /\ StopsFirst(s)
      /\ Has(batch, "resetChannel") => Has(Tail(batch), "resetChannel")
      /\ k'.queue = k.queue => Line' = s
      /\ k'.queue = Append(k.queue, "resetChannel") => Line' = Append(s, "resetChannel")
  BY RunFunctorIs
<1> HIDE DEF s
<1>4. CASE k.state_ = "kConnecting"
  <2>1. /\ k'.state_ = "kDisconnected" /\ k'.channel_ = "removed"
        /\ k'.queue = Append(k.queue, "resetChannel")
        /\ k'.timers = k.timers + If(connect_)
        /\ k'.attempts = k.attempts /\ k'.gaveUp = k.gaveUp /\ k'.aborted = k.aborted
    BY <1>1, <1>2, <1>4, EndIs DEF stopInLoop
  <2>2. /\ k.timers + If(connect_) \in 0 .. MaxAttempts
        /\ Append(k.queue, "resetChannel") \in Seq(Functors)
    BY <1>2, <1>4, AppendProperties DEF If, Functors
  <2>3. k' \in Record
    BY <1>1, <1>2, <1>4, <2>2 DEF stopInLoop, retry, removeAndResetChannel, Queued, Record, If
  <2>4. /\ \A f : Has(Line', f) <=> Has(s, f) \/ f = "resetChannel"
        /\ \A f : Once(s, f) /\ (f = "resetChannel" => ~Has(s, f)) => Once(Line', f)
    <3>1. Line' = Append(s, "resetChannel") /\ "resetChannel" \in Functors
      BY <1>3, <2>1 DEF Functors
    <3> QED
      BY <1>3, <3>1, AppendLine
  <2>5. ClientTypeOK' /\ RoundInv'
    BY <2>3, RunKeeps
  <2>6. ChannelInv'
    BY <1>2, <1>3, <1>4, <2>1, <2>4 DEF ChannelInv, If
  <2>7. TryingInv'
    BY <1>1, <1>2, <2>1 DEF TryingInv, If
  <2>8. OnceInv'
    <3>1. SUFFICES ASSUME starts <= 1 PROVE OnceInv'
      BY <1>1 DEF OnceInv
    <3>2. OneWay /\ NothingYet /\ StoppedForGood
      BY <3>1 DEF ConnectorInv, OnceInv
    <3>3. k.timers = 0 /\ ~Has(Line, "startInLoop") /\ user # "starting" /\ starts # 0
      BY <1>2, <1>4, <3>2 DEF OneWay, NothingYet, If
    <3>4. ~connect_
      BY <1>1, <1>3, <3>2, <3>3 DEF StoppedForGood
    <3>5. ~Has(Line', "startInLoop") /\ Once(Line', "startInLoop")
      BY <1>3, <2>4, <3>2, <3>3 DEF OneWay
    <3>6. OneWay'
      BY <1>1, <2>1, <3>3, <3>4, <3>5 DEF OneWay, If
    <3>7. NothingYet' /\ k'.aborted # "connector"
      BY <1>1, <1>2, <2>1, <3>3, <3>5 DEF NothingYet
    <3>8. StoppedForGood'
      BY <1>1, <3>4 DEF StoppedForGood
    <3> QED
      BY <3>6, <3>7, <3>8 DEF OnceInv
  <2> QED
    BY <1>1, <2>5, <2>6, <2>7, <2>8 DEF ConnectorInv
<1>5. CASE k.state_ # "kConnecting"
  <2>1. k' = k /\ Line' = s
    BY <1>1, <1>3, <1>5 DEF stopInLoop
  <2>2. ClientTypeOK' /\ RoundInv'
    BY <1>2, <2>1, RunKeeps
  <2>3. ChannelInv' /\ TryingInv'
    BY <1>1, <1>2, <1>3, <2>1 DEF ChannelInv, TryingInv, ConnectorInv, Runs
  <2>4. OnceInv'
    <3>1. SUFFICES ASSUME starts <= 1 PROVE OnceInv'
      BY <1>1 DEF OnceInv
    <3>2. OneWay /\ NothingYet /\ StoppedForGood
      BY <3>1 DEF ConnectorInv, OnceInv
    <3>3. OneWay'
      <4>1. /\ Has(Line', "startInLoop") <=> Has(Line, "startInLoop")
            /\ Once(Line', "startInLoop")
        BY <1>3, <2>1, <3>2 DEF OneWay
      <4> QED
        BY <1>1, <2>1, <3>2, <4>1 DEF OneWay, If
    <3>4. NothingYet' /\ k'.aborted # "connector"
      BY <1>1, <1>2, <1>3, <2>1, <3>2 DEF NothingYet
    <3>5. StoppedForGood'
      BY <1>1, <1>3, <2>1, <3>2 DEF StoppedForGood, Runs
    <3> QED
      BY <3>3, <3>4, <3>5 DEF OnceInv
  <2> QED
    BY <1>1, <2>2, <2>3, <2>4 DEF ConnectorInv
<1> QED
  BY <1>4, <1>5

\* resetChannel.
LEMMA ResetRuns ==
    ASSUME ConnectorInv, RunFunctor, Head(batch) = "resetChannel"
    PROVE  ConnectorInv'
<1> DEFINE s == Tail(Line)
<1>1. /\ Runs /\ pc = "functors" /\ k' = resetChannel(k) /\ batch' = Tail(batch)
      /\ UNCHANGED <<connect_, pc, active, user, calls, starts>>
  BY DEF RunFunctor
<1>2. /\ k \in Record /\ connect_ \in BOOLEAN /\ k.aborted = "no"
      /\ k.timers \in 0 .. MaxAttempts /\ k.attempts \in 0 .. MaxAttempts
      /\ k.timers + If(k.state_ = "kConnecting") <= k.attempts
      /\ k.state_ = "kConnecting" <=> k.channel_ = "armed"
      /\ k.channel_ = "removed" <=> Has(Line, "resetChannel")
      /\ Once(Line, "resetChannel")
  BY <1>1, TypesAre DEF ConnectorInv, ChannelInv, Runs, Record
<1>3. /\ k' \in Record /\ k'.channel_ = "none" /\ k'.state_ = k.state_ /\ k'.queue = k.queue
      /\ k'.timers = k.timers /\ k'.attempts = k.attempts /\ k'.gaveUp = k.gaveUp
      /\ k'.aborted = k.aborted
  BY <1>1, <1>2 DEF resetChannel, Record
<1>4. /\ \A f : Has(Line, f) <=> f = "resetChannel" \/ Has(s, f)
      /\ \A f : Once(Line, f) => Once(s, f)
      /\ Once(Line, "resetChannel") => ~Has(s, "resetChannel")
      /\ StopsFirst(Line) => StopsFirst(s)
      /\ Line' = s
  BY <1>3, RunFunctorIs
<1> HIDE DEF s
<1>5. ClientTypeOK' /\ RoundInv'
  BY <1>3, RunKeeps
<1>6. k.channel_ = "removed" /\ k.state_ # "kConnecting"
  BY <1>2, <1>4
<1>7. ChannelInv' /\ TryingInv'
  BY <1>1, <1>2, <1>3, <1>4, <1>6 DEF ChannelInv, TryingInv, ConnectorInv, Runs, If
<1>8. OnceInv'
  <2>1. SUFFICES ASSUME starts <= 1 PROVE OnceInv'
    BY <1>1 DEF OnceInv
  <2>2. OneWay /\ NothingYet /\ StoppedForGood
    BY <2>1 DEF ConnectorInv, OnceInv
  <2>3. OneWay'
    <3>1. /\ Has(Line', "startInLoop") <=> Has(Line, "startInLoop")
          /\ Once(Line', "startInLoop")
      BY <1>4, <2>2 DEF OneWay
    <3> QED
      BY <1>1, <1>3, <2>2, <3>1 DEF OneWay, If
  <2>4. NothingYet' /\ k'.aborted # "connector"
    BY <1>1, <1>2, <1>3, <1>4, <2>2 DEF NothingYet
  <2>5. StoppedForGood'
    BY <1>1, <1>3, <1>4, <2>2 DEF StoppedForGood
  <2> QED
    BY <2>3, <2>4, <2>5 DEF OnceInv
<1> QED
  BY <1>1, <1>5, <1>7, <1>8 DEF ConnectorInv

LEMMA RunFunctorStep == ASSUME ConnectorInv, RunFunctor PROVE ConnectorInv'
<1>1. Head(batch) \in Functors
  BY RunFunctorIs
<1> QED
  BY <1>1, StartRuns, StopRuns, ResetRuns DEF Functors

LEMMA ConnectorStepInv == ConnectorInv /\ [ClientNext]_clientVars => ConnectorInv'
<1> SUFFICES ASSUME ConnectorInv, [ClientNext]_clientVars PROVE ConnectorInv'
  OBVIOUS
<1>1. CASE LoopStep
  BY <1>1, PollStep, HandleChannelStep, HandleTimerStep, SwapStep, RunFunctorStep, EndRoundStep
     DEF LoopStep
<1>2. CASE UNCHANGED clientVars
  BY <1>2 DEF clientVars, ConnectorInv, ClientTypeOK, RoundInv, ChannelInv, TryingInv, OnceInv, OneWay,
              NothingYet, StoppedForGood, Runs, Line
<1> QED
  BY <1>1, <1>2, AnswerStep, CallConnectStep, CallStopStep, QueueStep, StopInCallbackStep
     DEF ClientNext

-------------------------------------------------------------------------------
\* What the invariant says to the user.

LEMMA InvIsSafe == ConnectorInv => OneStartIsSafe
<1> SUFFICES ASSUME ConnectorInv PROVE OneStartIsSafe
  OBVIOUS
<1>1. ClientTypeOK /\ k.timers \in Nat /\ connect_ \in BOOLEAN /\ starts \in Nat
  BY TypesAre, BoundsAssumption DEF ConnectorInv, Record
<1>2. \A f : Waiting(f) <=> Has(Line, f)
  BY <1>1, WaitingIs
<1>3. ChannelFollowsState
  BY <1>2 DEF ChannelFollowsState, ConnectorInv, ChannelInv
<1>4. starts <= 1 => k.aborted # "connector" /\ Ways <= 1
  BY <1>1, <1>2 DEF ConnectorInv, OnceInv, OneWay, Ways, If
<1>5. connect_ /\ user = "out" /\ Runs /\ ~k.gaveUp /\ k.state_ # "kConnected" => Ways > 0
  BY <1>1, <1>2 DEF ConnectorInv, TryingInv, Ways
<1> QED
  BY <1>1, <1>3, <1>4, <1>5 DEF OneStartIsSafe

\* The inductive invariant holds in every reachable state, whatever the bounds.
THEOREM ConnectorInvariance == ClientSpec => []ConnectorInv
  BY ConnectorInitInv, ConnectorStepInv, PTL DEF ClientSpec

\* A client that connects once may stop at any moment: no assertion of Connector fails, its
\* channel follows its state, and it has one way to the next attempt or none; one that wants
\* to connect, however often it was told to, always has one.
THEOREM StopIsSafe == ClientSpec => []OneStartIsSafe
  BY ConnectorInvariance, InvIsSafe, PTL
===============================================================================
