---------------------------- MODULE ConnectionProofs ----------------------------
(***************************************************************************)
(* Proofs about HttpConnection, for any scripts of the client: the parser   *)
(* stops, and the answers go to the client whole and in order; and about    *)
(* ProcessHttpConnection: its client gets a prefix of them.  Proofs         *)
(* about Sockets, for any number of clients, descriptors and loops: a       *)
(* number, the map of an Epoll, the kernel and the list of a round never    *)
(* have a connection that is gone.  Proofs about HttpLine, for any          *)
(* beginning of a line and any number of tokens: a request is a line of the *)
(* grammar, and a stored header is one without white space about it.        *)
(***************************************************************************)
EXTENDS ProcessHttpConnection, HttpLine, Sockets, SequenceTheorems, WellFoundedInduction, TLAPS

Cell == Texts \union {CRLF}

LEMMA Associates ==
    ASSUME NEW r \in Seq(Cells), NEW s \in Seq(Cells), NEW t \in Seq(Cells)
    PROVE  (r \o s) \o t = r \o (s \o t)
  BY ConcatAssociative
-------------------------------------------------------------------------------
\* Natural numbers.

\* Every set of them has a least element.
LEMMA Least ==
    ASSUME NEW T, T \subseteq Nat, T # {}
    PROVE  \E x \in T : \A y \in T : ~(y < x)
<1>1. \E x \in T : \A y \in T : <<y, x>> \notin OpToRel(<, Nat)
  BY WFMin, NatLessThanWellFounded
<1> QED
  BY <1>1 DEF OpToRel

\* Induction, for a property that is the membership in a set.
LEMMA SetInduction ==
    ASSUME NEW S, 0 \in S, \A n \in Nat : n \in S => n + 1 \in S
    PROVE  \A n \in Nat : n \in S
<1> SUFFICES ASSUME Nat \ S # {} PROVE FALSE
  OBVIOUS
<1>1. PICK x \in Nat \ S : \A y \in Nat \ S : ~(y < x)
  BY Least
<1>2. x - 1 \in Nat
  BY <1>1
<1>3. x - 1 \in S
  BY <1>1, <1>2
<1> QED
  BY <1>1, <1>2, <1>3

-------------------------------------------------------------------------------
\* The turns of parseRequest.

Start(context, buf) ==
    [context |-> context, buf |-> buf, ok |-> TRUE, more |-> TRUE, aborted |-> FALSE]

LEMMA OneTurn == ASSUME NEW p PROVE (CHOOSE q \in {ParseTurn(r) : r \in {p}} : TRUE) = ParseTurn(p)
  OBVIOUS

\* f is the sequence of the first m turns.
Turns(f, a, m) == f = [n \in 0 .. m |-> IF n = 0 THEN a ELSE ParseTurn(f[n - 1])]

LEMMA TurnsExist ==
    ASSUME NEW a
    PROVE  \A m \in Nat : \E f : Turns(f, a, m)
<1> DEFINE S == {m \in Nat : \E f : Turns(f, a, m)}
<1>1. 0 \in S
  <2>1. Turns([n \in 0 .. 0 |-> a], a, 0)
    BY DEF Turns
  <2> QED
    BY <2>1
<1>2. ASSUME NEW m \in Nat, m \in S
      PROVE  m + 1 \in S
  <2>1. PICK f : Turns(f, a, m)
    BY <1>2
  <2> DEFINE g == [n \in 0 .. m + 1 |-> IF n = m + 1 THEN ParseTurn(f[m]) ELSE f[n]]
  <2>2. f = [n \in 0 .. m |-> IF n = 0 THEN a ELSE ParseTurn(f[n - 1])]
    BY <2>1 DEF Turns
  <2>3. ASSUME NEW n \in 0 .. m + 1
        PROVE  g[n] = IF n = 0 THEN a ELSE ParseTurn(g[n - 1])
    <3>1. CASE n = m + 1
      BY <3>1
    <3>2. CASE n \in 0 .. m
      <4>1. f[n] = IF n = 0 THEN a ELSE ParseTurn(f[n - 1])
        BY <2>2, <3>2
      <4>2. g[n] = f[n] /\ (n # 0 => g[n - 1] = f[n - 1])
        BY <3>2
      <4> QED
        BY <4>1, <4>2
    <3> QED
      BY <3>1, <3>2
  <2>4. Turns(g, a, m + 1)
    <3> DEFINE h == [n \in 0 .. m + 1 |-> IF n = 0 THEN a ELSE ParseTurn(g[n - 1])]
    <3>1. \A n \in 0 .. m + 1 : g[n] = h[n]
      BY <2>3
    <3>2. g = h
      BY <3>1
    <3> QED
      BY <3>2 DEF Turns
  <2> QED
    BY <2>4
<1> HIDE DEF S
<1>3. \A m \in Nat : m \in S
  BY <1>1, <1>2, SetInduction
<1> QED
  BY <1>3 DEF S

LEMMA ParseIsTurns ==
    ASSUME NEW context, NEW buf \in Seq(Cell)
    PROVE  \E f : /\ f[0] = Start(context, buf)
                  /\ \A n \in 1 .. Len(buf) + 1 : f[n] = ParseTurn(f[n - 1])
                  /\ parseRequest(context, buf) = f[Len(buf) + 1]
<1> DEFINE M == Len(buf) + 1
           a == Start(context, buf)
           F(t) == [n \in 0 .. M |-> IF n = 0 THEN a
                                     ELSE CHOOSE q \in {ParseTurn(p) : p \in {t[n - 1]}} : TRUE]
           turn == CHOOSE t : t = F(t)
<1>1. M \in Nat /\ Len(buf) \in Nat
  OBVIOUS
<1>2. PICK f : Turns(f, a, M)
  BY <1>1, TurnsExist
<1>3. f = F(f)
  BY <1>2, OneTurn DEF Turns
<1>4. turn = F(turn)
  BY <1>3
<1>5. parseRequest(context, buf) = turn[M]
  BY DEF parseRequest, Start
<1>6. turn[0] = a /\ \A n \in 1 .. M : turn[n] = ParseTurn(turn[n - 1])
  <2> HIDE DEF turn, a
  <2>1. ASSUME NEW n \in 0 .. M
        PROVE  turn[n] = IF n = 0 THEN a
                         ELSE CHOOSE q \in {ParseTurn(p) : p \in {turn[n - 1]}} : TRUE
    BY <1>4
  <2>2. turn[0] = a
    BY <1>1, <2>1
  <2>3. ASSUME NEW n \in 1 .. M
        PROVE  turn[n] = ParseTurn(turn[n - 1])
    BY <1>1, <2>1, OneTurn
  <2> QED
    BY <2>2, <2>3
<1> HIDE DEF turn
<1> QED
  BY <1>5, <1>6

-------------------------------------------------------------------------------
\* What a parse keeps.

Parse == [context : Contexts, buf : Seq(Cell), ok : BOOLEAN, more : BOOLEAN, aborted : BOOLEAN]

\* The line that gave this context its method was no request, and it is still in the buffer.
Spoilt(context) ==
    context.state_ = "kExpectRequestLine" /\ context.request_.method_ # "kInvalid"

\* A parse that began with `context'.  Only a spoilt context aborts, and an accepted parse that
\* ends without a request line leaves the context as it was.
Sound(p, context) ==
    /\ p \in Parse
    /\ p.aborted => Spoilt(context)
    /\ p.more => p.ok /\ p.context.state_ # "kGotAll"
    /\ p.context.state_ = "kGotAll" => p.ok /\ ~p.aborted
    /\ p.context.state_ = "kExpectRequestLine" /\ p.ok => p.context = context

Alive(p) == p.more /\ ~p.aborted

LEMMA FindCRLF ==
    ASSUME NEW buf \in Seq(Cell)
    PROVE  findCRLF(buf) \in 0 .. Len(buf)
<1> DEFINE T == {i \in 1 .. Len(buf) : buf[i] = CRLF}
<1>1. CASE T = {}
  BY <1>1 DEF findCRLF
<1>2. CASE T # {}
  <2>0. T \subseteq Nat
    OBVIOUS
  <2>1. PICK i \in T : \A j \in T : ~(j < i)
    <3> HIDE DEF T
    <3> QED
      BY <1>2, <2>0, Least
  <2>2. i \in 1 .. Len(buf) /\ buf[i] = CRLF /\ \A j \in 1 .. i - 1 : buf[j] # CRLF
    BY <2>1
  <2> QED
    BY <2>2 DEF findCRLF
<1> QED
  BY <1>1, <1>2

LEMMA RequestLineKeeps ==
    ASSUME NEW context, NEW p, Sound(p, context), Alive(p), NEW text, NEW rest \in Seq(Cell),
           p.context.state_ = "kExpectRequestLine"
    PROVE  LET q == ParseRequestLine(p, text, rest)
           IN  Sound(q, context) /\ (q.more => q.buf = rest)
<1>1. /\ p \in Parse /\ p.ok /\ p.context = context /\ ~p.aborted
      /\ p.context \in Contexts /\ p.context.request_ \in [method_ : {"kInvalid", "kGet"}, headers_ : SUBSET Field]
  BY DEF Sound, Alive, Parse, Contexts
<1>2. CASE text \notin HasSpace
  <2>1. ParseRequestLine(p, text, rest) = [p EXCEPT !.ok = FALSE, !.more = FALSE]
    BY <1>1, <1>2 DEF ParseRequestLine, processRequestLine, Parse
  <2> QED
    BY <1>1, <2>1 DEF Sound, Parse
<1>3. CASE text \in HasSpace
  <2> DEFINE r == setMethod(p.context.request_, text)
             b == (p.context.request_.method_ # "kInvalid")
             c == [p.context EXCEPT !.request_ = r]
             d == [c EXCEPT !.state_ = "kExpectHeader"]
  <2>1. r \in [method_ : {"kInvalid", "kGet"}, headers_ : SUBSET Field]
    BY <1>1 DEF setMethod
  <2> HIDE DEF r
  <2>2. c \in Contexts /\ d \in Contexts /\ c.state_ = "kExpectRequestLine" /\ d.state_ = "kExpectHeader"
    BY <1>1, <2>1 DEF Contexts, ParseState
  <2>3. b => Spoilt(context)
    BY <1>1 DEF Spoilt
  <2>4. b \in BOOLEAN
    OBVIOUS
  <2>5. CASE text = "get"
    <3>1. ParseRequestLine(p, text, rest)
              = [context |-> d, buf |-> rest, ok |-> TRUE, more |-> p.more, aborted |-> b]
      BY <1>1, <1>3, <2>5 DEF ParseRequestLine, processRequestLine, Parse, r
    <3> HIDE DEF b, c, d
    <3> QED
      BY <1>1, <2>2, <2>3, <2>4, <3>1 DEF Sound, Parse
  <2>6. CASE text # "get"
    <3>1. ParseRequestLine(p, text, rest)
              = [context |-> c, buf |-> p.buf, ok |-> FALSE, more |-> FALSE, aborted |-> b]
      BY <1>1, <1>3, <2>6 DEF ParseRequestLine, processRequestLine, Parse, r
    <3> HIDE DEF b, c, d
    <3> QED
      BY <1>1, <2>2, <2>3, <2>4, <3>1 DEF Sound, Parse
  <2> QED
    BY <2>5, <2>6
<1> QED
  BY <1>2, <1>3

LEMMA HeaderKeeps ==
    ASSUME NEW context, NEW p, Sound(p, context), Alive(p), NEW text, NEW rest \in Seq(Cell),
           p.context.state_ = "kExpectHeader"
    PROVE  LET q == ParseHeader(p, text, rest)
           IN  Sound(q, context) /\ (q.more => q.buf = rest)
<1>1. /\ p \in Parse /\ p.ok /\ ~p.aborted
      /\ p.context \in Contexts /\ p.context.request_ \in [method_ : {"kInvalid", "kGet"}, headers_ : SUBSET Field]
  BY DEF Sound, Alive, Parse, Contexts
<1>2. CASE text \in Field
  <2> DEFINE c == [p.context EXCEPT !.request_ = addHeader(p.context.request_, text)]
  <2>1. ParseHeader(p, text, rest)
            = [context |-> c, buf |-> rest, ok |-> p.ok, more |-> p.more, aborted |-> p.aborted]
    BY <1>1, <1>2 DEF ParseHeader, Parse
  <2>2. addHeader(p.context.request_, text) \in [method_ : {"kInvalid", "kGet"}, headers_ : SUBSET Field]
    BY <1>1, <1>2 DEF addHeader
  <2>3. c \in Contexts /\ c.state_ = "kExpectHeader"
    BY <1>1, <2>2 DEF Contexts
  <2> HIDE DEF c
  <2> QED
    BY <1>1, <2>1, <2>3 DEF Sound, Parse
<1>3. CASE text \notin Field
  <2> DEFINE c == [p.context EXCEPT !.state_ = "kGotAll"]
  <2>1. ParseHeader(p, text, rest)
            = [context |-> c, buf |-> rest, ok |-> p.ok, more |-> FALSE, aborted |-> p.aborted]
    BY <1>1, <1>3 DEF ParseHeader, Parse
  <2>2. c \in Contexts /\ c.state_ = "kGotAll"
    BY <1>1 DEF Contexts, ParseState
  <2> HIDE DEF c
  <2> QED
    BY <1>1, <2>1, <2>2 DEF Sound, Parse
<1> QED
  BY <1>2, <1>3

\* A turn that is not the last takes something out of the buffer.
LEMMA TurnKeeps ==
    ASSUME NEW context, NEW p, Sound(p, context)
    PROVE  /\ Sound(ParseTurn(p), context)
           /\ Alive(ParseTurn(p)) => Alive(p) /\ Len(ParseTurn(p).buf) < Len(p.buf)
<1>1. CASE ~Alive(p)
  <2>1. ParseTurn(p) = p
    BY <1>1 DEF Alive, ParseTurn
  <2> QED
    BY <1>1, <2>1
<1>2. CASE Alive(p)
  <2> DEFINE end  == findCRLF(p.buf)
             text == IF end = 1 THEN "" ELSE p.buf[1]
             rest == SubSeq(p.buf, end + 1, Len(p.buf))
  <2>1. p \in Parse /\ p.more /\ ~p.aborted /\ p.context.state_ \in {"kExpectRequestLine", "kExpectHeader"}
    BY <1>2 DEF Alive, Sound, Parse, Contexts, ParseState
  <2>2. p.buf \in Seq(Cell) /\ end \in 0 .. Len(p.buf) /\ Len(p.buf) \in Nat
    BY <2>1, FindCRLF DEF Parse
  <2>3. CASE end = 0
    <3>1. ParseTurn(p) = [p EXCEPT !.more = FALSE]
      BY <2>1, <2>3 DEF ParseTurn
    <3> QED
      BY <2>1, <3>1 DEF Sound, Parse, Alive
  <2>4. CASE end # 0
    <3>1. rest \in Seq(Cell) /\ Len(rest) = Len(p.buf) - end
      BY <2>2, <2>4
    <3>2. Len(rest) < Len(p.buf)
      BY <2>2, <2>4, <3>1
    <3>3. ParseTurn(p) = IF p.context.state_ = "kExpectRequestLine"
                         THEN ParseRequestLine(p, text, rest) ELSE ParseHeader(p, text, rest)
      BY <2>1, <2>4 DEF ParseTurn
    <3> HIDE DEF rest, text, end
    <3>4. Sound(ParseTurn(p), context) /\ (ParseTurn(p).more => ParseTurn(p).buf = rest)
      BY <1>2, <2>1, <3>1, <3>3, RequestLineKeeps, HeaderKeeps
    <3> QED
      BY <1>2, <3>2, <3>4 DEF Alive
  <2> QED
    BY <2>3, <2>4
<1> QED
  BY <1>1, <1>2

\* What parseRequest does: it comes to an end, and see Sound.
LEMMA ParseIs ==
    ASSUME NEW context \in Contexts, context.state_ # "kGotAll", NEW buf \in Seq(Cell)
    PROVE  Sound(parseRequest(context, buf), context) /\ ~Alive(parseRequest(context, buf))
<1>1. PICK f : /\ f[0] = Start(context, buf)
               /\ \A n \in 1 .. Len(buf) + 1 : f[n] = ParseTurn(f[n - 1])
               /\ parseRequest(context, buf) = f[Len(buf) + 1]
  BY ParseIsTurns
<1> DEFINE S == {n \in Nat : n <= Len(buf) + 1 =>
                    Sound(f[n], context) /\ (Alive(f[n]) => Len(f[n].buf) + n <= Len(buf))}
<1>2. 0 \in S
  <2>1. f[0] \in Parse
    BY <1>1 DEF Start, Parse
  <2>2. Sound(f[0], context)
    BY <1>1, <2>1 DEF Start, Sound
  <2> QED
    BY <1>1, <2>2 DEF Start
<1>3. ASSUME NEW n \in Nat, n \in S
      PROVE  n + 1 \in S
  <2> SUFFICES ASSUME n + 1 <= Len(buf) + 1
               PROVE  /\ Sound(f[n + 1], context)
                      /\ Alive(f[n + 1]) => Len(f[n + 1].buf) + n + 1 <= Len(buf)
    OBVIOUS
  <2>1. Sound(f[n], context) /\ (Alive(f[n]) => Len(f[n].buf) + n <= Len(buf))
    BY <1>3
  <2>2. f[n + 1] = ParseTurn(f[n])
    BY <1>1
  <2>3. Sound(f[n + 1], context) /\ (Alive(f[n + 1]) => Alive(f[n]) /\ Len(f[n + 1].buf) < Len(f[n].buf))
    BY <2>1, <2>2, TurnKeeps
  <2>4. Len(f[n].buf) \in Nat /\ Len(f[n + 1].buf) \in Nat
    BY <2>1, <2>3 DEF Sound, Parse
  <2> QED
    BY <2>1, <2>3, <2>4
<1> HIDE DEF S
<1>4. Len(buf) + 1 \in S
  BY <1>2, <1>3, SetInduction
<1>5. Sound(f[Len(buf) + 1], context) /\ (Alive(f[Len(buf) + 1]) => Len(f[Len(buf) + 1].buf) + Len(buf) + 1 <= Len(buf))
  BY <1>4 DEF S
<1>6. Len(f[Len(buf) + 1].buf) \in Nat
  BY <1>5 DEF Sound, Parse
<1> QED
  BY <1>1, <1>5, <1>6

-------------------------------------------------------------------------------
\* A sequence that is cut after k elements.
LEMMA Split ==
    ASSUME NEW S, NEW s \in Seq(S), NEW k \in 0 .. Len(s)
    PROVE  /\ SubSeq(s, 1, k) \in Seq(S) /\ Len(SubSeq(s, 1, k)) = k
           /\ SubSeq(s, k + 1, Len(s)) \in Seq(S) /\ Len(SubSeq(s, k + 1, Len(s))) = Len(s) - k
           /\ SubSeq(s, 1, k) \o SubSeq(s, k + 1, Len(s)) = s
<1>1. SubSeq(s, 1, k) \in Seq(S) /\ Len(SubSeq(s, 1, k)) = k
  OBVIOUS
<1>2. SubSeq(s, k + 1, Len(s)) \in Seq(S) /\ Len(SubSeq(s, k + 1, Len(s))) = Len(s) - k
  OBVIOUS
<1>3. 1 \in 1 .. Len(s) + 1 /\ k \in 1 - 1 .. Len(s) /\ Len(s) \in k .. Len(s)
  OBVIOUS
<1>4. SubSeq(s, 1, k) \o SubSeq(s, k + 1, Len(s)) = SubSeq(s, 1, Len(s))
  BY <1>3, ConcatAdjacentSubSeq, Zenon
<1>5. SubSeq(s, 1, Len(s)) = s
  BY SubSeqFull
<1> QED
  BY <1>1, <1>2, <1>4, <1>5

-------------------------------------------------------------------------------
\* The answers as the client sees them.

LEMMA FlatIs ==
    ASSUME NEW a \in Seq(Nat)
    PROVE  /\ Flat(a) \in Seq(Cells) /\ Len(Flat(a)) = 2 * Len(a)
           /\ \A i \in 1 .. 2 * Len(a) : Flat(a)[i] = appendToBuffer(a[(i + 1) \div 2])[2 - (i % 2)]
<1> DEFINE e(i) == appendToBuffer(a[(i + 1) \div 2])[2 - (i % 2)]
<1>1. Len(a) \in Nat /\ 2 * Len(a) \in Nat
  OBVIOUS
<1>2. ASSUME NEW i \in 1 .. 2 * Len(a)
      PROVE  e(i) \in Cells
  <2>1. (i + 1) \div 2 \in 1 .. Len(a) /\ 2 - (i % 2) \in {1, 2}
    BY <1>1
  <2>2. a[(i + 1) \div 2] \in Nat
    BY <2>1
  <2>3. \A n \in Nat : appendToBuffer(n)[1] \in Cells /\ appendToBuffer(n)[2] \in Cells
    BY DEF appendToBuffer, Cells
  <2> QED
    BY <2>1, <2>2, <2>3
<1>3. Flat(a) = [i \in 1 .. 2 * Len(a) |-> e(i)]
  BY DEF Flat
<1> HIDE DEF e
<1>4. Flat(a) \in Seq(Cells)
  BY <1>1, <1>2, <1>3, IsASeq
<1>5. Len(Flat(a)) = 2 * Len(a)
  BY <1>1, <1>3
<1> QED
  BY <1>3, <1>4, <1>5 DEF e

LEMMA FlatAppend ==
    ASSUME NEW a \in Seq(Nat), NEW n \in Nat
    PROVE  /\ Flat(Append(a, n)) = Flat(a) \o appendToBuffer(n)
           /\ appendToBuffer(n) \in Seq(Cells) /\ Len(appendToBuffer(n)) = 2
<1> DEFINE b == Append(a, n)
           m == appendToBuffer(n)
           L == Len(a)
<1>1. L \in Nat /\ b \in Seq(Nat) /\ Len(b) = L + 1 /\ b[L + 1] = n /\ \A i \in 1 .. L : b[i] = a[i]
  BY AppendProperties
<1>2. m \in Seq(Cells) /\ Len(m) = 2
  BY DEF appendToBuffer, Cells
<1>3. /\ Flat(a) \in Seq(Cells) /\ Len(Flat(a)) = 2 * L
      /\ \A i \in 1 .. 2 * L : Flat(a)[i] = appendToBuffer(a[(i + 1) \div 2])[2 - (i % 2)]
  BY FlatIs
<1>4. /\ Flat(b) \in Seq(Cells) /\ Len(Flat(b)) = 2 * (L + 1)
      /\ \A i \in 1 .. 2 * (L + 1) : Flat(b)[i] = appendToBuffer(b[(i + 1) \div 2])[2 - (i % 2)]
  <2> HIDE DEF b
  <2> QED
    BY <1>1, FlatIs
<1> HIDE DEF m, b, L
<1> DEFINE u == Flat(a)
           v == Flat(b)
           s == u \o m
<1> HIDE DEF u, v
<1>5. /\ s \in Seq(Cells) /\ Len(s) = 2 * L + 2
      /\ \A i \in 1 .. 2 * L : s[i] = u[i]
      /\ s[2 * L + 1] = m[1] /\ s[2 * L + 2] = m[2]
  <2>0. u \in Seq(Cells) /\ Len(u) = 2 * L
    BY <1>3 DEF u
  <2>1. /\ s \in Seq(Cells) /\ Len(s) = Len(u) + Len(m)
        /\ \A i \in 1 .. Len(u) + Len(m) : s[i] = IF i <= Len(u) THEN u[i] ELSE m[i - Len(u)]
    BY <1>2, <2>0, ConcatProperties
  <2> HIDE DEF s
  <2>2. \A i \in 1 .. 2 * L : s[i] = u[i]
    BY <1>1, <1>2, <2>0, <2>1
  <2>3. ASSUME NEW i \in {1, 2}
        PROVE  s[2 * L + i] = m[i]
    <3> DEFINE j == 2 * L + i
    <3>1. j \in 1 .. Len(u) + Len(m) /\ ~(j <= Len(u)) /\ j - Len(u) = i
      BY <1>1, <1>2, <2>0
    <3> HIDE DEF j
    <3>2. s[j] = m[j - Len(u)]
      BY <2>1, <3>1
    <3>3. s[j] = m[i]
      BY <3>1, <3>2
    <3> QED
      BY <3>3 DEF j
  <2> QED
    BY <1>1, <1>2, <2>0, <2>1, <2>2, <2>3
<1> HIDE DEF s
<1>6. /\ v \in Seq(Cells) /\ Len(v) = 2 * L + 2
      /\ \A i \in 1 .. 2 * L + 2 : v[i] = appendToBuffer(b[(i + 1) \div 2])[2 - (i % 2)]
  BY <1>1, <1>4 DEF v
<1>7. ASSUME NEW i \in 1 .. 2 * L + 2
      PROVE  v[i] = s[i]
  <2>1. CASE i \in 1 .. 2 * L
    <3>1. (i + 1) \div 2 \in 1 .. L
      BY <1>1, <2>1
    <3>2. b[(i + 1) \div 2] = a[(i + 1) \div 2]
      BY <1>1, <3>1
    <3>3. u[i] = appendToBuffer(a[(i + 1) \div 2])[2 - (i % 2)]
      BY <1>3, <2>1 DEF u
    <3>4. v[i] = appendToBuffer(b[(i + 1) \div 2])[2 - (i % 2)]
      BY <1>6
    <3> QED
      BY <1>5, <2>1, <3>2, <3>3, <3>4
  <2>2. ASSUME i = 2 * L + 1 \/ i = 2 * L + 2
        PROVE  v[i] = s[i]
    <3>1. (i + 1) \div 2 = L + 1
      BY <1>1, <2>2
    <3>2. 2 - (i % 2) = IF i = 2 * L + 1 THEN 1 ELSE 2
      <4>1. \A x \in Nat : (2 * x + 1) % 2 = 1 /\ (2 * x + 2) % 2 = 0
        OBVIOUS
      <4>2. L \in Nat
        BY <1>1
      <4>3. i % 2 = IF i = 2 * L + 1 THEN 1 ELSE 0
        BY <2>2, <4>1, <4>2, SMTT(30)
      <4> QED
        BY <2>2, <4>2, <4>3
    <3>3. v[i] = m[2 - (i % 2)]
      BY <1>1, <1>6, <3>1 DEF m
    <3> QED
      BY <1>5, <2>2, <3>2, <3>3
  <2>3. i \in Nat /\ 1 <= i /\ i <= 2 * L + 2
    BY <1>1
  <2>4. i <= 2 * L \/ i = 2 * L + 1 \/ i = 2 * L + 2
    BY <1>1, <2>3
  <2>5. i <= 2 * L => i \in 1 .. 2 * L
    BY <1>1, <2>3
  <2> QED
    BY <2>1, <2>2, <2>4, <2>5
<1>8. v = s
  BY <1>1, <1>5, <1>6, <1>7, SeqEqual
<1> QED
  BY <1>2, <1>8 DEF s, b, m, u, v

-------------------------------------------------------------------------------
\* The invariant.

Conns == [state_ : {"kConnected", "kDisconnecting", "kDisconnected"},
          events : SUBSET {"read", "write"}, outputBuffer_ : Seq(Cells),
          wrote : Seq(Cells), readShut : BOOLEAN, answers : Seq(Nat)]

Ordered(a) == \A i, j \in 1 .. Len(a) :
                 i < j => a[i] # 0 /\ (a[j] # 0 => a[i] < a[j])

\* A connection that has answered none but the first m requests.  As long as it is open, it
\* asks for the write event if and only if there is output; what shuts it waits for the end
\* of the output.
Whole(c, m) ==
    /\ c \in Conns
    /\ c.wrote \o c.outputBuffer_ = Flat(c.answers)
    /\ Ordered(c.answers)
    /\ \A i \in 1 .. Len(c.answers) : c.answers[i] <= m
    /\ c.readShut => c.outputBuffer_ = << >> /\ c.state_ # "kConnected"
    /\ c.state_ = "kDisconnected" => c.events = {}
    /\ c.state_ # "kDisconnected" =>
          "read" \in c.events /\ ("write" \in c.events <=> c.outputBuffer_ # << >>)

\* After the 400 nothing is sent.
LastIs400(c) == c.state_ = "kConnected" => \A i \in 1 .. Len(c.answers) : c.answers[i] # 0

IInv ==
    /\ TypeOK
    /\ Whole(conn, parsed) /\ LastIs400(conn)
    /\ context_.state_ # "kGotAll"
    /\ Spoilt(context_) => conn.state_ # "kConnected"
    /\ AbortsOnlyAfterRefusal

-------------------------------------------------------------------------------
\* The operations of a connection.

LEMMA OrderedAppend ==
    ASSUME NEW a \in Seq(Nat), NEW n \in Nat, NEW m \in Nat, Ordered(a), n = 0 \/ n > m,
           \A i \in 1 .. Len(a) : a[i] <= m /\ a[i] # 0
    PROVE  /\ Append(a, n) \in Seq(Nat) /\ Ordered(Append(a, n))
           /\ \A i \in 1 .. Len(Append(a, n)) : Append(a, n)[i] <= m \/ Append(a, n)[i] = n
           /\ n # 0 => \A i \in 1 .. Len(Append(a, n)) : Append(a, n)[i] # 0
<1> DEFINE b == Append(a, n)
<1>1. /\ b \in Seq(Nat) /\ Len(b) = Len(a) + 1 /\ b[Len(a) + 1] = n /\ Len(a) \in Nat
      /\ \A i \in 1 .. Len(a) : b[i] = a[i] /\ b[i] \in Nat /\ b[i] <= m /\ b[i] # 0
  BY AppendProperties
<1> HIDE DEF b
<1>2. \A i \in 1 .. Len(b) : i \in 1 .. Len(a) \/ i = Len(a) + 1
  BY <1>1
<1>3. Ordered(b)
  <2> SUFFICES ASSUME NEW i \in 1 .. Len(b), NEW j \in 1 .. Len(b), i < j
               PROVE  b[i] # 0 /\ (b[j] # 0 => b[i] < b[j])
    BY DEF Ordered
  <2>1. i \in 1 .. Len(a)
    BY <1>1, <1>2
  <2>2. CASE j \in 1 .. Len(a)
    BY <1>1, <2>1, <2>2 DEF Ordered
  <2>3. CASE j = Len(a) + 1
    BY <1>1, <2>1, <2>3
  <2> QED
    BY <1>2, <2>2, <2>3
<1> QED
  BY <1>1, <1>2, <1>3 DEF b

LEMMA SendKeeps ==
    ASSUME NEW c, NEW m \in Nat, NEW n \in Nat, NEW k \in Nat, Whole(c, m), LastIs400(c),
           n = 0 \/ n > m, m <= k, n <= k, NEW d \in send(c, n)
    PROVE  Whole(d, k) /\ d.state_ = c.state_ /\ (n # 0 => LastIs400(d))
<1>1. c \in Conns /\ c.answers \in Seq(Nat) /\ c.wrote \in Seq(Cells) /\ c.outputBuffer_ \in Seq(Cells)
  BY DEF Whole, Conns
<1>2. CASE d = c
  <2>1. \A i \in 1 .. Len(c.answers) : c.answers[i] \in Nat /\ c.answers[i] <= m
    BY <1>1 DEF Whole
  <2>2. \A i \in 1 .. Len(c.answers) : c.answers[i] <= k
    BY <2>1
  <2> QED
    BY <1>2, <2>2 DEF Whole
<1>3. CASE d # c
  <2> DEFINE msg == appendToBuffer(n)
             a == Append(c.answers, n)
  <2>1. c.state_ = "kConnected" /\ "write" \notin c.events /\ c.outputBuffer_ = << >>
    BY <1>3 DEF send, sendInLoop
  <2>2. PICK x \in Written(msg) :
            d = [c EXCEPT !.answers = Append(@, n),
                          !.wrote = @ \o SubSeq(msg, 1, x),
                          !.outputBuffer_ = SubSeq(msg, x + 1, Len(msg)),
                          !.events = IF x < Len(msg) THEN @ \union {"write"} ELSE @]
    BY <2>1 DEF send, sendInLoop
  <2>3. /\ Flat(a) = Flat(c.answers) \o msg /\ msg \in Seq(Cells) /\ Len(msg) = 2
    BY <1>1, FlatAppend
  <2>4. /\ a \in Seq(Nat) /\ Ordered(a)
        /\ \A i \in 1 .. Len(a) : a[i] <= m \/ a[i] = n
        /\ n # 0 => \A i \in 1 .. Len(a) : a[i] # 0
    <3>1. Ordered(c.answers) /\ \A i \in 1 .. Len(c.answers) : c.answers[i] <= m /\ c.answers[i] # 0
      BY <2>1 DEF Whole, LastIs400
    <3> QED
      BY <1>1, <3>1, OrderedAppend
  <2> HIDE DEF msg, a
  <2> DEFINE u == SubSeq(msg, 1, x)
             v == SubSeq(msg, x + 1, Len(msg))
  <2>5. u \in Seq(Cells) /\ v \in Seq(Cells) /\ u \o v = msg /\ (x < 2 <=> v # << >>)
    <3>1. x \in 0 .. Len(msg) /\ x \in 0 .. 2
      BY <2>3 DEF Written
    <3>2. u \in Seq(Cells) /\ v \in Seq(Cells) /\ Len(v) = Len(msg) - x /\ u \o v = msg
      BY <2>3, <3>1, Split
    <3> HIDE DEF u, v
    <3>3. x < 2 <=> v # << >>
      BY <2>3, <3>1, <3>2
    <3> QED
      BY <3>2, <3>3
  <2>6. /\ d.answers = a /\ d.wrote = c.wrote \o u /\ d.outputBuffer_ = v
        /\ d.events = IF x < 2 THEN c.events \union {"write"} ELSE c.events
        /\ d.state_ = c.state_ /\ d.readShut = c.readShut
    BY <1>1, <2>2, <2>3 DEF Conns, a
  <2>7. d \in Conns
    <3>1. c.wrote \o u \in Seq(Cells)
      BY <1>1, <2>5
    <3> HIDE DEF u, v
    <3>2. /\ c.events \union {"write"} \in SUBSET {"read", "write"} /\ c.events \in SUBSET {"read", "write"}
      BY <1>1 DEF Conns
    <3> DEFINE ev == IF x < Len(msg) THEN c.events \union {"write"} ELSE c.events
    <3>3. ev \in SUBSET {"read", "write"}
      BY <3>2
    <3>4. d = [c EXCEPT !.answers = a, !.wrote = c.wrote \o u, !.outputBuffer_ = v, !.events = ev]
      BY <2>2 DEF a, u, v
    <3> HIDE DEF ev
    <3> QED
      BY <1>1, <2>4, <2>5, <3>1, <3>3, <3>4 DEF Conns
  <2> HIDE DEF u, v
  <2>8. d.wrote \o d.outputBuffer_ = Flat(d.answers)
    <3>1. c.wrote = Flat(c.answers)
      <4>1. c.wrote \o << >> = Flat(c.answers)
        BY <2>1 DEF Whole
      <4> QED
        BY <1>1, <4>1, ConcatEmptySeq
    <3>2. (c.wrote \o u) \o v = c.wrote \o (u \o v)
      <4>1. \A r, s, t \in Seq(Cells) : (r \o s) \o t = r \o (s \o t)
        BY Associates
      <4>2. c.wrote \in Seq(Cells) /\ u \in Seq(Cells) /\ v \in Seq(Cells)
        BY <1>1, <2>5
      <4> QED
        BY <4>1, <4>2, Zenon
    <3> QED
      BY <2>3, <2>5, <2>6, <3>1, <3>2
  <2>9. \A i \in 1 .. Len(a) : a[i] <= k
    <3>1. \A i \in 1 .. Len(a) : a[i] \in Nat
      BY <2>4
    <3> QED
      BY <2>4, <3>1
  <2>10. /\ "read" \in d.events /\ ("write" \in d.events <=> d.outputBuffer_ # << >>)
         /\ ~d.readShut
    BY <2>1, <2>5, <2>6 DEF Whole
  <2> QED
    BY <2>1, <2>4, <2>6, <2>7, <2>8, <2>9, <2>10 DEF Whole, LastIs400
<1> QED
  BY <1>2, <1>3

LEMMA ShutdownKeeps ==
    ASSUME NEW c, NEW m, Whole(c, m)
    PROVE  Whole(shutdown(c), m) /\ shutdown(c).state_ # "kConnected"
<1>1. c \in Conns
  BY DEF Whole
<1>2. CASE c.state_ # "kConnected"
  BY <1>2 DEF shutdown
<1>3. CASE c.state_ = "kConnected"
  <2>1. "read" \in c.events /\ ("write" \in c.events <=> c.outputBuffer_ # << >>)
    BY <1>3 DEF Whole
  <2>2. CASE "write" \in c.events
    <3>1. shutdown(c) = [c EXCEPT !.state_ = "kDisconnecting"]
      BY <1>1, <1>3, <2>2 DEF shutdown, shutdownInLoop, Conns
    <3> QED
      BY <1>1, <1>3, <2>1, <2>2, <3>1 DEF Whole, Conns
  <2>3. CASE "write" \notin c.events
    <3>1. shutdown(c) = [c EXCEPT !.state_ = "kDisconnecting", !.readShut = TRUE]
      BY <1>1, <1>3, <2>3 DEF shutdown, shutdownInLoop, Conns
    <3> QED
      BY <1>1, <1>3, <2>1, <2>3, <3>1 DEF Whole, Conns
  <2> QED
    BY <2>2, <2>3
<1> QED
  BY <1>2, <1>3

-------------------------------------------------------------------------------
\* The steps.

\* The parts of TypeOK that are not about the connection.
ClientTypes == /\ patient \in BOOLEAN /\ peerClosed \in BOOLEAN
               /\ toAsk \in Seq(Seq(Cell)) /\ net \in Seq(Cell)

LEMMA Types ==
    TypeOK <=> /\ ClientTypes /\ inputBuffer_ \in Seq(Cell) /\ context_ \in Contexts
               /\ parsed \in Nat /\ conn \in Conns
               /\ failed \in {"none", "setMethod", "spin"}
  BY DEF TypeOK, ClientTypes, Cell, Conns

LEMMA TypesNext ==
    ASSUME ClientTypes', inputBuffer_' \in Seq(Cell), context_' \in Contexts, parsed' \in Nat,
           conn' \in Conns, failed' \in {"none", "setMethod", "spin"}
    PROVE  TypeOK'
  BY DEF TypeOK, ClientTypes, Cell, Conns

LEMMA InitKeeps == Init => IInv
<1> SUFFICES ASSUME Init PROVE IInv
  OBVIOUS
<1>1. /\ conn = Connected /\ parsed = 0 /\ context_ = NewContext /\ failed = "none"
      /\ inputBuffer_ = << >> /\ net = << >>
  BY DEF Init
<1>2. ClientTypes
  <2>1. toAsk \in Seq(Seq(Cell)) /\ << >> \in Seq(Cell)
    BY ScriptsAssumption DEF Init, Cell
  <2> QED
    BY <1>1, <2>1 DEF Init, ClientTypes
<1>3. NewContext \in Contexts /\ NewContext.state_ # "kGotAll" /\ ~Spoilt(NewContext)
  BY DEF NewContext, NoRequest, Contexts, ParseState, Spoilt
<1>4. Whole(Connected, 0) /\ LastIs400(Connected)
  <2>1. Connected \in Conns
    BY DEF Connected, Conns
  <2>2. /\ Connected.wrote = << >> /\ Connected.outputBuffer_ = << >> /\ Connected.answers = << >>
        /\ ~Connected.readShut /\ Connected.state_ = "kConnected" /\ Connected.events = {"read"}
    BY DEF Connected
  <2>3. Flat(<< >>) = << >>
    <3>1. << >> \in Seq(Nat) /\ Len(<< >>) = 0
      OBVIOUS
    <3>2. Flat(<< >>) \in Seq(Cells) /\ Len(Flat(<< >>)) = 2 * 0
      BY <3>1, FlatIs
    <3> QED
      BY <3>2, EmptySeq
  <2>4. << >> \o << >> = << >> /\ Len(<< >>) = 0
    BY ConcatEmptySeq
  <2> QED
    BY <2>1, <2>2, <2>3, <2>4 DEF Whole, LastIs400, Ordered
<1>5. TypeOK
  BY <1>1, <1>2, <1>3, <1>4, Types DEF Whole
<1> QED
  BY <1>1, <1>3, <1>4, <1>5 DEF IInv, AbortsOnlyAfterRefusal

LEMMA ClientKeepsTypes ==
    ASSUME TypeOK, ClientAsks \/ ClientCloses
    PROVE  TypeOK' /\ UNCHANGED <<context_, parsed, conn, failed>>
<1>1. /\ UNCHANGED <<patient, inputBuffer_, context_, parsed, conn, failed>>
      /\ ClientTypes
  BY Types DEF ClientAsks, ClientCloses
<1>2. ClientTypes'
  <2>1. CASE ClientAsks
    <3>1. toAsk # << >> /\ Head(toAsk) \in Seq(Cell) /\ Tail(toAsk) \in Seq(Seq(Cell))
      BY <1>1, <2>1 DEF ClientAsks, ClientTypes
    <3>2. net \o Head(toAsk) \in Seq(Cell)
      BY <1>1, <3>1 DEF ClientTypes
    <3> QED
      BY <1>1, <2>1, <3>1, <3>2 DEF ClientAsks, ClientTypes
  <2>2. CASE ClientCloses
    BY <1>1, <2>2 DEF ClientCloses, ClientTypes
  <2> QED
    BY <2>1, <2>2
<1>3. TypeOK'
  BY <1>1, <1>2, Types, TypesNext
<1> QED
  BY <1>1, <1>3

LEMMA ClientKeeps == ASSUME IInv, ClientAsks \/ ClientCloses PROVE IInv'
  BY ClientKeepsTypes DEF IInv, AbortsOnlyAfterRefusal

LEMMA CloseKeeps == ASSUME IInv, HandleClose PROVE IInv'
<1>1. /\ UNCHANGED <<toAsk, patient, peerClosed, net, inputBuffer_, context_, parsed, failed>>
      /\ conn' = [conn EXCEPT !.state_ = "kDisconnected", !.events = {}] /\ failed = "none"
      /\ conn \in Conns
  BY Types DEF IInv, HandleClose
<1>2. /\ conn' \in Conns /\ conn'.state_ = "kDisconnected" /\ conn'.events = {}
      /\ conn'.wrote = conn.wrote /\ conn'.outputBuffer_ = conn.outputBuffer_
      /\ conn'.answers = conn.answers /\ conn'.readShut = conn.readShut
  BY <1>1 DEF Conns
<1>3. TypeOK'
  BY <1>1, <1>2, Types, TypesNext DEF IInv, ClientTypes
<1>4. Whole(conn', parsed) /\ LastIs400(conn')
  BY <1>2 DEF IInv, Whole, LastIs400
<1> QED
  BY <1>1, <1>2, <1>3, <1>4 DEF IInv, AbortsOnlyAfterRefusal

LEMMA WriteKeeps ==
    ASSUME IInv, NEW k \in 1 .. Len(conn.outputBuffer_), HandleWrite(k)
    PROVE  IInv'
<1> DEFINE u == SubSeq(conn.outputBuffer_, 1, k)
           v == SubSeq(conn.outputBuffer_, k + 1, Len(conn.outputBuffer_))
           c == [conn EXCEPT !.wrote = conn.wrote \o u, !.outputBuffer_ = v]
           d == [c EXCEPT !.events = conn.events \ {"write"}]
<1>1. /\ conn \in Conns /\ conn.wrote \in Seq(Cells) /\ conn.outputBuffer_ \in Seq(Cells)
      /\ "write" \in conn.events /\ failed = "none" /\ Whole(conn, parsed)
      /\ UNCHANGED <<toAsk, patient, peerClosed, net, inputBuffer_, context_, parsed, failed>>
  BY Types DEF IInv, HandleWrite, Conns
<1>2. u \in Seq(Cells) /\ v \in Seq(Cells) /\ u \o v = conn.outputBuffer_
  BY <1>1, Split
<1>3. conn' = IF v # << >> THEN c
              ELSE IF conn.state_ = "kDisconnecting" THEN [d EXCEPT !.readShut = TRUE] ELSE d
  <2>1. c.events = conn.events /\ c.outputBuffer_ = v /\ d.state_ = conn.state_ /\ "write" \notin d.events
    BY <1>1 DEF Conns
  <2> HIDE DEF u, v
  <2> QED
    BY <1>1, <2>1 DEF HandleWrite, shutdownInLoop, u, v
<1>4. conn.wrote \o u \in Seq(Cells) /\ (conn.wrote \o u) \o v = Flat(conn.answers)
  <2> HIDE DEF u, v
  <2>1. \A r, s, t \in Seq(Cells) : (r \o s) \o t = r \o (s \o t)
    BY Associates
  <2>2. conn.wrote \o (u \o v) = Flat(conn.answers)
    BY <1>1, <1>2 DEF Whole
  <2>3. conn.wrote \in Seq(Cells) /\ u \in Seq(Cells) /\ v \in Seq(Cells)
    BY <1>1, <1>2
  <2>4. conn.wrote \o u \in Seq(Cells)
    BY <2>3
  <2> QED
    BY <2>1, <2>2, <2>3, <2>4, Zenon
<1> DEFINE w == conn.wrote \o u
<1>5. /\ conn' \in Conns /\ conn'.wrote = w /\ conn'.outputBuffer_ = v
      /\ conn'.answers = conn.answers /\ conn'.state_ = conn.state_
      /\ conn'.events = IF v # << >> THEN conn.events ELSE conn.events \ {"write"}
      /\ conn'.readShut => conn.readShut \/ (v = << >> /\ conn.state_ = "kDisconnecting")
  <2>1. w \in Seq(Cells) /\ v \in Seq(Cells)
    BY <1>2, <1>4
  <2> HIDE DEF w, v
  <2>2. CASE v # << >>
    <3>1. conn' = [conn EXCEPT !.wrote = w, !.outputBuffer_ = v]
      BY <1>3, <2>2 DEF w
    <3>2. conn'.readShut = conn.readShut
      BY <1>1, <3>1 DEF Conns
    <3> QED
      BY <1>1, <2>1, <2>2, <3>1, <3>2 DEF Conns
  <2>3. CASE v = << >> /\ conn.state_ = "kDisconnecting"
    <3>1. conn' = [conn EXCEPT !.wrote = w, !.outputBuffer_ = v, !.events = conn.events \ {"write"},
                               !.readShut = TRUE]
      BY <1>1, <1>3, <2>3 DEF w, Conns
    <3> QED
      BY <1>1, <2>1, <2>3, <3>1 DEF Conns
  <2>4. CASE v = << >> /\ conn.state_ # "kDisconnecting"
    <3>1. conn' = [conn EXCEPT !.wrote = w, !.outputBuffer_ = v, !.events = conn.events \ {"write"}]
      BY <1>1, <1>3, <2>4 DEF w, Conns
    <3>2. conn'.readShut = conn.readShut
      BY <1>1, <3>1 DEF Conns
    <3> QED
      BY <1>1, <2>1, <2>4, <3>1, <3>2 DEF Conns
  <2> QED
    BY <2>2, <2>3, <2>4
<1>6. w \o v = Flat(conn.answers)
  BY <1>4
<1> HIDE DEF u, v, c, d, w
<1>7. conn.state_ # "kDisconnected" /\ "read" \in conn.events /\ ~conn.readShut
  BY <1>1 DEF Whole
<1>8. Whole(conn', parsed) /\ LastIs400(conn')
  BY <1>1, <1>5, <1>6, <1>7 DEF IInv, Whole, LastIs400
<1>9. TypeOK'
  BY <1>1, <1>5, Types, TypesNext DEF IInv, ClientTypes
<1> QED
  BY <1>1, <1>5, <1>8, <1>9 DEF IInv, AbortsOnlyAfterRefusal

LEMMA ReadKeeps ==
    ASSUME IInv, NEW k \in 1 .. Len(net), HandleRead(k)
    PROVE  IInv'
<1> DEFINE buf == inputBuffer_ \o SubSeq(net, 1, k)
<1>1. /\ ClientTypes /\ inputBuffer_ \in Seq(Cell) /\ context_ \in Contexts
      /\ context_.state_ # "kGotAll" /\ parsed \in Nat /\ conn \in Conns
      /\ Whole(conn, parsed) /\ LastIs400(conn)
  BY Types DEF IInv
<1>2. net' \in Seq(Cell) /\ buf \in Seq(Cell)
  <2>1. net \in Seq(Cell) /\ k \in 0 .. Len(net)
    BY <1>1 DEF ClientTypes
  <2>2. SubSeq(net, 1, k) \in Seq(Cell) /\ SubSeq(net, k + 1, Len(net)) \in Seq(Cell)
    BY <2>1, Split
  <2> QED
    BY <1>1, <2>2 DEF HandleRead
<1>3. ClientTypes'
  BY <1>1, <1>2 DEF HandleRead, ClientTypes
<1> HIDE DEF buf
<1>4. PICK p : p = parseRequest(context_, buf)
  OBVIOUS
<1>5. Sound(p, context_) /\ ~Alive(p) /\ p \in Parse
  BY <1>1, <1>2, <1>4, ParseIs DEF Sound
<1>6. onMessage(p)
  BY <1>4 DEF HandleRead, buf
<1>7. conn.state_ # "kDisconnected"
  BY <1>1 DEF HandleRead, Whole
<1>8. inputBuffer_' \in Seq(Cell) /\ p.context \in Contexts /\ inputBuffer_' = p.buf
  BY <1>5, <1>6 DEF onMessage, Parse
<1>9. CASE p.aborted
  <2>1. context_' = p.context /\ parsed' = parsed /\ failed' = "setMethod" /\ conn' = conn
    <3>1. context_' = p.context /\ parsed' = parsed
      BY <1>6, <1>9 DEF onMessage
    <3>2. failed' = "setMethod"
      BY <1>6, <1>9 DEF onMessage
    <3>3. conn' = conn
      BY <1>6, <1>9 DEF onMessage
    <3> QED
      BY <3>1, <3>2, <3>3
  <2>2. p.context.state_ # "kGotAll" /\ conn.state_ # "kConnected"
    BY <1>5, <1>9 DEF Sound, IInv
  <2>3. conn.state_ = "kDisconnecting"
    BY <1>1, <1>7, <2>2 DEF Conns
  <2>4. TypeOK'
    BY <1>1, <1>3, <1>8, <2>1, TypesNext
  <2> QED
    BY <1>1, <2>1, <2>2, <2>3, <2>4 DEF IInv, AbortsOnlyAfterRefusal
<1>10. CASE ~p.aborted
  <2>1. ~p.more /\ failed' = "none"
    BY <1>5, <1>6, <1>10 DEF Alive, onMessage
  <2>2. ASSUME Whole(conn', parsed'), LastIs400(conn'), parsed' \in Nat, context_' \in Contexts,
               context_'.state_ # "kGotAll", Spoilt(context_') => conn'.state_ # "kConnected"
        PROVE  IInv'
    <3>1. TypeOK'
      BY <1>3, <1>8, <2>1, <2>2, TypesNext DEF Whole
    <3> QED
      BY <2>1, <2>2, <3>1 DEF IInv, AbortsOnlyAfterRefusal
  <2>3. CASE ~p.ok
    <3>1. p.context.state_ # "kGotAll"
      BY <1>5, <2>3 DEF Sound
    <3>2. context_' = p.context /\ parsed' = parsed /\ conn' \in {shutdown(d) : d \in send(conn, 0)}
      BY <1>6, <1>10, <2>1, <2>3, <3>1 DEF onMessage, gotAll
    <3>3. PICK d \in send(conn, 0) : conn' = shutdown(d)
      BY <3>2
    <3>4. Whole(d, parsed)
      BY <1>1, SendKeeps
    <3>5. Whole(conn', parsed) /\ conn'.state_ # "kConnected"
      BY <3>3, <3>4, ShutdownKeeps
    <3> QED
      BY <1>1, <1>8, <2>2, <3>1, <3>2, <3>5 DEF LastIs400
  <2>4. CASE p.ok /\ gotAll(p.context)
    <3>1. /\ context_' = NewContext /\ parsed' = parsed + 1
          /\ conn' \in onRequest(conn, parsed + 1, p.context.request_)
      BY <1>6, <1>10, <2>1, <2>4 DEF onMessage, reset
    <3>2. NewContext \in Contexts /\ NewContext.state_ # "kGotAll" /\ ~Spoilt(NewContext)
      BY DEF NewContext, NoRequest, Contexts, ParseState, Spoilt
    <3>3. PICK d \in send(conn, parsed + 1) : conn' = d \/ conn' = shutdown(d)
      BY <3>1 DEF onRequest
    <3>4. Whole(d, parsed + 1) /\ LastIs400(d)
      BY <1>1, SendKeeps
    <3>5. Whole(conn', parsed + 1) /\ LastIs400(conn')
      BY <3>3, <3>4, ShutdownKeeps DEF LastIs400
    <3> QED
      BY <1>1, <2>2, <3>1, <3>2, <3>5
  <2>5. CASE p.ok /\ ~gotAll(p.context)
    <3>1. context_' = p.context /\ parsed' = parsed /\ conn' = conn
      BY <1>6, <1>10, <2>1, <2>5 DEF onMessage
    <3>2. Spoilt(p.context) => Spoilt(context_)
      BY <1>5, <2>5 DEF Sound, Spoilt
    <3> QED
      BY <1>1, <1>8, <2>2, <2>5, <3>1, <3>2 DEF gotAll, IInv
  <2> QED
    BY <1>5, <2>3, <2>4, <2>5 DEF Parse
<1> QED
  BY <1>9, <1>10

LEMMA StepKeeps == IInv /\ [Next]_vars => IInv'
<1> SUFFICES ASSUME IInv, [Next]_vars PROVE IInv'
  OBVIOUS
<1>1. CASE UNCHANGED vars
  BY <1>1 DEF vars, IInv, TypeOK, AbortsOnlyAfterRefusal
<1> QED
  BY <1>1, ClientKeeps, CloseKeeps, WriteKeeps, ReadKeeps DEF Next

\* The inductive invariant.
THEOREM Invariance == Spec => []IInv
  BY InitKeeps, StepKeeps, PTL DEF Spec

\* For any requests, well formed or not, cut anywhere on their way, and any sizes of the parts in
\* which the socket takes the answers: the stream to the client is whole answers, in the order
\* of the requests and the 400 last, the close comes after the last byte, the parser always
\* ends, and its assertion fails only for what comes behind a refused line.
THEOREM AnswersAreInOrder == Spec => []AnswersInOrder
<1>1. IInv => AnswersInOrder
  BY DEF IInv, AnswersInOrder, StreamIntact, InOrder, ShutAfterLastByte, Whole, Ordered
<1> QED
  BY <1>1, Invariance, PTL

-------------------------------------------------------------------------------
\* The connection of a process.

\* It has no write event.  What it wrote and keeps is its answers, none but to the first m
\* requests; as long as nothing is kept, to each of them.
Clipped(c, m) ==
    /\ c \in Conns /\ c.events \subseteq {"read"}
    /\ c.wrote \o c.outputBuffer_ = Flat(c.answers)
    /\ Ordered(c.answers)
    /\ \A i \in 1 .. Len(c.answers) : c.answers[i] <= m
    /\ c.state_ # "kDisconnected" <=> "read" \in c.events

Complete(c, m) ==
    c.outputBuffer_ = << >> /\ c.state_ = "kConnected" => c.answers = [i \in 1 .. m |-> i]

ProcessInv ==
    /\ TypeOK
    /\ Clipped(conn, parsed) /\ LastIs400(conn) /\ Complete(conn, parsed)
    /\ context_.state_ # "kGotAll"
    /\ Spoilt(context_) => conn.state_ # "kConnected"
    /\ AbortsOnlyAfterRefusal

\* An answer of which the socket takes x cells, when nothing is kept.
LEMMA WrittenInPart ==
    ASSUME NEW w \in Seq(Cells), NEW a \in Seq(Nat), NEW n \in Nat, w = Flat(a),
           NEW x \in Written(appendToBuffer(n))
    PROVE  LET msg == appendToBuffer(n)
               u == SubSeq(msg, 1, x)
               v == SubSeq(msg, x + 1, Len(msg))
           IN  w \o u \in Seq(Cells) /\ v \in Seq(Cells) /\ (w \o u) \o v = Flat(Append(a, n))
<1> DEFINE msg == appendToBuffer(n)
           u == SubSeq(msg, 1, x)
           v == SubSeq(msg, x + 1, Len(msg))
<1>1. Flat(Append(a, n)) = Flat(a) \o msg /\ msg \in Seq(Cells) /\ Len(msg) = 2
  BY FlatAppend
<1> HIDE DEF msg
<1>2. x \in 0 .. Len(msg)
  BY DEF Written, msg
<1>3. u \in Seq(Cells) /\ v \in Seq(Cells) /\ u \o v = msg
  BY <1>1, <1>2, Split
<1> HIDE DEF u, v
<1>5. (w \o u) \o v = w \o (u \o v)
  BY <1>3, Associates
<1>6. w \o u \in Seq(Cells)
  BY <1>3
<1> QED
  BY <1>1, <1>3, <1>5, <1>6 DEF u, v, msg

\* All of the first m requests are answered, and then the next one.
LEMMA OneMore ==
    ASSUME NEW m \in Nat
    PROVE  Append([i \in 1 .. m |-> i], m + 1) = [i \in 1 .. m + 1 |-> i]
<1> DEFINE a == [i \in 1 .. m |-> i]
           b == [i \in 1 .. m + 1 |-> i]
<1>1. a \in Seq(Nat) /\ Len(a) = m /\ b \in Seq(Nat) /\ Len(b) = m + 1
  OBVIOUS
<1>2. /\ Append(a, m + 1) \in Seq(Nat) /\ Len(Append(a, m + 1)) = m + 1
      /\ Append(a, m + 1)[m + 1] = m + 1
      /\ \A i \in 1 .. m : Append(a, m + 1)[i] = a[i]
  BY <1>1, AppendProperties
<1>3. \A i \in 1 .. m + 1 : Append(a, m + 1)[i] = b[i]
  <2> SUFFICES ASSUME NEW i \in 1 .. m + 1 PROVE Append(a, m + 1)[i] = b[i]
    OBVIOUS
  <2>1. i \in 1 .. m \/ i = m + 1
    OBVIOUS
  <2> QED
    BY <1>2, <2>1
<1> HIDE DEF a, b
<1>4. Append(a, m + 1) = b
  BY <1>1, <1>2, <1>3, SeqEqual
<1> QED
  BY <1>4 DEF a, b

\* n is the number of the next request, or 0 for the 400.
LEMMA SendNowKeeps ==
    ASSUME NEW c, NEW m \in Nat, Clipped(c, m), LastIs400(c), Complete(c, m),
           NEW n \in {0, m + 1}, NEW d \in sendNow(c, n)
    PROVE  /\ d.state_ = c.state_
           /\ n = 0 => Clipped(d, m)
           /\ n # 0 => Clipped(d, m + 1) /\ LastIs400(d) /\ Complete(d, m + 1)
<1>1. c \in Conns /\ c.answers \in Seq(Nat) /\ c.wrote \in Seq(Cells) /\ c.outputBuffer_ \in Seq(Cells)
  BY DEF Clipped, Conns
<1>2. "write" \notin c.events
  BY DEF Clipped
<1>3. CASE d = c /\ (c.state_ # "kConnected" \/ c.outputBuffer_ # << >>)
  <2>1. \A i \in 1 .. Len(c.answers) : c.answers[i] \in Nat /\ c.answers[i] <= m
    BY <1>1 DEF Clipped
  <2>2. \A i \in 1 .. Len(c.answers) : c.answers[i] <= m + 1
    BY <2>1
  <2> QED
    BY <1>3, <2>2 DEF Clipped, Complete
<1>4. CASE c.state_ = "kConnected" /\ c.outputBuffer_ = << >>
  <2> DEFINE msg == appendToBuffer(n)
             a == Append(c.answers, n)
  <2>1. PICK x \in Written(msg) :
            d = [c EXCEPT !.answers = Append(@, n),
                          !.wrote = @ \o SubSeq(msg, 1, x),
                          !.outputBuffer_ = SubSeq(msg, x + 1, Len(msg)),
                          !.events = @ \union {"read"}]
    BY <1>2, <1>4 DEF sendNow, WriteAndKeep
  <2> DEFINE w == c.wrote \o SubSeq(msg, 1, x)
             v == SubSeq(msg, x + 1, Len(msg))
  <2>2. n \in Nat /\ c.wrote = Flat(c.answers)
    <3>1. c.wrote \o << >> = Flat(c.answers)
      BY <1>4 DEF Clipped
    <3> QED
      BY <1>1, <3>1, ConcatEmptySeq
  <2>3. w \in Seq(Cells) /\ v \in Seq(Cells) /\ w \o v = Flat(a)
    BY <1>1, <2>2, WrittenInPart
  <2>4. /\ a \in Seq(Nat) /\ Ordered(a)
        /\ \A i \in 1 .. Len(a) : a[i] <= m \/ a[i] = n
        /\ n # 0 => \A i \in 1 .. Len(a) : a[i] # 0
    <3>1. Ordered(c.answers) /\ \A i \in 1 .. Len(c.answers) : c.answers[i] <= m /\ c.answers[i] # 0
      BY <1>4 DEF Clipped, LastIs400
    <3>2. n = 0 \/ n > m
      OBVIOUS
    <3> QED
      BY <1>1, <2>2, <3>1, <3>2, OrderedAppend
  <2>5. n # 0 => a = [i \in 1 .. m + 1 |-> i]
    BY <1>4, OneMore DEF Complete
  <2>6. d = [c EXCEPT !.answers = a, !.wrote = w, !.outputBuffer_ = v,
                      !.events = c.events \union {"read"}]
    BY <2>1
  <2> HIDE DEF msg, a, w, v
  <2>7. /\ d \in Conns /\ d.answers = a /\ d.wrote = w /\ d.outputBuffer_ = v
        /\ d.events = c.events \union {"read"} /\ d.state_ = "kConnected"
    <3>1. c.events \union {"read"} \in SUBSET {"read", "write"}
      BY <1>1 DEF Conns
    <3> QED
      BY <1>1, <1>4, <2>3, <2>4, <2>6, <3>1 DEF Conns
  <2>8. /\ n = 0 => \A i \in 1 .. Len(a) : a[i] <= m
        /\ n # 0 => \A i \in 1 .. Len(a) : a[i] <= m + 1
    <3>1. \A i \in 1 .. Len(a) : a[i] \in Nat
      BY <2>4
    <3> QED
      BY <2>4, <3>1
  <2>9. d.events \subseteq {"read"} /\ "read" \in d.events
    BY <2>7 DEF Clipped
  <2> QED
    BY <1>4, <2>3, <2>4, <2>5, <2>7, <2>8, <2>9 DEF Clipped, LastIs400, Complete
<1> QED
  BY <1>2, <1>3, <1>4 DEF sendNow, WriteAndKeep

\* Nothing is awaited: the reading side is shut at once.
LEMMA ShutdownNowKeeps ==
    ASSUME NEW c, NEW m, Clipped(c, m)
    PROVE  Clipped(shutdownNow(c), m) /\ shutdownNow(c).state_ # "kConnected"
<1>1. c \in Conns /\ "write" \notin c.events
  BY DEF Clipped
<1>2. CASE c.state_ # "kConnected"
  BY <1>2 DEF shutdownNow
<1>3. CASE c.state_ = "kConnected"
  <2>1. shutdownNow(c) = [c EXCEPT !.state_ = "kDisconnecting", !.readShut = TRUE]
    BY <1>1, <1>3 DEF shutdownNow, shutdownInSocket, Conns
  <2> QED
    BY <1>1, <1>3, <2>1 DEF Clipped, Conns
<1> QED
  BY <1>2, <1>3

LEMMA ProcessStartsWell == Init => ProcessInv
<1> SUFFICES ASSUME Init PROVE ProcessInv
  OBVIOUS
<1>1. IInv /\ conn = Connected /\ parsed = 0
  BY InitKeeps DEF Init
<1>2. conn.events = {"read"} /\ conn.answers = << >>
  BY <1>1 DEF Connected
<1>3. << >> = [i \in 1 .. 0 |-> i]
  OBVIOUS
<1>4. Clipped(conn, parsed) /\ Complete(conn, parsed)
  BY <1>1, <1>2, <1>3 DEF IInv, Whole, Clipped, Complete
<1> QED
  BY <1>1, <1>4 DEF IInv, ProcessInv

LEMMA ProcessEndKeeps == ASSUME ProcessInv, ReadEnd PROVE ProcessInv'
<1>1. /\ UNCHANGED <<toAsk, patient, peerClosed, net, inputBuffer_, context_, parsed, failed>>
      /\ conn' = [conn EXCEPT !.state_ = "kDisconnected", !.events = {}] /\ failed = "none"
      /\ conn \in Conns
  BY Types DEF ProcessInv, ReadEnd, HandleClose
<1>2. /\ conn' \in Conns /\ conn'.state_ = "kDisconnected" /\ conn'.events = {}
      /\ conn'.wrote = conn.wrote /\ conn'.outputBuffer_ = conn.outputBuffer_
      /\ conn'.answers = conn.answers
  BY <1>1 DEF Conns
<1>3. TypeOK'
  BY <1>1, <1>2, Types, TypesNext DEF ProcessInv, ClientTypes
<1>4. Clipped(conn', parsed) /\ LastIs400(conn') /\ Complete(conn', parsed)
  BY <1>2 DEF ProcessInv, Clipped, LastIs400, Complete
<1> QED
  BY <1>1, <1>2, <1>3, <1>4 DEF ProcessInv, AbortsOnlyAfterRefusal

LEMMA ProcessReadKeeps ==
    ASSUME ProcessInv, NEW k \in 1 .. Len(net), ReadRequest(k)
    PROVE  ProcessInv'
<1> DEFINE buf == inputBuffer_ \o SubSeq(net, 1, k)
<1>1. /\ ClientTypes /\ inputBuffer_ \in Seq(Cell) /\ context_ \in Contexts
      /\ context_.state_ # "kGotAll" /\ parsed \in Nat /\ conn \in Conns
      /\ Clipped(conn, parsed) /\ LastIs400(conn) /\ Complete(conn, parsed)
  BY Types DEF ProcessInv
<1>2. net' \in Seq(Cell) /\ buf \in Seq(Cell)
  <2>1. net \in Seq(Cell) /\ k \in 0 .. Len(net)
    BY <1>1 DEF ClientTypes
  <2>2. SubSeq(net, 1, k) \in Seq(Cell) /\ SubSeq(net, k + 1, Len(net)) \in Seq(Cell)
    BY <2>1, Split
  <2> QED
    BY <1>1, <2>2 DEF ReadRequest
<1>3. ClientTypes'
  BY <1>1, <1>2 DEF ReadRequest, ClientTypes
<1> HIDE DEF buf
<1>4. PICK p : p = parseRequest(context_, buf)
  OBVIOUS
<1>5. Sound(p, context_) /\ ~Alive(p) /\ p \in Parse
  BY <1>1, <1>2, <1>4, ParseIs DEF Sound
<1>6. OnMessage(p) /\ conn.state_ # "kDisconnected"
  BY <1>1, <1>4 DEF ReadRequest, buf, Clipped
<1>7. inputBuffer_' \in Seq(Cell) /\ p.context \in Contexts /\ inputBuffer_' = p.buf
  BY <1>5, <1>6 DEF OnMessage, Parse
<1>8. CASE p.aborted
  <2>1. context_' = p.context /\ parsed' = parsed /\ failed' = "setMethod"
    BY <1>6, <1>8 DEF OnMessage
  <2>2. conn' = conn
    BY <1>6, <1>8 DEF OnMessage
  <2>3. p.context.state_ # "kGotAll" /\ conn.state_ # "kConnected"
    BY <1>5, <1>8 DEF Sound, ProcessInv
  <2>4. conn.state_ = "kDisconnecting"
    BY <1>1, <1>6, <2>3 DEF Conns
  <2>5. TypeOK'
    BY <1>1, <1>3, <1>7, <2>1, <2>2, TypesNext
  <2> QED
    BY <1>1, <2>1, <2>2, <2>3, <2>4, <2>5 DEF ProcessInv, AbortsOnlyAfterRefusal
<1>9. CASE ~p.aborted
  <2>1. ~p.more /\ failed' = "none"
    BY <1>5, <1>6, <1>9 DEF Alive, OnMessage
  <2>2. ASSUME Clipped(conn', parsed'), LastIs400(conn'), Complete(conn', parsed'),
               parsed' \in Nat, context_' \in Contexts, context_'.state_ # "kGotAll",
               Spoilt(context_') => conn'.state_ # "kConnected"
        PROVE  ProcessInv'
    <3>1. TypeOK'
      BY <1>3, <1>7, <2>1, <2>2, TypesNext DEF Clipped
    <3> QED
      BY <2>1, <2>2, <3>1 DEF ProcessInv, AbortsOnlyAfterRefusal
  <2>3. CASE ~p.ok
    <3>1. p.context.state_ # "kGotAll"
      BY <1>5, <2>3 DEF Sound
    <3>2. context_' = p.context /\ parsed' = parsed /\ conn' \in Refuse(conn)
      BY <1>6, <1>9, <2>1, <2>3, <3>1 DEF OnMessage, gotAll
    <3>3. PICK d \in sendNow(conn, 0) : conn' = shutdownNow(d)
      BY <3>2 DEF Refuse
    <3>4. Clipped(d, parsed)
      BY <1>1, SendNowKeeps
    <3>5. Clipped(conn', parsed) /\ conn'.state_ # "kConnected"
      BY <3>3, <3>4, ShutdownNowKeeps
    <3> QED
      BY <1>1, <1>7, <2>2, <3>1, <3>2, <3>5 DEF LastIs400, Complete
  <2>4. CASE p.ok /\ gotAll(p.context)
    <3>1. /\ context_' = NewContext /\ parsed' = parsed + 1
          /\ conn' \in Answer(conn, parsed + 1, p.context.request_)
      BY <1>6, <1>9, <2>1, <2>4 DEF OnMessage, reset
    <3>2. NewContext \in Contexts /\ NewContext.state_ # "kGotAll" /\ ~Spoilt(NewContext)
      BY DEF NewContext, NoRequest, Contexts, ParseState, Spoilt
    <3>3. PICK d \in sendNow(conn, parsed + 1) : conn' = d \/ conn' = shutdownNow(d)
      BY <3>1 DEF Answer
    <3>4. Clipped(d, parsed + 1) /\ LastIs400(d) /\ Complete(d, parsed + 1)
      <4>1. parsed + 1 \in {0, parsed + 1} /\ parsed + 1 # 0
        BY <1>1
      <4> QED
        BY <1>1, <4>1, SendNowKeeps
    <3>5. Clipped(conn', parsed + 1) /\ LastIs400(conn') /\ Complete(conn', parsed + 1)
      BY <3>3, <3>4, ShutdownNowKeeps DEF LastIs400, Complete
    <3> QED
      BY <1>1, <2>2, <3>1, <3>2, <3>5
  <2>5. CASE p.ok /\ ~gotAll(p.context)
    <3>1. context_' = p.context /\ parsed' = parsed /\ conn' = conn
      BY <1>6, <1>9, <2>1, <2>5 DEF OnMessage
    <3>2. Spoilt(p.context) => Spoilt(context_)
      BY <1>5, <2>5 DEF Sound, Spoilt
    <3> QED
      BY <1>1, <1>7, <2>2, <2>5, <3>1, <3>2 DEF gotAll, ProcessInv
  <2> QED
    BY <1>5, <2>3, <2>4, <2>5 DEF Parse
<1> QED
  BY <1>8, <1>9

LEMMA ProcessStepKeeps == ProcessInv /\ [ProcessNext]_vars => ProcessInv'
<1> SUFFICES ASSUME ProcessInv, [ProcessNext]_vars PROVE ProcessInv'
  OBVIOUS
<1>1. CASE UNCHANGED vars
  BY <1>1 DEF vars, ProcessInv, TypeOK, AbortsOnlyAfterRefusal
<1>2. CASE ClientAsks \/ ClientCloses
  BY <1>2, ClientKeepsTypes DEF ProcessInv, AbortsOnlyAfterRefusal
<1> QED
  BY <1>1, <1>2, ProcessEndKeeps, ProcessReadKeeps DEF ProcessNext

\* In a process, whatever the socket takes of each answer: the client gets a prefix of the
\* answers, in the order of the requests and the 400 last; while none is cut, each request has
\* its own; and the parser aborts only for what comes behind a refused line.  This is the
\* safe part of ProcessAnswers.
THEOREM PrefixIsAnswered == Init /\ [][ProcessNext]_vars => []PrefixOfAnswers
<1>1. ProcessInv => PrefixOfAnswers
  BY DEF ProcessInv, PrefixOfAnswers, StreamIntact, InOrder, Clipped, Ordered, Complete
<1> QED
  BY <1>1, ProcessStartsWell, ProcessStepKeeps, PTL

-------------------------------------------------------------------------------
\* Sequences whose elements differ, and the sets of their elements.

Distinct(s) == \A i, j \in 1 .. Len(s) : s[i] = s[j] => i = j

LEMMA InToSet ==
    ASSUME NEW C, NEW s \in Seq(C)
    PROVE  /\ ToSet(s) \subseteq C
           /\ \A x : x \in ToSet(s) <=> \E i \in 1 .. Len(s) : s[i] = x
  BY DEF ToSet

LEMMA EmptyList == Distinct(<< >>) /\ ToSet(<< >>) = {}
  BY DEF Distinct, ToSet

LEMMA AppendList ==
    ASSUME NEW C, NEW s \in Seq(C), NEW x \in C
    PROVE  /\ Append(s, x) \in Seq(C)
           /\ ToSet(Append(s, x)) = ToSet(s) \union {x}
           /\ Distinct(s) /\ x \notin ToSet(s) => Distinct(Append(s, x))
<1> DEFINE t == Append(s, x)
<1>1. /\ t \in Seq(C) /\ Len(t) = Len(s) + 1
      /\ \A i \in 1 .. Len(s) + 1 : t[i] = IF i = Len(s) + 1 THEN x ELSE s[i]
  OBVIOUS
<1>2. Len(s) \in Nat
  OBVIOUS
<1> HIDE DEF t
<1>3. ToSet(t) = ToSet(s) \union {x}
  <2>1. ASSUME NEW y, y \in ToSet(t) PROVE y \in ToSet(s) \union {x}
    <3>1. PICK i \in 1 .. Len(s) + 1 : t[i] = y
      BY <1>1, <2>1, InToSet
    <3> QED
      BY <1>1, <1>2, <3>1, InToSet
  <2>2. ASSUME NEW y, y \in ToSet(s) PROVE y \in ToSet(t)
    <3>1. PICK i \in 1 .. Len(s) : s[i] = y
      BY <2>2, InToSet
    <3>2. i \in 1 .. Len(t) /\ t[i] = y
      BY <1>1, <1>2, <3>1
    <3> QED
      BY <1>1, <3>2, InToSet
  <2>3. x \in ToSet(t)
    <3>1. Len(t) \in 1 .. Len(t) /\ t[Len(t)] = x
      BY <1>1, <1>2
    <3> QED
      BY <1>1, <3>1, InToSet
  <2> QED
    BY <2>1, <2>2, <2>3
<1>4. Distinct(s) /\ x \notin ToSet(s) => Distinct(t)
  BY <1>1, <1>2, InToSet DEF Distinct
<1> QED
  BY <1>1, <1>3, <1>4 DEF t

LEMMA ConcatList ==
    ASSUME NEW C, NEW s \in Seq(C), NEW t \in Seq(C)
    PROVE  /\ s \o t \in Seq(C)
           /\ ToSet(s \o t) = ToSet(s) \union ToSet(t)
           /\ Distinct(s) /\ Distinct(t) /\ ToSet(s) \cap ToSet(t) = {} => Distinct(s \o t)
<1> DEFINE u == s \o t
<1>1. /\ u \in Seq(C) /\ Len(u) = Len(s) + Len(t)
      /\ \A i \in 1 .. Len(s) + Len(t) : u[i] = IF i <= Len(s) THEN s[i] ELSE t[i - Len(s)]
  OBVIOUS
<1>2. Len(s) \in Nat /\ Len(t) \in Nat
  OBVIOUS
<1> HIDE DEF u
<1>3. ToSet(u) = ToSet(s) \union ToSet(t)
  <2>1. ASSUME NEW y, y \in ToSet(u) PROVE y \in ToSet(s) \union ToSet(t)
    <3>1. PICK i \in 1 .. Len(u) : u[i] = y
      BY <2>1, <1>1, InToSet
    <3>2. CASE i <= Len(s)
      BY <1>1, <1>2, <3>1, <3>2, InToSet
    <3>3. CASE ~(i <= Len(s))
      <4>1. i - Len(s) \in 1 .. Len(t) /\ t[i - Len(s)] = y
        BY <1>1, <1>2, <3>1, <3>3
      <4> QED
        BY <4>1, InToSet
    <3> QED
      BY <3>2, <3>3
  <2>2. ASSUME NEW y, y \in ToSet(s) PROVE y \in ToSet(u)
    <3>1. PICK i \in 1 .. Len(s) : s[i] = y
      BY <2>2, InToSet
    <3>2. i \in 1 .. Len(u) /\ u[i] = y
      BY <1>1, <1>2, <3>1
    <3> QED
      BY <1>1, <3>2, InToSet
  <2>3. ASSUME NEW y, y \in ToSet(t) PROVE y \in ToSet(u)
    <3>1. PICK i \in 1 .. Len(t) : t[i] = y
      BY <2>3, InToSet
    <3>2. i + Len(s) \in 1 .. Len(u) /\ ~(i + Len(s) <= Len(s)) /\ (i + Len(s)) - Len(s) = i
      BY <1>1, <1>2, <3>1
    <3>3. u[i + Len(s)] = y
      BY <1>1, <3>1, <3>2
    <3> QED
      BY <1>1, <3>2, <3>3, InToSet
  <2> QED
    BY <2>1, <2>2, <2>3
<1>4. ASSUME Distinct(s), Distinct(t), ToSet(s) \cap ToSet(t) = {}
      PROVE  Distinct(u)
  <2> SUFFICES ASSUME NEW i \in 1 .. Len(u), NEW j \in 1 .. Len(u), u[i] = u[j]
               PROVE  i = j
    BY DEF Distinct
  <2>1. CASE i <= Len(s) /\ j <= Len(s)
    BY <1>1, <1>2, <1>4, <2>1 DEF Distinct
  <2>2. CASE i > Len(s) /\ j > Len(s)
    <3>1. i - Len(s) \in 1 .. Len(t) /\ j - Len(s) \in 1 .. Len(t)
      BY <1>1, <1>2, <2>2
    <3>2. t[i - Len(s)] = t[j - Len(s)]
      BY <1>1, <1>2, <2>2
    <3>3. i - Len(s) = j - Len(s)
      BY <1>4, <3>1, <3>2 DEF Distinct
    <3> QED
      BY <1>1, <1>2, <3>3
  <2>3. CASE i <= Len(s) /\ j > Len(s)
    <3>1. i \in 1 .. Len(s) /\ u[i] = s[i] /\ j - Len(s) \in 1 .. Len(t) /\ u[j] = t[j - Len(s)]
      BY <1>1, <1>2, <2>3
    <3>2. u[i] \in ToSet(s) /\ u[j] \in ToSet(t)
      BY <3>1, InToSet
    <3> QED
      BY <1>4, <3>2
  <2>4. CASE i > Len(s) /\ j <= Len(s)
    <3>1. j \in 1 .. Len(s) /\ u[j] = s[j] /\ i - Len(s) \in 1 .. Len(t) /\ u[i] = t[i - Len(s)]
      BY <1>1, <1>2, <2>4
    <3>2. u[j] \in ToSet(s) /\ u[i] \in ToSet(t)
      BY <3>1, InToSet
    <3> QED
      BY <1>4, <3>2
  <2> QED
    BY <1>1, <1>2, <2>1, <2>2, <2>3, <2>4
<1> QED
  BY <1>1, <1>3, <1>4 DEF u

LEMMA PrefixList ==
    ASSUME NEW C, NEW s \in Seq(C), NEW k \in 0 .. Len(s)
    PROVE  /\ SubSeq(s, 1, k) \in Seq(C)
           /\ ToSet(SubSeq(s, 1, k)) \subseteq ToSet(s)
           /\ Distinct(s) => Distinct(SubSeq(s, 1, k))
<1> DEFINE u == SubSeq(s, 1, k)
<1>1. u \in Seq(C) /\ Len(u) = k /\ \A i \in 1 .. k : u[i] = s[i]
  BY SubSeqProperties
<1>2. Len(s) \in Nat /\ k \in Nat /\ k <= Len(s)
  OBVIOUS
<1> HIDE DEF u
<1>3. ToSet(u) \subseteq ToSet(s)
  BY <1>1, <1>2, InToSet
<1>4. Distinct(s) => Distinct(u)
  BY <1>1, <1>2 DEF Distinct
<1> QED
  BY <1>1, <1>3, <1>4 DEF u

LEMMA TailFacts ==
    ASSUME NEW C, NEW s \in Seq(C), s # << >>
    PROVE  /\ Len(s) \in Nat /\ Len(s) >= 1 /\ Head(s) = s[1]
           /\ Tail(s) \in Seq(C) /\ Len(Tail(s)) = Len(s) - 1
           /\ \A i \in 1 .. Len(s) - 1 : Tail(s)[i] = s[i + 1]
<1>1. Len(s) \in Nat /\ Len(s) >= 1 /\ Head(s) = s[1]
  OBVIOUS
<1>2. /\ Tail(s) \in Seq(C) /\ Len(Tail(s)) = Len(s) - 1
      /\ \A i \in 1 .. Len(s) - 1 : Tail(s)[i] = s[i + 1]
  OBVIOUS
<1> QED
  BY <1>1, <1>2

LEMMA ConcatFacts ==
    ASSUME NEW C, NEW a \in Seq(C), NEW b \in Seq(C)
    PROVE  /\ a \o b \in Seq(C) /\ Len(a \o b) = Len(a) + Len(b)
           /\ \A i \in 1 .. Len(a) + Len(b) :
                 (a \o b)[i] = IF i <= Len(a) THEN a[i] ELSE b[i - Len(a)]
<1> DEFINE u == a \o b
<1>1. /\ u \in Seq(C) /\ Len(u) = Len(a) + Len(b)
      /\ \A i \in 1 .. Len(a) + Len(b) : u[i] = IF i <= Len(a) THEN a[i] ELSE b[i - Len(a)]
  OBVIOUS
<1> QED
  BY <1>1

LEMMA TailConcat ==
    ASSUME NEW C, NEW a \in Seq(C), NEW b \in Seq(C), a # << >>
    PROVE  Tail(a \o b) = Tail(a) \o b
<1> DEFINE u == a \o b
           v == Tail(a)
<1>1. u \in Seq(C) /\ Len(u) = Len(a) + Len(b)
      /\ \A i \in 1 .. Len(a) + Len(b) : u[i] = IF i <= Len(a) THEN a[i] ELSE b[i - Len(a)]
  OBVIOUS
<1>2. /\ Len(a) \in Nat /\ Len(a) >= 1 /\ Len(b) \in Nat
      /\ v \in Seq(C) /\ Len(v) = Len(a) - 1
      /\ \A i \in 1 .. Len(a) - 1 : v[i] = a[i + 1]
  BY TailFacts
<1> HIDE DEF u, v
<1>3. u # << >>
  BY <1>1, <1>2
<1>4. /\ Tail(u) \in Seq(C) /\ Len(Tail(u)) = Len(u) - 1
      /\ \A i \in 1 .. Len(u) - 1 : Tail(u)[i] = u[i + 1]
  BY <1>1, <1>3, TailFacts
<1> DEFINE w == v \o b
           t == Tail(u)
<1>5. /\ w \in Seq(C) /\ Len(w) = Len(v) + Len(b)
      /\ \A i \in 1 .. Len(v) + Len(b) : w[i] = IF i <= Len(v) THEN v[i] ELSE b[i - Len(v)]
  <2>1. v \in Seq(C)
    BY <1>2
  <2> QED
    BY <2>1, ConcatFacts
<1>6. t \in Seq(C) /\ Len(t) = Len(u) - 1 /\ \A i \in 1 .. Len(u) - 1 : t[i] = u[i + 1]
  BY <1>4
<1> HIDE DEF w, t
<1>7. Len(t) = Len(w)
  BY <1>1, <1>2, <1>5, <1>6
<1>8. ASSUME NEW i \in 1 .. Len(t) PROVE t[i] = w[i]
  <2>1. i \in 1 .. Len(u) - 1 /\ i + 1 \in 1 .. Len(a) + Len(b) /\ i \in 1 .. Len(v) + Len(b)
    BY <1>1, <1>2, <1>6
  <2>2. t[i] = IF i + 1 <= Len(a) THEN a[i + 1] ELSE b[(i + 1) - Len(a)]
    BY <1>1, <1>6, <2>1
  <2>3. w[i] = IF i <= Len(v) THEN v[i] ELSE b[i - Len(v)]
    BY <1>5, <2>1
  <2>4. CASE i <= Len(v)
    <3>1. i \in 1 .. Len(a) - 1 /\ i + 1 <= Len(a)
      BY <1>2, <2>4
    <3> QED
      BY <1>2, <2>2, <2>3, <2>4, <3>1
  <2>5. CASE ~(i <= Len(v))
    <3>1. ~(i + 1 <= Len(a)) /\ (i + 1) - Len(a) = i - Len(v)
      BY <1>2, <2>5
    <3> QED
      BY <2>2, <2>3, <2>5, <3>1
  <2> QED
    BY <2>4, <2>5
<1>9. t = w
  BY <1>5, <1>6, <1>7, <1>8, SeqEqual
<1> QED
  BY <1>9 DEF t, w, u, v

LEMMA TailList ==
    ASSUME NEW C, NEW s \in Seq(C), s # << >>
    PROVE  /\ Head(s) \in C /\ Head(s) \in ToSet(s)
           /\ Tail(s) \in Seq(C)
           /\ ToSet(Tail(s)) \subseteq ToSet(s)
           /\ Distinct(s) => Distinct(Tail(s)) /\ ToSet(Tail(s)) = ToSet(s) \ {Head(s)}
<1> DEFINE u == Tail(s)
<1>1. /\ u \in Seq(C) /\ Len(u) = Len(s) - 1
      /\ \A i \in 1 .. Len(s) - 1 : u[i] = s[i + 1]
  BY TailFacts
<1>2. Len(s) \in Nat /\ Len(s) >= 1 /\ Head(s) = s[1]
  BY TailFacts
<1>3. Head(s) \in C
  BY <1>2
<1> HIDE DEF u
<1>4. Head(s) \in ToSet(s)
  BY <1>2, InToSet
<1>5. ToSet(u) \subseteq ToSet(s)
  <2> SUFFICES ASSUME NEW y, y \in ToSet(u) PROVE y \in ToSet(s)
    OBVIOUS
  <2>1. PICK i \in 1 .. Len(u) : u[i] = y
    BY <1>1, InToSet
  <2>2. i + 1 \in 1 .. Len(s) /\ s[i + 1] = y
    BY <1>1, <1>2, <2>1
  <2> QED
    BY <2>2, InToSet
<1>6. ASSUME Distinct(s) PROVE Distinct(u) /\ ToSet(u) = ToSet(s) \ {Head(s)}
  <2>1. Distinct(u)
    <3> SUFFICES ASSUME NEW i \in 1 .. Len(u), NEW j \in 1 .. Len(u), u[i] = u[j]
                 PROVE  i = j
      BY DEF Distinct
    <3>1. i + 1 \in 1 .. Len(s) /\ j + 1 \in 1 .. Len(s) /\ s[i + 1] = s[j + 1]
      BY <1>1, <1>2
    <3>2. i + 1 = j + 1
      BY <1>6, <3>1 DEF Distinct
    <3> QED
      BY <1>1, <1>2, <3>2
  <2>2. Head(s) \notin ToSet(u)
    <3> SUFFICES ASSUME Head(s) \in ToSet(u) PROVE FALSE
      OBVIOUS
    <3>1. PICK i \in 1 .. Len(u) : u[i] = Head(s)
      BY <1>1, InToSet
    <3>2. i + 1 \in 1 .. Len(s) /\ s[i + 1] = s[1] /\ 1 \in 1 .. Len(s)
      BY <1>1, <1>2, <3>1
    <3>3. i + 1 = 1
      BY <1>6, <3>2 DEF Distinct
    <3> QED
      BY <1>1, <1>2, <3>1, <3>3
  <2>3. ASSUME NEW y \in ToSet(s), y # Head(s) PROVE y \in ToSet(u)
    <3>1. PICK i \in 1 .. Len(s) : s[i] = y
      BY InToSet
    <3>2. i # 1
      BY <1>2, <2>3, <3>1
    <3>3. i - 1 \in 1 .. Len(u) /\ u[i - 1] = y
      <4>1. i - 1 \in 1 .. Len(s) - 1
        BY <1>2, <3>1, <3>2
      <4>2. u[i - 1] = s[(i - 1) + 1]
        BY <1>1, <4>1
      <4> QED
        BY <1>1, <3>1, <4>1, <4>2
    <3> QED
      BY <1>1, <3>3, InToSet
  <2> QED
    BY <1>5, <2>1, <2>2, <2>3
<1> QED
  BY <1>1, <1>3, <1>4, <1>5, <1>6 DEF u

-------------------------------------------------------------------------------
\* Those of a sequence that are in a set.

\* f is the sequence of what is kept of the prefixes of s, up to the m-th.
Firsts(f, s, S, m) ==
    f = [i \in 0 .. m |-> IF i = 0 THEN << >>
                          ELSE IF s[i] \in S THEN Append(f[i - 1], s[i]) ELSE f[i - 1]]

LEMMA FirstsExist ==
    ASSUME NEW s, NEW S
    PROVE  \A m \in Nat : \E f : Firsts(f, s, S, m)
<1> DEFINE M == {m \in Nat : \E f : Firsts(f, s, S, m)}
<1>1. 0 \in M
  <2>1. Firsts([i \in 0 .. 0 |-> << >>], s, S, 0)
    BY DEF Firsts
  <2> QED
    BY <2>1
<1>2. ASSUME NEW m \in Nat, m \in M
      PROVE  m + 1 \in M
  <2>1. PICK f : Firsts(f, s, S, m)
    BY <1>2
  <2> DEFINE Next1(v, i) == IF s[i] \in S THEN Append(v, s[i]) ELSE v
             g == [i \in 0 .. m + 1 |-> IF i = m + 1 THEN Next1(f[m], i) ELSE f[i]]
  <2>2. f = [i \in 0 .. m |-> IF i = 0 THEN << >> ELSE Next1(f[i - 1], i)]
    BY <2>1 DEF Firsts
  <2> HIDE DEF Next1
  <2>3. ASSUME NEW i \in 0 .. m + 1
        PROVE  g[i] = IF i = 0 THEN << >> ELSE Next1(g[i - 1], i)
    <3>1. CASE i = m + 1
      <4>1. g[i] = Next1(f[m], i) /\ g[i - 1] = f[m] /\ i # 0
        BY <3>1
      <4> QED
        BY <4>1
    <3>2. CASE i \in 0 .. m
      <4>1. f[i] = IF i = 0 THEN << >> ELSE Next1(f[i - 1], i)
        BY <2>2, <3>2
      <4>2. g[i] = f[i] /\ (i # 0 => g[i - 1] = f[i - 1])
        BY <3>2
      <4> QED
        BY <4>1, <4>2
    <3> QED
      BY <3>1, <3>2
  <2>4. Firsts(g, s, S, m + 1)
    <3> DEFINE h == [i \in 0 .. m + 1 |-> IF i = 0 THEN << >> ELSE Next1(g[i - 1], i)]
    <3>1. \A i \in 0 .. m + 1 : g[i] = h[i]
      BY <2>3
    <3>2. g = h
      BY <3>1
    <3> QED
      BY <3>2 DEF Firsts, Next1
  <2> QED
    BY <2>4
<1> HIDE DEF M
<1>3. \A m \in Nat : m \in M
  BY <1>1, <1>2, SetInduction
<1> QED
  BY <1>3 DEF M

\* The elements of s in S, in their order: no other, and none twice.
LEMMA FilteredList ==
    ASSUME NEW C, NEW s \in Seq(C), NEW S
    PROVE  /\ Filtered(s, S) \in Seq(C)
           /\ ToSet(Filtered(s, S)) = ToSet(s) \cap S
           /\ Distinct(s) => Distinct(Filtered(s, S))
<1> DEFINE F(t) == [i \in 0 .. Len(s) |->
                       IF i = 0 THEN << >>
                       ELSE IF s[i] \in S THEN Append(t[i - 1], s[i]) ELSE t[i - 1]]
           first == CHOOSE t : t = F(t)
<1>1. Len(s) \in Nat
  OBVIOUS
<1>2. PICK f : Firsts(f, s, S, Len(s))
  BY <1>1, FirstsExist
<1>0. f = F(f)
  BY <1>2 DEF Firsts
<1>3. first = F(first)
  BY <1>0
<1>4. Filtered(s, S) = first[Len(s)]
  BY DEF Filtered
<1> HIDE DEF first
<1>5. /\ first[0] = << >>
      /\ \A i \in 1 .. Len(s) :
            first[i] = IF s[i] \in S THEN Append(first[i - 1], s[i]) ELSE first[i - 1]
  <2>1. ASSUME NEW i \in 0 .. Len(s)
        PROVE  first[i] = IF i = 0 THEN << >>
                          ELSE IF s[i] \in S THEN Append(first[i - 1], s[i]) ELSE first[i - 1]
    BY <1>3
  <2>2. first[0] = << >>
    BY <1>1, <2>1
  <2>3. ASSUME NEW i \in 1 .. Len(s)
        PROVE  first[i] = IF s[i] \in S THEN Append(first[i - 1], s[i]) ELSE first[i - 1]
    <3>1. i \in 0 .. Len(s) /\ i # 0
      BY <1>1
    <3> QED
      BY <2>1, <3>1
  <2> QED
    BY <2>2, <2>3
<1> DEFINE Good(n) == /\ first[n] \in Seq(C)
                      /\ \A x : x \in ToSet(first[n]) <=> x \in S /\ \E i \in 1 .. n : s[i] = x
                      /\ Distinct(s) => Distinct(first[n])
           T == {n \in Nat : n <= Len(s) => Good(n)}
<1>6. 0 \in T
  <2>1. first[0] \in Seq(C)
    BY <1>5
  <2>2. ToSet(first[0]) = {} /\ Distinct(first[0])
    BY <1>5, EmptyList
  <2> QED
    BY <2>1, <2>2
<1>7. ASSUME NEW n \in Nat, n \in T
      PROVE  n + 1 \in T
  <2> SUFFICES ASSUME n + 1 <= Len(s) PROVE Good(n + 1)
    OBVIOUS
  <2>1. n + 1 \in 1 .. Len(s) /\ n <= Len(s) /\ (n + 1) - 1 = n
    BY <1>1
  <2>2. Good(n)
    BY <1>7, <2>1
  <2>3. first[n + 1] = IF s[n + 1] \in S THEN Append(first[n], s[n + 1]) ELSE first[n]
    BY <1>5, <2>1
  <2>4. s[n + 1] \in C
    BY <2>1
  <2>5. CASE s[n + 1] \in S
    <3>1. first[n + 1] = Append(first[n], s[n + 1])
      BY <2>3, <2>5
    <3>2. /\ first[n + 1] \in Seq(C) /\ ToSet(first[n + 1]) = ToSet(first[n]) \union {s[n + 1]}
          /\ Distinct(first[n]) /\ s[n + 1] \notin ToSet(first[n]) => Distinct(first[n + 1])
      BY <2>2, <2>4, <3>1, AppendList
    <3>3. \A x : x \in ToSet(first[n + 1]) <=> x \in S /\ \E i \in 1 .. n + 1 : s[i] = x
      <4>1. \A x : (\E i \in 1 .. n + 1 : s[i] = x) <=> (\E i \in 1 .. n : s[i] = x) \/ s[n + 1] = x
        <5>1. 1 .. n + 1 = (1 .. n) \union {n + 1}
          OBVIOUS
        <5> QED
          BY <5>1
      <4> QED
        BY <2>2, <2>5, <3>2, <4>1
    <3>4. Distinct(s) => s[n + 1] \notin ToSet(first[n])
      BY <2>1, <2>2 DEF Distinct
    <3> QED
      BY <2>2, <3>2, <3>3, <3>4
  <2>6. CASE s[n + 1] \notin S
    <3>1. first[n + 1] = first[n]
      BY <2>3, <2>6
    <3>2. \A x \in S : (\E i \in 1 .. n + 1 : s[i] = x) <=> (\E i \in 1 .. n : s[i] = x)
      <4>1. 1 .. n + 1 = (1 .. n) \union {n + 1}
        OBVIOUS
      <4> QED
        BY <2>6, <4>1
    <3> QED
      BY <2>2, <3>1, <3>2
  <2> QED
    BY <2>5, <2>6
<1>8. \A n \in Nat : n \in T
  <2> HIDE DEF T
  <2> QED
    BY <1>6, <1>7, SetInduction
<1>9. Good(Len(s))
  BY <1>1, <1>8
<1>10. ToSet(first[Len(s)]) = ToSet(s) \cap S
  <2>1. \A x : x \in ToSet(s) <=> \E i \in 1 .. Len(s) : s[i] = x
    BY InToSet
  <2> QED
    BY <1>9, <2>1
<1> QED
  BY <1>4, <1>9, <1>10

LEMMA AmongList ==
    ASSUME NEW C, NEW s \in Seq(C), NEW S
    PROVE  /\ Among(s, S) \in Seq(C)
           /\ ToSet(Among(s, S)) = ToSet(s) \cap S
           /\ Distinct(s) => Distinct(Among(s, S))
<1>1. Among(s, S) = Filtered(s, S)
  BY DEF Among
<1> QED
  BY <1>1, FilteredList

LEMMA UnwatchedList ==
    ASSUME NEW s \in Seq(Channel), NEW ch
    PROVE  /\ Unwatched(s, ch) \in Seq(Channel)
           /\ ToSet(Unwatched(s, ch)) = ToSet(s) \ {ch}
           /\ Distinct(s) => Distinct(Unwatched(s, ch))
<1>1. ToSet(s) \cap (Channel \ {ch}) = ToSet(s) \ {ch}
  BY InToSet
<1> QED
  BY <1>1, AmongList DEF Unwatched
-------------------------------------------------------------------------------
\* The functors of each loop that have not been called.
QueuesOf(lp) == [l \in Loops |-> lp[l].running \o lp[l].functors]

Queues == QueuesOf(loop)

Within(q, l, call, c) == \E i \in 1 .. Len(q[l]) : q[l][i] = <<call, c>>

\* A connection has one functor at most, in one loop.
OnceIn(q) ==
    \A l, m \in Loops : \A i \in 1 .. Len(q[l]), j \in 1 .. Len(q[m]) :
        q[l][i][2] = q[m][j][2] => l = m /\ i = j

Waits(l, call, c) == Within(Queues, l, call, c)

\* A number belongs to a connection exactly if the connection has it.
FdsInv == \A c \in Client, n \in Number : tcp[c].fd = n <=> table[n] = c

ListenInv ==
    /\ table[0] = "listen"
    /\ epoll[0].channels[0] = IF status["listen"] = "kNew" THEN "none" ELSE "listen"
    /\ ~Direct => status["listen"] = "kAdded"

\* What the state of a connection's channel says of its number, of the map and of the
\* functor that waits for it, with the connections as t has them.
ConnOf(c, t) ==
    /\ c \in mapped => t[c].fd # None
    /\ client[c] \in {"away", "backlog"} => t[c].fd = None
    /\ status[c] # "kNew" => t[c].fd # None /\ epoll[t[c].in].channels[t[c].fd] = c
    /\ status[c] = "kAdded" => c \in mapped
    /\ status[c] = "kDeleted" =>
          IF c \in mapped THEN Waits(0, "removeConnectionInLoop", c)
                          ELSE Waits(t[c].in, "connectionDestroyed", c)
    /\ \A l \in Loops :
          /\ Waits(l, "connectionEstablished", c) =>
                l = t[c].in /\ status[c] = "kNew" /\ c \in mapped
          /\ Waits(l, "removeConnectionInLoop", c) =>
                l = 0 /\ status[c] = "kDeleted" /\ c \in mapped
          /\ Waits(l, "connectionDestroyed", c) =>
                l = t[c].in /\ status[c] = "kDeleted" /\ c \notin mapped

EntryOf(l, n, t) ==
    LET ch == epoll[l].channels[n]
    IN  /\ ch \in Client => t[ch] = [fd |-> n, in |-> l] /\ status[ch] # "kNew"
        /\ ch = "listen" => l = 0 /\ n = 0

WatchOf(l, t) ==
    /\ Distinct(epoll[l].watched)
    /\ \A ch \in ToSet(epoll[l].watched) :
          /\ status[ch] = "kAdded"
          /\ IF ch = "listen" THEN l = 0 ELSE t[ch].in = l

ChannelsOf(t) ==
    /\ \A c \in Client : ConnOf(c, t)
    /\ \A l \in Loops : WatchOf(l, t) /\ \A n \in Number : EntryOf(l, n, t)

RoundInv(l) ==
    /\ Distinct(loop[l].active)
    /\ ToSet(loop[l].active) \subseteq ToSet(epoll[l].watched)
    /\ loop[l].at # "handling" => loop[l].active = << >>
    /\ loop[l].at # "calling" => loop[l].running = << >>
    /\ Direct => loop[l].at # "calling" /\ loop[l].functors = << >>

SocketsInv ==
    /\ SocketsTypeOK
    /\ ~broken
    /\ FdsInv
    /\ ListenInv
    /\ ChannelsOf(tcp)
    /\ \A l \in Loops : RoundInv(l)
    /\ OnceIn(Queues)

-------------------------------------------------------------------------------
\* Functors that are bound and called.

Functors == [Loops -> Seq(Calls \X Client)]

LEMMA WithinTypes ==
    ASSUME NEW q \in Functors, NEW l \in Loops, NEW call, NEW c, Within(q, l, call, c)
    PROVE  call \in Calls /\ c \in Client
<1>1. PICK i \in 1 .. Len(q[l]) : q[l][i] = <<call, c>>
  BY DEF Within
<1>2. q[l][i] \in Calls \X Client
  BY <1>1 DEF Functors
<1> QED
  BY <1>1, <1>2

WithFunctor(q, l, call, c) == [q EXCEPT ![l] = Append(@, <<call, c>>)]

WithoutFirst(q, l) == [q EXCEPT ![l] = Tail(@)]

\* A functor for a connection that had none.
LEMMA PushFunctor ==
    ASSUME NEW q \in Functors, NEW l \in Loops, NEW call \in Calls, NEW c \in Client,
           \A m \in Loops : \A k : ~Within(q, m, k, c),
           NEW r, r = WithFunctor(q, l, call, c)
    PROVE  /\ r \in Functors
           /\ \A m \in Loops : \A k, d :
                 Within(r, m, k, d) <=> Within(q, m, k, d) \/ (m = l /\ k = call /\ d = c)
           /\ OnceIn(q) => OnceIn(r)
<1>0. r = [q EXCEPT ![l] = Append(@, <<call, c>>)]
  BY DEF WithFunctor
<1> USE <1>0
<1>1. q[l] \in Seq(Calls \X Client) /\ <<call, c>> \in Calls \X Client
  BY DEF Functors
<1>2. r \in Functors
  BY <1>1 DEF Functors
<1>3. /\ r[l] = Append(q[l], <<call, c>>)
      /\ \A m \in Loops : m # l => r[m] = q[m]
  BY DEF Functors
<1>4. /\ Len(q[l]) \in Nat /\ Len(r[l]) = Len(q[l]) + 1
      /\ r[l][Len(q[l]) + 1] = <<call, c>>
      /\ \A i \in 1 .. Len(q[l]) : r[l][i] = q[l][i]
  BY <1>1, <1>3
<1>5. ASSUME NEW m \in Loops, NEW k, NEW d
      PROVE  Within(r, m, k, d) <=> Within(q, m, k, d) \/ (m = l /\ k = call /\ d = c)
  <2>1. CASE m # l
    BY <1>3, <2>1 DEF Within
  <2>2. CASE m = l
    <3>1. ASSUME Within(r, l, k, d) PROVE Within(q, l, k, d) \/ (k = call /\ d = c)
      <4>1. PICK i \in 1 .. Len(r[l]) : r[l][i] = <<k, d>>
        BY <3>1 DEF Within
      <4>2. CASE i = Len(q[l]) + 1
        BY <1>4, <4>1, <4>2
      <4>3. CASE i \in 1 .. Len(q[l])
        BY <1>4, <4>1, <4>3 DEF Within
      <4> QED
        BY <1>4, <4>2, <4>3
    <3>2. ASSUME Within(q, l, k, d) PROVE Within(r, l, k, d)
      <4>1. PICK i \in 1 .. Len(q[l]) : q[l][i] = <<k, d>>
        BY <3>2 DEF Within
      <4>2. i \in 1 .. Len(r[l]) /\ r[l][i] = <<k, d>>
        BY <1>4, <4>1
      <4> QED
        BY <4>2 DEF Within
    <3>3. Within(r, l, call, c)
      <4>1. Len(q[l]) + 1 \in 1 .. Len(r[l])
        BY <1>4
      <4> QED
        BY <1>4, <4>1 DEF Within
    <3> QED
      BY <2>2, <3>1, <3>2, <3>3
  <2> QED
    BY <2>1, <2>2
<1>6. ASSUME OnceIn(q)
      PROVE  OnceIn(r)
  <2>1. \A m \in Loops : \A i \in 1 .. Len(q[m]) : q[m][i][2] # c
    <3> SUFFICES ASSUME NEW m \in Loops, NEW i \in 1 .. Len(q[m]), q[m][i][2] = c PROVE FALSE
      OBVIOUS
    <3>1. q[m][i] \in Calls \X Client
      BY DEF Functors
    <3>2. q[m][i] = <<q[m][i][1], c>>
      BY <3>1
    <3>3. Within(q, m, q[m][i][1], c)
      BY <3>2 DEF Within
    <3> QED
      BY <3>3
  <2> SUFFICES ASSUME NEW m1 \in Loops, NEW m2 \in Loops,
                      NEW i1 \in 1 .. Len(r[m1]), NEW i2 \in 1 .. Len(r[m2]),
                      r[m1][i1][2] = r[m2][i2][2]
               PROVE  m1 = m2 /\ i1 = i2
    BY DEF OnceIn
  <2>2. ASSUME NEW m \in Loops, NEW i \in 1 .. Len(r[m])
        PROVE  \/ m = l /\ i = Len(q[l]) + 1 /\ r[m][i][2] = c
               \/ i \in 1 .. Len(q[m]) /\ r[m][i] = q[m][i] /\ r[m][i][2] # c
    <3>1. CASE m # l
      BY <1>3, <2>1, <3>1
    <3>2. CASE m = l /\ i = Len(q[l]) + 1
      BY <1>4, <3>2
    <3>3. CASE m = l /\ i # Len(q[l]) + 1
      <4>1. i \in 1 .. Len(q[l])
        BY <1>4, <3>3
      <4> QED
        BY <1>4, <2>1, <3>3, <4>1
    <3> QED
      BY <3>1, <3>2, <3>3
  <2>3. CASE r[m1][i1][2] = c
    BY <2>2, <2>3
  <2>4. CASE r[m1][i1][2] # c
    <3>1. /\ i1 \in 1 .. Len(q[m1]) /\ r[m1][i1] = q[m1][i1]
          /\ i2 \in 1 .. Len(q[m2]) /\ r[m2][i2] = q[m2][i2]
      BY <2>2, <2>4
    <3> QED
      BY <1>6, <3>1 DEF OnceIn
  <2> QED
    BY <2>3, <2>4
<1> QED
  BY <1>2, <1>5, <1>6

\* The first functor of a loop is taken: its connection has none.
LEMMA PopFunctor ==
    ASSUME NEW q \in Functors, NEW l \in Loops, q[l] # << >>, OnceIn(q),
           NEW r, r = WithoutFirst(q, l)
    PROVE  /\ r \in Functors
           /\ OnceIn(r)
           /\ Head(q[l]) \in Calls \X Client
           /\ Within(q, l, Head(q[l])[1], Head(q[l])[2])
           /\ \A m \in Loops : \A k, d :
                 Within(r, m, k, d) <=> Within(q, m, k, d) /\ d # Head(q[l])[2]
<1>0. r = [q EXCEPT ![l] = Tail(@)]
  BY DEF WithoutFirst
<1> USE <1>0
<1>1. q[l] \in Seq(Calls \X Client)
  BY DEF Functors
<1>2. r \in Functors
  BY <1>1 DEF Functors
<1>3. /\ r[l] = Tail(q[l])
      /\ \A m \in Loops : m # l => r[m] = q[m]
  BY DEF Functors
<1>4. /\ Len(q[l]) \in Nat /\ Len(q[l]) >= 1 /\ Len(r[l]) = Len(q[l]) - 1
      /\ Head(q[l]) = q[l][1]
      /\ \A i \in 1 .. Len(q[l]) - 1 : r[l][i] = q[l][i + 1]
  <2> QED
    BY <1>1, <1>3, TailFacts
<1>5. 1 \in 1 .. Len(q[l]) /\ Head(q[l]) \in Calls \X Client
  BY <1>1, <1>4
<1>6. Head(q[l]) = <<Head(q[l])[1], Head(q[l])[2]>>
  BY <1>5
<1>7. Within(q, l, Head(q[l])[1], Head(q[l])[2])
  BY <1>4, <1>5, <1>6 DEF Within
<1>8. OnceIn(r)
  <2> SUFFICES ASSUME NEW m1 \in Loops, NEW m2 \in Loops,
                      NEW i1 \in 1 .. Len(r[m1]), NEW i2 \in 1 .. Len(r[m2]),
                      r[m1][i1][2] = r[m2][i2][2]
               PROVE  m1 = m2 /\ i1 = i2
    BY DEF OnceIn
  <2>1. ASSUME NEW m \in Loops, NEW i \in 1 .. Len(r[m])
        PROVE  IF m = l THEN i + 1 \in 1 .. Len(q[m]) /\ r[m][i] = q[m][i + 1]
                        ELSE i \in 1 .. Len(q[m]) /\ r[m][i] = q[m][i]
    BY <1>3, <1>4
  <2>2. CASE m1 = l /\ m2 = l
    <3>1. /\ i1 + 1 \in 1 .. Len(q[l]) /\ i2 + 1 \in 1 .. Len(q[l])
          /\ q[l][i1 + 1][2] = q[l][i2 + 1][2]
      BY <2>1, <2>2
    <3>2. i1 + 1 = i2 + 1
      BY <3>1 DEF OnceIn
    <3> QED
      BY <2>2, <3>2
  <2>3. CASE m1 # l /\ m2 # l
    BY <2>1, <2>3 DEF OnceIn
  <2>4. CASE m1 = l /\ m2 # l
    <3>1. /\ i1 + 1 \in 1 .. Len(q[l]) /\ i2 \in 1 .. Len(q[m2])
          /\ q[l][i1 + 1][2] = q[m2][i2][2]
      BY <2>1, <2>4
    <3> QED
      BY <2>4, <3>1 DEF OnceIn
  <2>5. CASE m1 # l /\ m2 = l
    <3>1. /\ i1 \in 1 .. Len(q[m1]) /\ i2 + 1 \in 1 .. Len(q[l])
          /\ q[m1][i1][2] = q[l][i2 + 1][2]
      BY <2>1, <2>5
    <3> QED
      BY <2>5, <3>1 DEF OnceIn
  <2> QED
    BY <2>2, <2>3, <2>4, <2>5
<1>9. ASSUME NEW m \in Loops, NEW k, NEW d
      PROVE  Within(r, m, k, d) <=> Within(q, m, k, d) /\ d # Head(q[l])[2]
  <2>1. ASSUME Within(r, m, k, d) PROVE Within(q, m, k, d) /\ d # Head(q[l])[2]
    <3>1. PICK i \in 1 .. Len(r[m]) : r[m][i] = <<k, d>>
      BY <2>1 DEF Within
    <3>2. CASE m = l
      <4>1. i + 1 \in 1 .. Len(q[l]) /\ q[l][i + 1] = <<k, d>> /\ i + 1 # 1
        BY <1>4, <3>1, <3>2
      <4>2. q[l][i + 1][2] # q[l][1][2]
        BY <1>5, <4>1 DEF OnceIn
      <4> QED
        BY <1>4, <3>2, <4>1, <4>2 DEF Within
    <3>3. CASE m # l
      <4>1. i \in 1 .. Len(q[m]) /\ q[m][i] = <<k, d>>
        BY <1>3, <3>1, <3>3
      <4>2. q[m][i][2] # q[l][1][2]
        BY <1>5, <3>3, <4>1 DEF OnceIn
      <4> QED
        BY <1>4, <4>1, <4>2 DEF Within
    <3> QED
      BY <3>2, <3>3
  <2>2. ASSUME Within(q, m, k, d), d # Head(q[l])[2] PROVE Within(r, m, k, d)
    <3>1. PICK i \in 1 .. Len(q[m]) : q[m][i] = <<k, d>>
      BY <2>2 DEF Within
    <3>2. CASE m = l
      <4>1. i # 1
        BY <1>4, <2>2, <3>1, <3>2
      <4>2. i - 1 \in 1 .. Len(r[l]) /\ i - 1 \in 1 .. Len(q[l]) - 1 /\ (i - 1) + 1 = i
        BY <1>4, <3>1, <3>2, <4>1
      <4>3. r[l][i - 1] = <<k, d>>
        BY <1>4, <3>1, <3>2, <4>2
      <4> QED
        BY <3>2, <4>2, <4>3 DEF Within
    <3>3. CASE m # l
      BY <1>3, <3>1, <3>3 DEF Within
    <3> QED
      BY <3>2, <3>3
  <2> QED
    BY <2>1, <2>2
<1> QED
  BY <1>2, <1>5, <1>7, <1>8, <1>9

-------------------------------------------------------------------------------
\* Epoll.

Views == [channels : [Number -> Channel \union {"none"}], watched : Seq(Channel),
          status : [Channel -> {"kNew", "kAdded", "kDeleted"}], failed : BOOLEAN]

\* Everything of a view but one channel, at one number, stays as it is.
OnlyThis(e, f, ch, n) ==
    /\ f \in Views
    /\ \A m \in Number : m # n => f.channels[m] = e.channels[m]
    /\ \A d \in Channel : d # ch => f.status[d] = e.status[d]
    /\ Distinct(e.watched) => Distinct(f.watched)

LEMMA EnableReadingView ==
    ASSUME NEW e \in Views, NEW ch \in Channel, NEW n \in Number
    PROVE  LET f == EnableReading(e, ch, n)
           IN  /\ OnlyThis(e, f, ch, n)
               /\ f.channels[n] = ch /\ f.status[ch] = "kAdded"
               /\ ToSet(f.watched) = ToSet(e.watched) \union {ch}
               /\ e.channels[n] = (IF e.status[ch] = "kNew" THEN "none" ELSE ch)
                     => f.failed = e.failed
<1> DEFINE w == Append(Unwatched(e.watched, ch), ch)
           b == e.failed \/ ~(e.channels[n] = (IF e.status[ch] = "kNew" THEN "none" ELSE ch))
           f == EnableReading(e, ch, n)
<1>1. e.watched \in Seq(Channel)
  BY DEF Views
<1>2. /\ Unwatched(e.watched, ch) \in Seq(Channel)
      /\ ToSet(Unwatched(e.watched, ch)) = ToSet(e.watched) \ {ch}
      /\ Distinct(e.watched) => Distinct(Unwatched(e.watched, ch))
  BY <1>1, UnwatchedList
<1>3. w \in Seq(Channel) /\ ToSet(w) = ToSet(e.watched) \union {ch} /\ (Distinct(e.watched) => Distinct(w))
  BY <1>2, AppendList
<1>4. f = [channels |-> [e.channels EXCEPT ![n] = ch], watched |-> w,
           status |-> [e.status EXCEPT ![ch] = "kAdded"], failed |-> b]
  <2>1. e = [channels |-> e.channels, watched |-> e.watched, status |-> e.status,
             failed |-> e.failed]
    BY DEF Views
  <2>2. f = [e EXCEPT !.channels[n] = ch, !.watched = w, !.status[ch] = "kAdded", !.failed = b]
    BY DEF EnableReading
  <2> HIDE DEF f, w, b
  <2> QED
    BY <2>1, <2>2
<1> HIDE DEF w, f
<1>5. f \in Views
  BY <1>3, <1>4 DEF Views
<1>6. OnlyThis(e, f, ch, n)
  BY <1>3, <1>4, <1>5 DEF OnlyThis, Views
<1>7. f.channels[n] = ch /\ f.status[ch] = "kAdded" /\ f.watched = w /\ f.failed = b
  BY <1>4 DEF Views
<1> QED
  BY <1>3, <1>6, <1>7 DEF f, Views

LEMMA DisableAllView ==
    ASSUME NEW e \in Views, NEW ch \in Channel, NEW n \in Number
    PROVE  LET f == DisableAll(e, ch, n)
           IN  /\ OnlyThis(e, f, ch, n)
               /\ f.channels = e.channels /\ f.status[ch] = "kDeleted"
               /\ ToSet(f.watched) = ToSet(e.watched) \ {ch}
               /\ e.channels[n] = ch /\ e.status[ch] = "kAdded" => f.failed = e.failed
<1> DEFINE w == Unwatched(e.watched, ch)
           b == e.failed \/ e.channels[n] # ch \/ e.status[ch] # "kAdded"
           f == DisableAll(e, ch, n)
<1>1. e.watched \in Seq(Channel)
  BY DEF Views
<1>2. w \in Seq(Channel) /\ ToSet(w) = ToSet(e.watched) \ {ch} /\ (Distinct(e.watched) => Distinct(w))
  BY <1>1, UnwatchedList
<1>3. f = [channels |-> e.channels, watched |-> w,
           status |-> [e.status EXCEPT ![ch] = "kDeleted"], failed |-> b]
  <2>1. e = [channels |-> e.channels, watched |-> e.watched, status |-> e.status,
             failed |-> e.failed]
    BY DEF Views
  <2>2. f = [e EXCEPT !.watched = w, !.status[ch] = "kDeleted", !.failed = b]
    BY DEF DisableAll
  <2> HIDE DEF f, w, b
  <2> QED
    BY <2>1, <2>2
<1> HIDE DEF w, f
<1>4. f \in Views
  BY <1>2, <1>3 DEF Views
<1>5. OnlyThis(e, f, ch, n)
  BY <1>2, <1>3, <1>4 DEF OnlyThis, Views
<1>6. f.channels = e.channels /\ f.status[ch] = "kDeleted" /\ f.watched = w /\ f.failed = b
  BY <1>3 DEF Views
<1> QED
  BY <1>2, <1>5, <1>6 DEF f, Views

LEMMA RemoveChannelView ==
    ASSUME NEW e \in Views, NEW ch \in Channel, NEW n \in Number
    PROVE  LET f == removeChannel(e, ch, n)
           IN  /\ OnlyThis(e, f, ch, n)
               /\ f.channels[n] = "none" /\ f.status[ch] = "kNew"
               /\ ToSet(f.watched) = ToSet(e.watched) \ {ch}
               /\ f.failed = e.failed
<1> DEFINE w == Unwatched(e.watched, ch)
           f == removeChannel(e, ch, n)
<1>1. e.watched \in Seq(Channel)
  BY DEF Views
<1>2. w \in Seq(Channel) /\ ToSet(w) = ToSet(e.watched) \ {ch} /\ (Distinct(e.watched) => Distinct(w))
  BY <1>1, UnwatchedList
<1>3. f = [channels |-> [e.channels EXCEPT ![n] = "none"], watched |-> w,
           status |-> [e.status EXCEPT ![ch] = "kNew"], failed |-> e.failed]
  <2>1. e = [channels |-> e.channels, watched |-> e.watched, status |-> e.status,
             failed |-> e.failed]
    BY DEF Views
  <2>2. f = [e EXCEPT !.channels[n] = "none", !.watched = w, !.status[ch] = "kNew"]
    BY DEF removeChannel
  <2> HIDE DEF f, w
  <2> QED
    BY <2>1, <2>2
<1> HIDE DEF w, f
<1>4. f \in Views
  BY <1>2, <1>3 DEF Views
<1>5. OnlyThis(e, f, ch, n)
  BY <1>2, <1>3, <1>4 DEF OnlyThis, Views
<1>6. f.channels[n] = "none" /\ f.status[ch] = "kNew" /\ f.watched = w /\ f.failed = e.failed
  BY <1>3 DEF Views
<1> QED
  BY <1>2, <1>5, <1>6 DEF f, Views

LEMMA ViewIsView ==
    ASSUME SocketsTypeOK, NEW l \in Loops
    PROVE  View(l) \in Views
<1>1. /\ epoll[l].channels \in [Number -> Channel \union {"none"}]
      /\ epoll[l].watched \in Seq(Channel)
  BY DEF SocketsTypeOK
<1> QED
  BY <1>1 DEF View, Views, SocketsTypeOK

LEMMA SetViewFields ==
    ASSUME SocketsTypeOK, NEW l \in Loops, NEW e \in Views, SetView(l, e)
    PROVE  /\ epoll' \in [Loops -> [channels : [Number -> Channel \union {"none"}],
                                   watched : Seq(Channel)]]
           /\ status' \in [Channel -> {"kNew", "kAdded", "kDeleted"}]
           /\ broken' \in BOOLEAN
           /\ epoll'[l].channels = e.channels /\ epoll'[l].watched = e.watched
           /\ \A m \in Loops : m # l => epoll'[m] = epoll[m]
           /\ status' = e.status /\ broken' = e.failed
<1>1. e.channels \in [Number -> Channel \union {"none"}] /\ e.watched \in Seq(Channel)
  BY DEF Views
<1>2. [channels |-> e.channels, watched |-> e.watched]
        \in [channels : [Number -> Channel \union {"none"}], watched : Seq(Channel)]
  BY <1>1
<1>3. epoll' = [epoll EXCEPT ![l] = [channels |-> e.channels, watched |-> e.watched]]
  BY DEF SetView
<1>4. /\ epoll' \in [Loops -> [channels : [Number -> Channel \union {"none"}],
                              watched : Seq(Channel)]]
      /\ epoll'[l] = [channels |-> e.channels, watched |-> e.watched]
      /\ \A m \in Loops : m # l => epoll'[m] = epoll[m]
  BY <1>2, <1>3 DEF SocketsTypeOK
<1> QED
  BY <1>4 DEF SetView, Views

LEMMA AfterEachAcceptView ==
    ASSUME NEW e \in Views, Direct => e.channels[0] = "listen" /\ e.status["listen"] = "kAdded"
    PROVE  LET f == AfterEachAccept(e)
           IN  /\ f \in Views /\ f.channels = e.channels /\ f.failed = e.failed
               /\ \A d \in Channel : d # "listen" => f.status[d] = e.status[d]
               /\ f.status["listen"] = IF Direct THEN "kDeleted" ELSE e.status["listen"]
               /\ ToSet(f.watched) = IF Direct THEN ToSet(e.watched) \ {"listen"} ELSE ToSet(e.watched)
               /\ Distinct(e.watched) => Distinct(f.watched)
<1>1. "listen" \in Channel /\ 0 \in Number
  BY SocketsAssumption DEF Channel, Number
<1>2. CASE Direct
  <2>1. AfterEachAccept(e) = DisableAll(e, "listen", 0)
    BY <1>2 DEF AfterEachAccept
  <2> QED
    BY <1>1, <1>2, <2>1, DisableAllView, SMTT(30) DEF OnlyThis
<1>3. CASE ~Direct
  <2>1. AfterEachAccept(e) = e
    BY <1>3 DEF AfterEachAccept
  <2> QED
    BY <1>3, <2>1
<1> QED
  BY <1>2, <1>3

-------------------------------------------------------------------------------
\* The loops.

LoopStates == [at : {"polling", "handling", "calling"}, active : Seq(Channel),
               functors : Seq(Calls \X Client), running : Seq(Calls \X Client),
               spent : SUBSET Client, size : Nat]

LEMMA QueuesType ==
    ASSUME NEW lp \in [Loops -> LoopStates]
    PROVE  QueuesOf(lp) \in Functors
<1>1. \A l \in Loops : lp[l].running \in Seq(Calls \X Client) /\ lp[l].functors \in Seq(Calls \X Client)
  BY DEF LoopStates
<1>2. \A l \in Loops : lp[l].running \o lp[l].functors \in Seq(Calls \X Client)
  BY <1>1
<1> QED
  BY <1>2 DEF QueuesOf, Functors

LEMMA QueuesSame ==
    ASSUME NEW lp, NEW lq,
           \A l \in Loops : lp[l].running = lq[l].running /\ lp[l].functors = lq[l].functors
    PROVE  QueuesOf(lp) = QueuesOf(lq)
  BY DEF QueuesOf

\* A connection that a functor waits for is held.
LEMMA WaitingIsBound ==
    ASSUME NEW lp \in [Loops -> LoopStates], NEW l \in Loops, NEW k, NEW c,
           Within(QueuesOf(lp), l, k, c)
    PROVE  \/ \E i \in DOMAIN lp[l].functors : lp[l].functors[i][2] = c
           \/ \E i \in DOMAIN lp[l].running : lp[l].running[i][2] = c
<1> DEFINE a == lp[l].running
           b == lp[l].functors
<1>1. a \in Seq(Calls \X Client) /\ b \in Seq(Calls \X Client)
  BY DEF LoopStates
<1>2. QueuesOf(lp)[l] = a \o b
  BY DEF QueuesOf
<1> HIDE DEF a, b
<1>3. PICK i \in 1 .. Len(a \o b) : (a \o b)[i] = <<k, c>>
  BY <1>2 DEF Within
<1>4. i \in 1 .. Len(a) \/ i - Len(a) \in 1 .. Len(b)
  BY <1>1, <1>3
<1>5. CASE i \in 1 .. Len(a)
  <2>1. a[i] = <<k, c>>
    BY <1>1, <1>3, <1>5
  <2>2. i \in DOMAIN a /\ a[i][2] = c
    BY <1>1, <1>5, <2>1
  <2> QED
    BY <2>2 DEF a
<1>6. CASE i - Len(a) \in 1 .. Len(b)
  <2>1. b[i - Len(a)] = <<k, c>>
    BY <1>1, <1>3, <1>6
  <2>2. i - Len(a) \in DOMAIN b /\ b[i - Len(a)][2] = c
    BY <1>1, <1>6, <2>1
  <2> QED
    BY <2>2 DEF b
<1> QED
  BY <1>4, <1>5, <1>6

LEMMA HandledLoop ==
    ASSUME SocketsTypeOK, NEW l \in Loops, loop[l].active # << >>
    PROVE  /\ Handled(l) \in [Loops -> LoopStates]
           /\ Handled(l)[l].active = Tail(loop[l].active) /\ Handled(l)[l].at = loop[l].at
           /\ \A m \in Loops :
                 /\ Handled(l)[m].running = loop[m].running
                 /\ Handled(l)[m].functors = loop[m].functors
                 /\ m # l => Handled(l)[m] = loop[m]
           /\ QueuesOf(Handled(l)) = Queues
<1>1. loop \in [Loops -> LoopStates]
  BY DEF SocketsTypeOK, LoopStates
<1>2. Tail(loop[l].active) \in Seq(Channel)
  <2>1. loop[l].active \in Seq(Channel)
    BY <1>1 DEF LoopStates
  <2> QED
    BY <2>1, TailList
<1>3. [loop[l] EXCEPT !.active = Tail(@)] \in LoopStates
  BY <1>1, <1>2 DEF LoopStates
<1>4. Handled(l) = [loop EXCEPT ![l] = [loop[l] EXCEPT !.active = Tail(@)]]
  BY <1>1 DEF Handled
<1>5. /\ Handled(l) \in [Loops -> LoopStates]
      /\ Handled(l)[l] = [loop[l] EXCEPT !.active = Tail(@)]
      /\ \A m \in Loops : m # l => Handled(l)[m] = loop[m]
  BY <1>1, <1>3, <1>4
<1>6. /\ Handled(l)[l].active = Tail(loop[l].active) /\ Handled(l)[l].at = loop[l].at
      /\ Handled(l)[l].running = loop[l].running /\ Handled(l)[l].functors = loop[l].functors
  BY <1>1, <1>5 DEF LoopStates
<1>7. \A m \in Loops : Handled(l)[m].running = loop[m].running /\ Handled(l)[m].functors = loop[m].functors
  BY <1>5, <1>6
<1> QED
  BY <1>5, <1>6, <1>7, QueuesSame DEF Queues

LEMMA PushedLoop ==
    ASSUME NEW lp \in [Loops -> LoopStates], NEW l \in Loops, NEW call \in Calls, NEW c \in Client
    PROVE  /\ Pushed(lp, l, call, c) \in [Loops -> LoopStates]
           /\ \A m \in Loops :
                 /\ Pushed(lp, l, call, c)[m].at = lp[m].at
                 /\ Pushed(lp, l, call, c)[m].active = lp[m].active
                 /\ Pushed(lp, l, call, c)[m].running = lp[m].running
           /\ QueuesOf(Pushed(lp, l, call, c))
                 = [QueuesOf(lp) EXCEPT ![l] = Append(@, <<call, c>>)]
<1> DEFINE lq == Pushed(lp, l, call, c)
           x == <<call, c>>
<1>1. x \in Calls \X Client
  OBVIOUS
<1>2. lp[l].functors \in Seq(Calls \X Client) /\ lp[l].running \in Seq(Calls \X Client)
  BY DEF LoopStates
<1> HIDE DEF x
<1>3. Append(lp[l].functors, x) \in Seq(Calls \X Client)
  BY <1>1, <1>2
<1>4. lq = [lp EXCEPT ![l] = [lp[l] EXCEPT !.functors = Append(lp[l].functors, x)]]
  BY DEF Pushed, x
<1> HIDE DEF lq
<1>5. [lp[l] EXCEPT !.functors = Append(lp[l].functors, x)] \in LoopStates
  BY <1>3 DEF LoopStates
<1>6. /\ lq \in [Loops -> LoopStates]
      /\ lq[l] = [lp[l] EXCEPT !.functors = Append(lp[l].functors, x)]
      /\ \A m \in Loops : m # l => lq[m] = lp[m]
  BY <1>4, <1>5
<1>7. /\ lq[l].at = lp[l].at /\ lq[l].active = lp[l].active
      /\ lq[l].running = lp[l].running /\ lq[l].functors = Append(lp[l].functors, x)
  BY <1>6 DEF LoopStates
<1>8. QueuesOf(lq) = [QueuesOf(lp) EXCEPT ![l] = Append(@, x)]
  <2>1. \A a, b \in Seq(Calls \X Client) : a \o Append(b, x) = Append(a \o b, x)
    BY <1>1
  <2>2. lq[l].running \o lq[l].functors = Append(lp[l].running \o lp[l].functors, x)
    BY <1>2, <1>7, <2>1
  <2>3. \A m \in Loops : QueuesOf(lq)[m] = IF m = l THEN Append(QueuesOf(lp)[m], x) ELSE QueuesOf(lp)[m]
    BY <1>6, <2>2 DEF QueuesOf
  <2> QED
    BY <2>3 DEF QueuesOf
<1> QED
  BY <1>6, <1>7, <1>8 DEF lq, x

\* The first of those that are called, as Call leaves the loop.
Taken(l) == [loop EXCEPT ![l].running = Tail(@),
                         ![l].spent = @ \union {Head(loop[l].running)[2]}]

LEMMA TakenLoop ==
    ASSUME SocketsTypeOK, NEW l \in Loops, loop[l].running # << >>
    PROVE  /\ Taken(l) \in [Loops -> LoopStates]
           /\ \A m \in Loops : /\ Taken(l)[m].at = loop[m].at
                               /\ Taken(l)[m].active = loop[m].active
                               /\ Taken(l)[m].functors = loop[m].functors
                               /\ m # l => Taken(l)[m] = loop[m]
           /\ Queues \in Functors /\ Queues[l] # << >>
           /\ Head(Queues[l]) = Head(loop[l].running)
           /\ QueuesOf(Taken(l)) = [Queues EXCEPT ![l] = Tail(@)]
<1> DEFINE a == loop[l].running
           b == loop[l].functors
<1>1. loop \in [Loops -> LoopStates]
  BY DEF SocketsTypeOK, LoopStates
<1>2. /\ a \in Seq(Calls \X Client) /\ b \in Seq(Calls \X Client) /\ a # << >>
      /\ loop[l].spent \in SUBSET Client
  BY <1>1 DEF LoopStates
<1> HIDE DEF a, b
<1>3. Tail(a) \in Seq(Calls \X Client) /\ Head(a) \in Calls \X Client
  BY <1>2, TailList
<1>4. /\ a \o b # << >> /\ Head(a \o b) = Head(a) /\ Tail(a \o b) = Tail(a) \o b
  <2>1. a \o b # << >> /\ Head(a \o b) = Head(a)
    BY <1>2
  <2>2. Tail(a \o b) = Tail(a) \o b
    BY <1>2, TailConcat
  <2> QED
    BY <2>1, <2>2
<1>5. Head(a)[2] \in Client
  BY <1>3
<1> DEFINE lp == Taken(l)
           new == [loop[l] EXCEPT !.running = Tail(a), !.spent = loop[l].spent \union {Head(a)[2]}]
<1>6. new \in LoopStates
  BY <1>1, <1>2, <1>3, <1>5 DEF LoopStates
<1>7. lp = [loop EXCEPT ![l] = new]
  BY <1>1 DEF Taken, a
<1> HIDE DEF lp
<1>8. lp \in [Loops -> LoopStates] /\ lp[l] = new /\ \A m \in Loops : m # l => lp[m] = loop[m]
  BY <1>1, <1>6, <1>7
<1>9. /\ lp[l].at = loop[l].at /\ lp[l].active = loop[l].active
      /\ lp[l].functors = b /\ lp[l].running = Tail(a)
  BY <1>1, <1>8 DEF LoopStates, b
<1>10. \A m \in Loops : lp[m].at = loop[m].at /\ lp[m].active = loop[m].active
                        /\ lp[m].functors = loop[m].functors
  BY <1>8, <1>9 DEF b
<1>11. Queues \in Functors /\ Queues[l] = a \o b
  BY <1>1, QueuesType DEF Queues, QueuesOf, a, b
<1>12. QueuesOf(lp) = [Queues EXCEPT ![l] = Tail(@)]
  <2>1. \A m \in Loops : QueuesOf(lp)[m] = IF m = l THEN Tail(Queues[m]) ELSE Queues[m]
    BY <1>4, <1>8, <1>9 DEF Queues, QueuesOf, a, b
  <2> QED
    BY <2>1 DEF Queues, QueuesOf
<1> QED
  BY <1>4, <1>8, <1>10, <1>11, <1>12 DEF lp, a

-------------------------------------------------------------------------------
\* What Release does: those that it lets go are held by nobody.

LEMMA ReleaseFacts ==
    ASSUME SocketsTypeOK, FdsInv, table[0] = "listen", Release(table)
    PROVE  /\ table' \in [Number -> Channel \union {"free"}]
           /\ tcp' \in [Client -> [fd : Number \union {None}, in : Loops]]
           /\ FdsInv' /\ table'[0] = "listen"
           /\ \A d \in Client : /\ tcp'[d].in = tcp[d].in
                                /\ tcp'[d] = tcp[d] \/ (tcp'[d].fd = None /\ ~Held(d)')
<1> DEFINE gone == {c \in Client : tcp[c].fd # None /\ ~Held(c)'}
<1>1. /\ table' = [n \in Number |-> IF \E c \in gone : tcp[c].fd = n THEN "free" ELSE table[n]]
      /\ tcp' = [c \in Client |-> IF c \in gone THEN [tcp[c] EXCEPT !.fd = None] ELSE tcp[c]]
  BY DEF Release
<1>2. \A c \in gone : c \in Client /\ ~Held(c)'
  OBVIOUS
<1>3. gone \subseteq Client
  OBVIOUS
<1> HIDE DEF gone
<1>4. /\ tcp \in [Client -> [fd : Number \union {None}, in : Loops]]
      /\ table \in [Number -> Channel \union {"free"}]
  BY DEF SocketsTypeOK
<1>5. 0 \in Number /\ None \notin Number
  BY SocketsAssumption DEF Number, None
<1>6. \A c \in Client : [tcp[c] EXCEPT !.fd = None] = [fd |-> None, in |-> tcp[c].in]
                        /\ [fd |-> None, in |-> tcp[c].in] \in [fd : Number \union {None}, in : Loops]
  BY <1>4
<1>7. tcp' \in [Client -> [fd : Number \union {None}, in : Loops]]
  BY <1>1, <1>4, <1>6
<1>8. table' \in [Number -> Channel \union {"free"}]
  BY <1>1, <1>4
<1>9. \A c \in Client : /\ c \in gone => tcp'[c].fd = None
                        /\ c \notin gone => tcp'[c] = tcp[c]
                        /\ tcp'[c].in = tcp[c].in
  <2>1. ASSUME NEW c \in Client, c \in gone PROVE tcp'[c].fd = None /\ tcp'[c].in = tcp[c].in
    <3>1. tcp'[c] = [fd |-> None, in |-> tcp[c].in]
      BY <1>1, <1>6, <2>1
    <3> QED
      BY <3>1
  <2>2. ASSUME NEW c \in Client, c \notin gone PROVE tcp'[c] = tcp[c]
    BY <1>1, <2>2
  <2> QED
    BY <2>1, <2>2
<1>10. \A n \in Number : table'[n] = IF \E c \in gone : tcp[c].fd = n THEN "free" ELSE table[n]
  BY <1>1
<1>11. FdsInv'
  <2> SUFFICES ASSUME NEW c \in Client, NEW n \in Number PROVE tcp'[c].fd = n <=> table'[n] = c
    BY DEF FdsInv
  <2>1. tcp[c].fd = n <=> table[n] = c
    BY DEF FdsInv
  <2>2. c # "free"
    BY ClientsAssumption
  <2>3. CASE c \in gone
    <3>1. tcp'[c].fd = None
      BY <1>9, <2>3
    <3>2. table'[n] # c
      BY <1>10, <2>1, <2>2, <2>3
    <3> QED
      BY <1>5, <3>1, <3>2
  <2>4. CASE c \notin gone
    <3>1. tcp'[c].fd = tcp[c].fd
      BY <1>9, <2>4
    <3>2. CASE tcp[c].fd = n
      <4>1. \A d \in gone : tcp[d].fd # n
        BY <1>3, <2>1, <2>4, <3>2 DEF FdsInv
      <4> QED
        BY <1>10, <2>1, <3>1, <3>2, <4>1
    <3>3. CASE tcp[c].fd # n
      BY <1>10, <2>1, <2>2, <3>1, <3>3
    <3> QED
      BY <3>2, <3>3
  <2> QED
    BY <2>3, <2>4
<1>12. table'[0] = "listen"
  <2>1. \A c \in gone : tcp[c].fd # 0
    BY <1>3, <1>5, ClientsAssumption DEF FdsInv
  <2> QED
    BY <1>5, <1>10, <2>1
<1>13. ASSUME NEW d \in Client
       PROVE  tcp'[d].in = tcp[d].in /\ (tcp'[d] = tcp[d] \/ (tcp'[d].fd = None /\ ~Held(d)'))
  BY <1>2, <1>9
<1> QED
  BY <1>7, <1>8, <1>11, <1>12, <1>13

LEMMA WaitsIsHeld ==
    ASSUME SocketsTypeOK', NEW l \in Loops, NEW k, NEW c, Waits(l, k, c)'
    PROVE  Held(c)'
<1>1. loop' \in [Loops -> LoopStates] /\ Within(QueuesOf(loop'), l, k, c)
  BY DEF SocketsTypeOK, LoopStates, Waits, Queues
<1>2. \/ \E i \in DOMAIN loop'[l].functors : loop'[l].functors[i][2] = c
      \/ \E i \in DOMAIN loop'[l].running : loop'[l].running[i][2] = c
  BY <1>1, WaitingIsBound
<1> QED
  BY <1>2 DEF Held

\* What holds with the connections as they were before Release holds with those it leaves:
\* one that is let go is in no map, has no functor and no Channel in an Epoll.
LEMMA ChannelsAfterRelease ==
    ASSUME SocketsTypeOK', NEW t,
           \A d \in Client : /\ tcp'[d].in = t[d].in
                             /\ tcp'[d] = t[d] \/ (tcp'[d].fd = None /\ ~Held(d)'),
           ChannelsOf(t)'
    PROVE  ChannelsOf(tcp)'
<1>1. ASSUME NEW d \in Client, status'[d] # "kNew" \/ d \in mapped'
      PROVE  tcp'[d] = t[d]
  <2>1. 0 \in Loops /\ tcp'[d].in \in Loops
    <3>1. tcp' \in [Client -> [fd : Number \union {None}, in : Loops]]
      BY DEF SocketsTypeOK
    <3>2. 0 \in Loops
      BY SocketsAssumption DEF Loops
    <3> QED
      BY <3>1, <3>2
  <2>2. ConnOf(d, t)'
    BY DEF ChannelsOf
  <2>3. CASE d \in mapped'
    BY <2>3 DEF Held
  <2>4. CASE d \notin mapped'
    <3>1. status'[d] = "kDeleted"
      <4>1. status'[d] \in {"kNew", "kAdded", "kDeleted"}
        BY DEF SocketsTypeOK, Channel
      <4> QED
        BY <1>1, <2>2, <2>4, <4>1 DEF ConnOf
    <3>2. Waits(t[d].in, "connectionDestroyed", d)'
      BY <2>2, <2>4, <3>1 DEF ConnOf
    <3>3. Held(d)'
      BY <2>1, <3>2, WaitsIsHeld
    <3> QED
      BY <3>3
  <2> QED
    BY <2>3, <2>4
<1>2. ASSUME NEW d \in Client
      PROVE  ConnOf(d, tcp)'
  <2>1. ConnOf(d, t)'
    BY DEF ChannelsOf
  <2>2. CASE tcp'[d] = t[d]
    BY <2>1, <2>2 DEF ConnOf
  <2>3. CASE tcp'[d] # t[d]
    <3>1. status'[d] = "kNew" /\ d \notin mapped' /\ tcp'[d].fd = None
      BY <1>1, <2>3
    <3>2. \A l \in Loops : \A k : ~Waits(l, k, d)'
      BY <2>3, WaitsIsHeld
    <3> QED
      BY <2>1, <3>1, <3>2 DEF ConnOf
  <2> QED
    BY <2>2, <2>3
<1>3. ASSUME NEW l \in Loops, NEW n \in Number
      PROVE  EntryOf(l, n, tcp)'
  <2>1. EntryOf(l, n, t)'
    BY DEF ChannelsOf
  <2> QED
    BY <1>1, <2>1 DEF EntryOf
<1>4. ASSUME NEW l \in Loops
      PROVE  WatchOf(l, tcp)'
  <2>1. WatchOf(l, t)'
    BY DEF ChannelsOf
  <2>2. ToSet(epoll'[l].watched) \subseteq Channel
    <3>1. epoll'[l].watched \in Seq(Channel)
      BY DEF SocketsTypeOK
    <3> QED
      BY <3>1, InToSet
  <2>3. ASSUME NEW ch \in ToSet(epoll'[l].watched)
        PROVE  status'[ch] = "kAdded" /\ IF ch = "listen" THEN l = 0 ELSE tcp'[ch].in = l
    <3>1. status'[ch] = "kAdded" /\ IF ch = "listen" THEN l = 0 ELSE t[ch].in = l
      BY <2>1, <2>3 DEF WatchOf
    <3>2. ch # "listen" => ch \in Client
      BY <2>2, <2>3 DEF Channel
    <3> QED
      BY <3>1, <3>2
  <2> QED
    BY <2>1, <2>3 DEF WatchOf
<1> QED
  BY <1>2, <1>3, <1>4 DEF ChannelsOf

\* A connection that a step does not touch is as it was.
LEMMA OtherConnection ==
    ASSUME NEW d \in Client, ConnOf(d, tcp), status'[d] = status[d],
           d \in mapped' <=> d \in mapped,
           client'[d] \in {"away", "backlog"} => client[d] \in {"away", "backlog"},
           status[d] # "kNew" => epoll'[tcp[d].in].channels[tcp[d].fd] = epoll[tcp[d].in].channels[tcp[d].fd],
           \A l \in Loops : \A k : Within(Queues', l, k, d) <=> Within(Queues, l, k, d),
           tcp[d].in \in Loops
    PROVE  /\ tcp'[d] = tcp[d] => ConnOf(d, tcp)'
           /\ \A t : t[d] = tcp[d] => ConnOf(d, t)'
<1>1. 0 \in Loops
  BY SocketsAssumption DEF Loops
<1>2. \A l \in Loops : \A k : Waits(l, k, d)' <=> Waits(l, k, d)
  BY DEF Waits
<1> QED
  BY <1>1, <1>2 DEF ConnOf

-------------------------------------------------------------------------------
\* Each step keeps the invariant.

LEMMA InvFacts ==
    ASSUME SocketsInv
    PROVE  /\ SocketsTypeOK /\ broken = FALSE /\ FdsInv /\ ListenInv /\ OnceIn(Queues)
           /\ loop \in [Loops -> LoopStates]
           /\ epoll \in [Loops -> [channels : [Number -> Channel \union {"none"}],
                                   watched : Seq(Channel)]]
           /\ status \in [Channel -> {"kNew", "kAdded", "kDeleted"}]
           /\ tcp \in [Client -> [fd : Number \union {None}, in : Loops]]
           /\ Queues \in Functors
           /\ \A c \in Client : ConnOf(c, tcp)
           /\ \A l \in Loops : WatchOf(l, tcp) /\ RoundInv(l)
           /\ \A l \in Loops : \A n \in Number : EntryOf(l, n, tcp)
           /\ 0 \in Loops /\ 0 \in Number /\ "listen" \in Channel /\ Client \subseteq Channel
           /\ "listen" \notin Client /\ "none" \notin Client /\ "free" \notin Client
<1>1. SocketsTypeOK /\ broken = FALSE
  BY DEF SocketsInv, SocketsTypeOK
<1>2. /\ loop \in [Loops -> LoopStates]
      /\ epoll \in [Loops -> [channels : [Number -> Channel \union {"none"}],
                              watched : Seq(Channel)]]
      /\ status \in [Channel -> {"kNew", "kAdded", "kDeleted"}]
      /\ tcp \in [Client -> [fd : Number \union {None}, in : Loops]]
  BY <1>1 DEF SocketsTypeOK, LoopStates
<1>3. Queues \in Functors
  BY <1>2, QueuesType DEF Queues
<1>4. /\ 0 \in Loops /\ 0 \in Number /\ "listen" \in Channel /\ Client \subseteq Channel
      /\ "listen" \notin Client /\ "none" \notin Client /\ "free" \notin Client
  BY SocketsAssumption, ClientsAssumption DEF Loops, Number, Channel
<1> QED
  BY <1>1, <1>2, <1>3, <1>4 DEF SocketsInv, ChannelsOf

\* A step that leaves the Epolls alone: t is tcp, before or after it.
LEMMA SameEpolls ==
    ASSUME SocketsInv, epoll' = epoll, status' = status, server' = server, table'[0] = "listen"
    PROVE  /\ ListenInv'
           /\ \A t : t = tcp => \A l \in Loops : WatchOf(l, t)' /\ \A n \in Number : EntryOf(l, n, t)'
           /\ tcp' = tcp => \A l \in Loops : WatchOf(l, tcp)' /\ \A n \in Number : EntryOf(l, n, tcp)'
<1>1. ListenInv'
  <2>1. ListenInv /\ Direct' = Direct
    BY InvFacts DEF Direct
  <2> QED
    BY <2>1 DEF ListenInv
<1>2. ASSUME NEW l \in Loops, NEW t, t = tcp PROVE WatchOf(l, t)'
  <2>1. WatchOf(l, tcp)
    BY InvFacts
  <2> QED
    BY <1>2, <2>1 DEF WatchOf
<1>3. ASSUME NEW l \in Loops, NEW t, t = tcp, NEW n \in Number PROVE EntryOf(l, n, t)'
  <2>1. EntryOf(l, n, tcp)
    BY InvFacts
  <2> QED
    BY <1>3, <2>1 DEF EntryOf
<1>4. ASSUME NEW l \in Loops, tcp' = tcp PROVE WatchOf(l, tcp)'
  <2>1. WatchOf(l, tcp)
    BY InvFacts
  <2> QED
    BY <1>4, <2>1 DEF WatchOf
<1>5. ASSUME NEW l \in Loops, tcp' = tcp, NEW n \in Number PROVE EntryOf(l, n, tcp)'
  <2>1. EntryOf(l, n, tcp)
    BY InvFacts
  <2> QED
    BY <1>5, <2>1 DEF EntryOf
<1> QED
  BY <1>1, <1>2, <1>3, <1>4, <1>5

LEMMA ActsKeeps ==
    ASSUME SocketsInv, NEW c \in Client, NEW to,
           \/ Acts(c, "away", to) /\ to = "backlog"
           \/ Acts(c, "open", to) /\ to \in {"talking", "reset", "hung up"}
    PROVE  SocketsInv'
<1>1. /\ server' = server /\ table' = table /\ loop' = loop /\ epoll' = epoll
      /\ status' = status /\ tcp' = tcp /\ mapped' = mapped /\ kept' = kept
      /\ next_' = next_ /\ broken' = broken
  BY DEF Acts
<1>2. SocketsTypeOK
  BY DEF SocketsInv
<1>3. client \in [Client -> {"away", "backlog", "open", "talking", "reset", "hung up"}]
  BY <1>2 DEF SocketsTypeOK
<1>4. /\ client' = [client EXCEPT ![c] = to]
      /\ to \in {"backlog", "talking", "reset", "hung up"} /\ (to = "backlog" => client[c] = "away")
  BY DEF Acts
<1>5. /\ client' \in [Client -> {"away", "backlog", "open", "talking", "reset", "hung up"}]
      /\ \A d \in Client : client'[d] \in {"away", "backlog"} => client[d] \in {"away", "backlog"}
  BY <1>3, <1>4
<1>6. SocketsTypeOK'
  BY <1>1, <1>2, <1>5 DEF SocketsTypeOK
<1>7. Queues' = Queues
  BY <1>1 DEF Queues
<1>8. ASSUME NEW d \in Client PROVE ConnOf(d, tcp)'
  BY <1>1, <1>5, <1>7, InvFacts, OtherConnection
<1>9. ASSUME NEW l \in Loops PROVE WatchOf(l, tcp)' /\ \A n \in Number : EntryOf(l, n, tcp)'
  <2>1. table[0] = "listen"
    BY InvFacts DEF ListenInv
  <2> QED
    BY <1>1, <2>1, SameEpolls
<1>10. ChannelsOf(tcp)'
  BY <1>8, <1>9 DEF ChannelsOf
<1>11. FdsInv' /\ ListenInv' /\ (\A l \in Loops : RoundInv(l)')
  <2>1. Direct' = Direct
    BY <1>1 DEF Direct
  <2>2. FdsInv /\ ListenInv /\ (\A l \in Loops : RoundInv(l))
    BY InvFacts
  <2>3. FdsInv'
    BY <1>1, <2>2 DEF FdsInv
  <2>4. ListenInv'
    BY <1>1, <2>1, <2>2 DEF ListenInv
  <2>5. \A l \in Loops : RoundInv(l)'
    BY <1>1, <2>1, <2>2 DEF RoundInv
  <2> QED
    BY <2>3, <2>4, <2>5
<1>12. OnceIn(Queues') /\ broken' = FALSE
  BY <1>1, <1>7, InvFacts
<1> QED
  BY <1>6, <1>10, <1>11, <1>12 DEF SocketsInv

LEMMA HandleEventKeeps ==
    ASSUME SocketsInv, NEW l \in Loops, NEW c \in Client, HandleEvent(l, c)
    PROVE  SocketsInv'
<1>1. /\ server' = server /\ table' = table /\ epoll' = epoll
      /\ status' = status /\ tcp' = tcp /\ mapped' = mapped /\ kept' = kept
      /\ next_' = next_ /\ broken' = broken
  BY DEF HandleEvent
<1>2. /\ loop[l].at = "handling" /\ loop[l].active # << >> /\ loop' = Handled(l)
      /\ client[c] \in {"talking", "reset"}
      /\ client' = [client EXCEPT ![c] = IF @ = "talking" THEN "open" ELSE "hung up"]
  BY DEF HandleEvent, Handles
<1>3. SocketsTypeOK
  BY DEF SocketsInv
<1>4. client \in [Client -> {"away", "backlog", "open", "talking", "reset", "hung up"}]
  BY <1>3 DEF SocketsTypeOK
<1>5. /\ client' \in [Client -> {"away", "backlog", "open", "talking", "reset", "hung up"}]
      /\ \A d \in Client : client'[d] \in {"away", "backlog"} => client[d] \in {"away", "backlog"}
  BY <1>2, <1>4
<1>6. /\ loop' \in [Loops -> LoopStates]
      /\ loop'[l].active = Tail(loop[l].active) /\ loop'[l].at = loop[l].at
      /\ \A m \in Loops : /\ loop'[m].running = loop[m].running
                          /\ loop'[m].functors = loop[m].functors
                          /\ m # l => loop'[m] = loop[m]
      /\ Queues' = Queues
  BY <1>2, <1>3, HandledLoop DEF Queues
<1>7. SocketsTypeOK'
  BY <1>1, <1>3, <1>5, <1>6 DEF SocketsTypeOK, LoopStates
<1>8. ASSUME NEW d \in Client PROVE ConnOf(d, tcp)'
  BY <1>1, <1>5, <1>6, InvFacts, OtherConnection
<1>9. ListenInv' /\ ChannelsOf(tcp)'
  <2>1. table[0] = "listen"
    BY InvFacts DEF ListenInv
  <2> QED
    BY <1>1, <1>8, <2>1, SameEpolls DEF ChannelsOf
<1>10. ASSUME NEW m \in Loops PROVE RoundInv(m)'
  <2>1. RoundInv(m) /\ Direct' = Direct
    BY <1>1, InvFacts DEF Direct
  <2>2. CASE m # l
    BY <1>1, <1>6, <2>1, <2>2 DEF RoundInv
  <2>3. CASE m = l
    <3>1. loop[l].active \in Seq(Channel)
      BY InvFacts DEF LoopStates
    <3>2. ToSet(loop'[l].active) \subseteq ToSet(loop[l].active) /\ Distinct(loop'[l].active)
      <4>1. Distinct(loop[l].active) /\ loop[l].active # << >>
        BY <1>2, <2>1, <2>3 DEF RoundInv
      <4>2. loop'[l].active = Tail(loop[l].active)
        BY <1>6
      <4> QED
        BY <3>1, <4>1, <4>2, TailList
    <3> QED
      BY <1>1, <1>2, <1>6, <2>1, <2>3, <3>2 DEF RoundInv
  <2> QED
    BY <2>2, <2>3
<1>11. FdsInv' /\ OnceIn(Queues') /\ broken' = FALSE
  BY <1>1, <1>6, InvFacts DEF FdsInv
<1> QED
  BY <1>7, <1>9, <1>10, <1>11 DEF SocketsInv

LEMMA SwapKeeps ==
    ASSUME SocketsInv, NEW l \in Loops, Swap(l)
    PROVE  SocketsInv'
<1>1. /\ server' = server /\ table' = table /\ epoll' = epoll /\ client' = client
      /\ status' = status /\ tcp' = tcp /\ mapped' = mapped /\ kept' = kept
      /\ next_' = next_ /\ broken' = broken
  BY DEF Swap
<1>2. /\ loop[l].at = "handling" /\ loop[l].active = << >>
      /\ loop' = [loop EXCEPT ![l].at = IF Direct THEN "polling" ELSE "calling",
                              ![l].running = loop[l].functors, ![l].functors = << >>]
  BY DEF Swap
<1>3. SocketsTypeOK /\ loop \in [Loops -> LoopStates] /\ RoundInv(l)
  BY InvFacts
<1>4. loop[l].running = << >> /\ (Direct => loop[l].functors = << >>)
  BY <1>2, <1>3 DEF RoundInv
<1> DEFINE new == [loop[l] EXCEPT !.at = IF Direct THEN "polling" ELSE "calling",
                                  !.running = loop[l].functors, !.functors = << >>]
<1>5. new \in LoopStates
  <2>1. loop[l] \in LoopStates /\ loop[l].functors \in Seq(Calls \X Client)
    BY <1>3 DEF LoopStates
  <2>2. << >> \in Seq(Calls \X Client)
    OBVIOUS
  <2>3. (IF Direct THEN "polling" ELSE "calling") \in {"polling", "handling", "calling"}
    OBVIOUS
  <2> QED
    BY <2>1, <2>2, <2>3 DEF LoopStates
<1>6. loop' = [loop EXCEPT ![l] = new]
  BY <1>2, <1>3
<1>7. loop' \in [Loops -> LoopStates] /\ loop'[l] = new /\ \A m \in Loops : m # l => loop'[m] = loop[m]
  BY <1>3, <1>5, <1>6
<1>8. /\ loop'[l].at = (IF Direct THEN "polling" ELSE "calling") /\ loop'[l].active = << >>
      /\ loop'[l].running = loop[l].functors /\ loop'[l].functors = << >>
  BY <1>2, <1>3, <1>7 DEF LoopStates
<1>9. Queues' = Queues
  <2>1. loop[l].functors \in Seq(Calls \X Client)
    BY <1>3 DEF LoopStates
  <2>2. loop'[l].running \o loop'[l].functors = loop[l].running \o loop[l].functors
    BY <1>4, <1>8, <2>1
  <2>3. \A m \in Loops : loop'[m].running \o loop'[m].functors = loop[m].running \o loop[m].functors
    BY <1>7, <2>2
  <2> QED
    BY <2>3 DEF Queues, QueuesOf
<1>10. SocketsTypeOK'
  BY <1>1, <1>3, <1>7 DEF SocketsTypeOK, LoopStates
<1>11. ASSUME NEW d \in Client PROVE ConnOf(d, tcp)'
  BY <1>1, <1>9, InvFacts, OtherConnection
<1>12. ListenInv' /\ ChannelsOf(tcp)'
  <2>1. table[0] = "listen"
    BY InvFacts DEF ListenInv
  <2> QED
    BY <1>1, <1>11, <2>1, SameEpolls DEF ChannelsOf
<1>13. ASSUME NEW m \in Loops PROVE RoundInv(m)'
  <2>1. RoundInv(m) /\ Direct' = Direct
    BY <1>1, InvFacts DEF Direct
  <2>2. CASE m # l
    BY <1>1, <1>7, <2>1, <2>2 DEF RoundInv
  <2>3. CASE m = l
    BY <1>4, <1>8, <2>1, <2>3, EmptyList DEF RoundInv
  <2> QED
    BY <2>2, <2>3
<1>14. FdsInv' /\ OnceIn(Queues') /\ broken' = FALSE
  BY <1>1, <1>9, InvFacts DEF FdsInv
<1> QED
  BY <1>10, <1>12, <1>13, <1>14 DEF SocketsInv

LEMMA EndCallsKeeps ==
    ASSUME SocketsInv, NEW l \in Loops, EndCalls(l)
    PROVE  SocketsInv'
<1>1. /\ server' = server /\ epoll' = epoll /\ client' = client
      /\ status' = status /\ mapped' = mapped /\ kept' = kept
      /\ next_' = next_ /\ broken' = broken
  BY DEF EndCalls
<1>2. /\ loop[l].at = "calling" /\ loop[l].running = << >>
      /\ loop' = [loop EXCEPT ![l].at = "polling", ![l].spent = {}]
      /\ Release(table)
  BY DEF EndCalls
<1>3. SocketsTypeOK /\ loop \in [Loops -> LoopStates] /\ RoundInv(l)
  BY InvFacts
<1> DEFINE new == [loop[l] EXCEPT !.at = "polling", !.spent = {}]
<1>4. new \in LoopStates
  BY <1>3 DEF LoopStates
<1>5. loop' = [loop EXCEPT ![l] = new]
  BY <1>2, <1>3
<1>6. loop' \in [Loops -> LoopStates] /\ loop'[l] = new /\ \A m \in Loops : m # l => loop'[m] = loop[m]
  BY <1>3, <1>4, <1>5
<1>7. /\ loop'[l].at = "polling" /\ loop'[l].active = loop[l].active
      /\ loop'[l].running = loop[l].running /\ loop'[l].functors = loop[l].functors
  BY <1>3, <1>6 DEF LoopStates
<1>8. Queues' = Queues
  <2>1. \A m \in Loops : loop'[m].running = loop[m].running /\ loop'[m].functors = loop[m].functors
    BY <1>6, <1>7
  <2> QED
    BY <2>1, QueuesSame DEF Queues
<1>9. /\ table' \in [Number -> Channel \union {"free"}]
      /\ tcp' \in [Client -> [fd : Number \union {None}, in : Loops]]
      /\ FdsInv' /\ table'[0] = "listen"
      /\ \A d \in Client : /\ tcp'[d].in = tcp[d].in
                           /\ tcp'[d] = tcp[d] \/ (tcp'[d].fd = None /\ ~Held(d)')
  BY <1>2, ReleaseFacts, InvFacts DEF ListenInv
<1>10. SocketsTypeOK'
  BY <1>1, <1>3, <1>6, <1>9 DEF SocketsTypeOK, LoopStates
<1>11. PICK t : t = tcp
  OBVIOUS
<1>12. ASSUME NEW d \in Client PROVE ConnOf(d, t)'
  BY <1>1, <1>8, <1>11, InvFacts, OtherConnection
<1>13. ListenInv' /\ ChannelsOf(t)'
  BY <1>1, <1>9, <1>11, <1>12, SameEpolls DEF ChannelsOf
<1>14. ChannelsOf(tcp)'
  BY <1>9, <1>10, <1>11, <1>13, ChannelsAfterRelease
<1>15. ASSUME NEW m \in Loops PROVE RoundInv(m)'
  <2>1. RoundInv(m) /\ Direct' = Direct
    BY <1>1, InvFacts DEF Direct
  <2>2. CASE m # l
    BY <1>1, <1>6, <2>1, <2>2 DEF RoundInv
  <2>3. CASE m = l
    BY <1>1, <1>2, <1>7, <2>1, <2>3, EmptyList DEF RoundInv
  <2> QED
    BY <2>2, <2>3
<1>16. OnceIn(Queues') /\ broken' = FALSE
  BY <1>1, <1>8, InvFacts
<1> QED
  BY <1>9, <1>10, <1>13, <1>14, <1>15, <1>16 DEF SocketsInv

LEMMA DropKeeps ==
    ASSUME SocketsInv, NEW c \in Client, Drop(c)
    PROVE  SocketsInv'
<1>1. /\ server' = server /\ epoll' = epoll /\ client' = client /\ loop' = loop
      /\ status' = status /\ mapped' = mapped /\ next_' = next_ /\ broken' = broken
  BY DEF Drop
<1>2. kept' = kept \ {c} /\ Release(table)
  BY DEF Drop
<1>3. SocketsTypeOK /\ loop \in [Loops -> LoopStates]
  BY InvFacts
<1>4. Queues' = Queues
  BY <1>1 DEF Queues
<1>5. /\ table' \in [Number -> Channel \union {"free"}]
      /\ tcp' \in [Client -> [fd : Number \union {None}, in : Loops]]
      /\ FdsInv' /\ table'[0] = "listen"
      /\ \A d \in Client : /\ tcp'[d].in = tcp[d].in
                           /\ tcp'[d] = tcp[d] \/ (tcp'[d].fd = None /\ ~Held(d)')
  BY <1>2, ReleaseFacts, InvFacts DEF ListenInv
<1>6. SocketsTypeOK'
  BY <1>1, <1>2, <1>3, <1>5 DEF SocketsTypeOK
<1>7. PICK t : t = tcp
  OBVIOUS
<1>8. ASSUME NEW d \in Client PROVE ConnOf(d, t)'
  BY <1>1, <1>4, <1>7, InvFacts, OtherConnection
<1>9. ListenInv' /\ ChannelsOf(t)'
  BY <1>1, <1>5, <1>7, <1>8, SameEpolls DEF ChannelsOf
<1>10. ChannelsOf(tcp)'
  BY <1>5, <1>6, <1>7, <1>9, ChannelsAfterRelease
<1>11. ASSUME NEW m \in Loops PROVE RoundInv(m)'
  <2>1. RoundInv(m) /\ Direct' = Direct
    BY <1>1, InvFacts DEF Direct
  <2> QED
    BY <1>1, <2>1 DEF RoundInv
<1>12. OnceIn(Queues') /\ broken' = FALSE
  BY <1>1, <1>4, InvFacts
<1> QED
  BY <1>5, <1>6, <1>9, <1>10, <1>11, <1>12 DEF SocketsInv

\* A step at the Epoll of one loop, that ends with the view e and the connections t.
LEMMA EpollStep ==
    ASSUME SocketsInv, NEW l \in Loops, NEW e \in Views, NEW t, SetView(l, e),
           Distinct(e.watched),
           \A ch \in ToSet(e.watched) :
              e.status[ch] = "kAdded" /\ IF ch = "listen" THEN l = 0 ELSE t[ch].in = l,
           \A n \in Number :
              /\ e.channels[n] \in Client =>
                    /\ t[e.channels[n]] = [fd |-> n, in |-> l]
                    /\ e.status[e.channels[n]] # "kNew"
              /\ e.channels[n] = "listen" => l = 0 /\ n = 0,
           \A d \in Client : status[d] # "kNew" /\ tcp[d].in # l =>
              t[d] = tcp[d] /\ e.status[d] = status[d],
           l # 0 => e.status["listen"] = status["listen"]
    PROVE  /\ \A m \in Loops : WatchOf(m, t)' /\ \A n \in Number : EntryOf(m, n, t)'
           /\ tcp' = t => \A m \in Loops : WatchOf(m, tcp)' /\ \A n \in Number : EntryOf(m, n, tcp)'
<1>1. /\ epoll'[l].channels = e.channels /\ epoll'[l].watched = e.watched
      /\ \A m \in Loops : m # l => epoll'[m] = epoll[m]
      /\ status' = e.status
  BY SetViewFields, InvFacts
<1>2. ASSUME NEW m \in Loops, NEW ch \in ToSet(epoll'[m].watched)
      PROVE  status'[ch] = "kAdded" /\ IF ch = "listen" THEN m = 0 ELSE t[ch].in = m
  <2>1. CASE m = l
    BY <1>1, <1>2, <2>1
  <2>2. CASE m # l
    <3>1. epoll'[m] = epoll[m]
      BY <1>1, <2>2
    <3>2. status[ch] = "kAdded" /\ IF ch = "listen" THEN m = 0 ELSE tcp[ch].in = m
      BY <1>2, <3>1, InvFacts DEF WatchOf
    <3>3. ch \in Channel
      BY <1>2, <3>1, InvFacts, InToSet
    <3>4. CASE ch = "listen"
      BY <1>1, <2>2, <3>2, <3>4
    <3>5. CASE ch # "listen"
      <4>1. ch \in Client /\ status[ch] # "kNew" /\ tcp[ch].in # l
        BY <2>2, <3>2, <3>3, <3>5 DEF Channel
      <4> QED
        BY <1>1, <3>2, <3>5, <4>1
    <3> QED
      BY <3>4, <3>5
  <2> QED
    BY <2>1, <2>2
<1>3. ASSUME NEW m \in Loops, NEW n \in Number
      PROVE  LET ch == epoll'[m].channels[n]
             IN  /\ ch \in Client => t[ch] = [fd |-> n, in |-> m] /\ status'[ch] # "kNew"
                 /\ ch = "listen" => m = 0 /\ n = 0
  <2>1. CASE m = l
    BY <1>1, <2>1
  <2>2. CASE m # l
    <3>1. epoll'[m] = epoll[m]
      BY <1>1, <2>2
    <3>2. EntryOf(m, n, tcp)
      BY InvFacts
    <3> DEFINE ch == epoll[m].channels[n]
    <3>3. /\ ch \in Client => tcp[ch] = [fd |-> n, in |-> m] /\ status[ch] # "kNew"
          /\ ch = "listen" => m = 0 /\ n = 0
      BY <3>2 DEF EntryOf
    <3>4. ch \in Client => t[ch] = tcp[ch] /\ status'[ch] = status[ch]
      <4>1. ch \in Client => status[ch] # "kNew" /\ tcp[ch].in # l
        BY <2>2, <3>3
      <4> QED
        BY <1>1, <4>1
    <3> QED
      BY <3>1, <3>3, <3>4
  <2> QED
    BY <2>1, <2>2
<1>4. \A m \in Loops : Distinct(epoll'[m].watched)
  <2>1. ASSUME NEW m \in Loops, m # l PROVE Distinct(epoll'[m].watched)
    BY <1>1, <2>1, InvFacts DEF WatchOf
  <2> QED
    BY <1>1, <2>1
<1> QED
  BY <1>2, <1>3, <1>4 DEF WatchOf, EntryOf

LEMMA LeastOfTwo ==
    ASSUME NEW a \in Nat, NEW b \in Nat
    PROVE  Min({a, b}) \in 0 .. a
<1>1. CASE a <= b
  <2>1. \A x \in {a, b} : (\A y \in {a, b} : x <= y) => x <= a
    OBVIOUS
  <2>2. \E x \in {a, b} : \A y \in {a, b} : x <= y
    BY <1>1
  <2>3. Min({a, b}) \in {a, b} /\ Min({a, b}) <= a
    BY <2>1, <2>2 DEF Min
  <2> QED
    BY <2>3
<1>2. CASE b <= a
  <2>1. \A x \in {a, b} : (\A y \in {a, b} : x <= y) => x <= a
    OBVIOUS
  <2>2. \E x \in {a, b} : \A y \in {a, b} : x <= y
    BY <1>2
  <2>3. Min({a, b}) \in {a, b} /\ Min({a, b}) <= a
    BY <2>1, <2>2 DEF Min
  <2> QED
    BY <2>3
<1> QED
  BY <1>1, <1>2

LEMMA BeforeEachLoopView ==
    ASSUME SocketsInv, NEW l \in Loops, l <= server.numThreads_
    PROVE  LET e == BeforeEachLoop(View(l))
           IN  /\ OnlyThis(View(l), e, "listen", 0)
               /\ e.failed = FALSE
               /\ \/ e = View(l)
                  \/ /\ Direct /\ l = 0
                     /\ e.channels[0] = "listen" /\ e.status["listen"] = "kAdded"
                     /\ ToSet(e.watched) = ToSet(epoll[l].watched) \union {"listen"}
<1> DEFINE v == View(l)
<1>1. v \in Views /\ v.channels = epoll[l].channels /\ v.watched = epoll[l].watched
      /\ v.status = status /\ v.failed = FALSE
  BY InvFacts, ViewIsView DEF View
<1>2. Direct => l = 0
  <2>1. server \in Servers
    BY InvFacts DEF SocketsTypeOK
  <2> QED
    BY <2>1, SocketsAssumption DEF Servers, Direct, Loops
<1> HIDE DEF v
<1>3. CASE Direct /\ v.status["listen"] # "kAdded"
  <2>1. BeforeEachLoop(v) = EnableReading(v, "listen", 0)
    BY <1>3 DEF BeforeEachLoop
  <2>2. v.channels[0] = (IF v.status["listen"] = "kNew" THEN "none" ELSE "listen")
    BY <1>1, <1>2, <1>3, InvFacts DEF ListenInv
  <2>3. LET f == EnableReading(v, "listen", 0)
        IN  /\ OnlyThis(v, f, "listen", 0)
            /\ f.channels[0] = "listen" /\ f.status["listen"] = "kAdded"
            /\ ToSet(f.watched) = ToSet(v.watched) \union {"listen"}
            /\ f.failed = v.failed
    <3>1. v \in Views /\ "listen" \in Channel /\ 0 \in Number
      BY <1>1, InvFacts
    <3> QED
      BY <2>2, <3>1, EnableReadingView
  <2> QED
    BY <1>1, <1>2, <1>3, <2>1, <2>3 DEF v
<1>4. CASE ~(Direct /\ v.status["listen"] # "kAdded")
  <2>1. BeforeEachLoop(v) = v
    BY <1>4 DEF BeforeEachLoop
  <2>2. OnlyThis(v, v, "listen", 0)
    BY <1>1 DEF OnlyThis
  <2> QED
    BY <1>1, <2>1, <2>2 DEF v
<1> QED
  BY <1>3, <1>4

LEMMA ListenFirstList ==
    ASSUME NEW s \in Seq(Channel), Distinct(s)
    PROVE  /\ ListenFirst(s) \in Seq(Channel) /\ Distinct(ListenFirst(s))
           /\ ToSet(ListenFirst(s)) = ToSet(s)
<1>1. CASE Direct /\ "listen" \in ToSet(s)
  <2> DEFINE a == <<"listen">>
             b == Unwatched(s, "listen")
  <2>1. ListenFirst(s) = a \o b
    BY <1>1 DEF ListenFirst
  <2>2. b \in Seq(Channel) /\ ToSet(b) = ToSet(s) \ {"listen"} /\ Distinct(b)
    BY UnwatchedList
  <2>3. a \in Seq(Channel) /\ ToSet(a) = {"listen"} /\ Distinct(a)
    <3>1. "listen" \in Channel /\ << >> \in Seq(Channel)
      BY DEF Channel
    <3>2. a = Append(<< >>, "listen")
      OBVIOUS
    <3>3. /\ Append(<< >>, "listen") \in Seq(Channel)
          /\ ToSet(Append(<< >>, "listen")) = ToSet(<< >>) \union {"listen"}
          /\ Distinct(<< >>) /\ "listen" \notin ToSet(<< >>) => Distinct(Append(<< >>, "listen"))
      BY <3>1, AppendList
    <3>4. PICK u : u = Append(<< >>, "listen")
      OBVIOUS
    <3>5. PICK e : e = ToSet(<< >>)
      OBVIOUS
    <3>6. /\ u \in Seq(Channel) /\ ToSet(u) = e \union {"listen"}
          /\ Distinct(<< >>) /\ "listen" \notin e => Distinct(u)
      BY <3>3, <3>4, <3>5
    <3>7. e = {} /\ Distinct(<< >>)
      BY <3>5, EmptyList
    <3>8. ToSet(u) = {"listen"} /\ Distinct(u)
      BY <3>6, <3>7
    <3> QED
      BY <3>2, <3>4, <3>6, <3>8
  <2> HIDE DEF a, b
  <2>4. a \o b \in Seq(Channel) /\ ToSet(a \o b) = ToSet(a) \union ToSet(b) /\ Distinct(a \o b)
    BY <2>2, <2>3, ConcatList
  <2> QED
    BY <1>1, <2>1, <2>2, <2>3, <2>4
<1>2. CASE ~(Direct /\ "listen" \in ToSet(s))
  <2>1. ListenFirst(s) = s
    BY <1>2 DEF ListenFirst
  <2> QED
    BY <2>1
<1> QED
  BY <1>1, <1>2

LEMMA PollKeeps ==
    ASSUME SocketsInv, NEW l \in Loops, l <= server.numThreads_, Poll(l)
    PROVE  SocketsInv'
<1> DEFINE e == BeforeEachLoop(View(l))
           ready == Among(e.watched, {ch \in Channel : Ready(ch)})
           got == SubSeq(ready, 1, Min({Len(ready), loop[l].size}))
           rest == Among(e.watched, Channel \ ToSet(got))
           f == [e EXCEPT !.watched = rest \o got]
           new == [loop[l] EXCEPT !.at = "handling", !.active = ListenFirst(got),
                                  !.size = IF Len(got) = @ THEN 2 * @ ELSE @]
<1>1. /\ server' = server /\ table' = table /\ client' = client /\ tcp' = tcp
      /\ mapped' = mapped /\ kept' = kept /\ next_' = next_
  BY DEF Poll
<1>2. /\ loop[l].at = "polling"
      /\ loop' = [loop EXCEPT ![l].at = "handling", ![l].active = ListenFirst(got),
                              ![l].size = IF Len(got) = @ THEN 2 * @ ELSE @]
      /\ SetView(l, [e EXCEPT !.watched = Among(@, Channel \ ToSet(got)) \o got])
  BY DEF Poll
<1>3. /\ OnlyThis(View(l), e, "listen", 0)
      /\ e.failed = FALSE
      /\ \/ e = View(l)
         \/ /\ Direct /\ l = 0
            /\ e.channels[0] = "listen" /\ e.status["listen"] = "kAdded"
            /\ ToSet(e.watched) = ToSet(epoll[l].watched) \union {"listen"}
  BY BeforeEachLoopView
<1>4. /\ View(l) \in Views /\ View(l).channels = epoll[l].channels
      /\ View(l).watched = epoll[l].watched /\ View(l).status = status
  BY InvFacts, ViewIsView DEF View
<1>5. WatchOf(l, tcp) /\ RoundInv(l) /\ ListenInv
  BY InvFacts
<1> HIDE DEF e
<1>6. e \in Views /\ e.watched \in Seq(Channel) /\ Distinct(e.watched)
  BY <1>3, <1>4, <1>5 DEF OnlyThis, WatchOf, Views
<1>7. ready \in Seq(Channel) /\ ToSet(ready) \subseteq ToSet(e.watched) /\ Distinct(ready)
  BY <1>6, AmongList
<1> HIDE DEF ready
<1>8. got \in Seq(Channel) /\ ToSet(got) \subseteq ToSet(e.watched) /\ Distinct(got)
  <2>1. Len(ready) \in Nat /\ loop[l].size \in Nat
    BY <1>7, InvFacts DEF LoopStates
  <2>2. Min({Len(ready), loop[l].size}) \in 0 .. Len(ready)
    BY <2>1, LeastOfTwo
  <2> QED
    BY <1>7, <2>2, PrefixList
<1> HIDE DEF got
<1>9. rest \in Seq(Channel) /\ ToSet(rest) = ToSet(e.watched) \ ToSet(got) /\ Distinct(rest)
  <2>1. ToSet(e.watched) \cap (Channel \ ToSet(got)) = ToSet(e.watched) \ ToSet(got)
    BY <1>6, InToSet
  <2> QED
    BY <1>6, <2>1, AmongList
<1>10. SetView(l, f)
  BY <1>2
<1> HIDE DEF rest
<1>11. rest \o got \in Seq(Channel) /\ ToSet(rest \o got) = ToSet(e.watched) /\ Distinct(rest \o got)
  BY <1>8, <1>9, ConcatList
<1>12. /\ f \in Views /\ f.watched = rest \o got
       /\ f.channels = e.channels /\ f.status = e.status /\ f.failed = e.failed
  BY <1>6, <1>11 DEF Views
<1> HIDE DEF f
<1>13. /\ epoll' \in [Loops -> [channels : [Number -> Channel \union {"none"}], watched : Seq(Channel)]]
       /\ status' \in [Channel -> {"kNew", "kAdded", "kDeleted"}]
       /\ epoll'[l].channels = e.channels /\ ToSet(epoll'[l].watched) = ToSet(e.watched)
       /\ \A m \in Loops : m # l => epoll'[m] = epoll[m]
       /\ status' = e.status /\ broken' = FALSE
  BY <1>3, <1>10, <1>11, <1>12, SetViewFields, InvFacts
<1>14. /\ \A n \in Number : n # 0 => e.channels[n] = epoll[l].channels[n]
       /\ \A d \in Client : e.status[d] = status[d]
       /\ ToSet(epoll[l].watched) \subseteq ToSet(e.watched)
       /\ \A ch \in ToSet(e.watched) : ch \in ToSet(epoll[l].watched)
                                         \/ (ch = "listen" /\ l = 0 /\ e.status["listen"] = "kAdded")
  <2>1. /\ \A n \in Number : n # 0 => e.channels[n] = epoll[l].channels[n]
        /\ \A d \in Client : e.status[d] = status[d]
    <3>1. \A d \in Client : d \in Channel /\ d # "listen"
      BY InvFacts
    <3> QED
      BY <1>3, <1>4, <3>1 DEF OnlyThis
  <2> QED
    BY <1>3, <1>4, <2>1
<1>15. \/ e.channels[0] = epoll[l].channels[0] /\ e.status["listen"] = status["listen"]
       \/ Direct /\ l = 0 /\ e.channels[0] = "listen" /\ e.status["listen"] = "kAdded"
  BY <1>3, <1>4
<1>16. ListenInv'
  <2>1. Direct' = Direct
    BY <1>1 DEF Direct
  <2>2. CASE l = 0
    BY <1>1, <1>5, <1>13, <1>15, <2>1, <2>2 DEF ListenInv
  <2>3. CASE l # 0
    <3>1. epoll'[0] = epoll[0]
      BY <1>13, <2>3, InvFacts
    <3> QED
      BY <1>1, <1>5, <1>13, <1>15, <2>1, <2>3, <3>1 DEF ListenInv
  <2> QED
    BY <2>2, <2>3
<1>17. \A m \in Loops : WatchOf(m, tcp)' /\ \A n \in Number : EntryOf(m, n, tcp)'
  <2>1. PICK t : t = tcp
    OBVIOUS
  <2>2. ASSUME NEW ch \in ToSet(f.watched)
        PROVE  f.status[ch] = "kAdded" /\ IF ch = "listen" THEN l = 0 ELSE t[ch].in = l
    <3>1. ch \in ToSet(e.watched) /\ ch \in Channel
      BY <1>6, <1>11, <1>12, <2>2, InToSet
    <3>2. CASE ch \in ToSet(epoll[l].watched)
      <4>1. status[ch] = "kAdded" /\ IF ch = "listen" THEN l = 0 ELSE tcp[ch].in = l
        BY <1>5, <3>2 DEF WatchOf
      <4>2. e.status[ch] = "kAdded"
        <5>1. CASE ch = "listen"
          BY <1>15, <4>1, <5>1
        <5>2. CASE ch # "listen"
          BY <1>14, <3>1, <4>1, <5>2 DEF Channel
        <5> QED
          BY <5>1, <5>2
      <4> QED
        BY <1>12, <2>1, <4>1, <4>2
    <3>3. CASE ch = "listen" /\ l = 0 /\ e.status["listen"] = "kAdded"
      BY <1>12, <3>3
    <3> QED
      BY <1>14, <3>1, <3>2, <3>3
  <2>3. ASSUME NEW n \in Number
        PROVE  /\ f.channels[n] \in Client =>
                     /\ t[f.channels[n]] = [fd |-> n, in |-> l]
                     /\ f.status[f.channels[n]] # "kNew"
               /\ f.channels[n] = "listen" => l = 0 /\ n = 0
    <3>1. EntryOf(l, n, tcp)
      BY InvFacts
    <3>2. CASE e.channels[n] = epoll[l].channels[n]
      BY <1>12, <1>14, <2>1, <3>1, <3>2 DEF EntryOf
    <3>3. CASE e.channels[n] # epoll[l].channels[n]
      <4>1. n = 0 /\ l = 0 /\ e.channels[n] = "listen"
        BY <1>14, <1>15, <3>3
      <4> QED
        BY <1>12, <4>1, InvFacts
    <3> QED
      BY <3>2, <3>3
  <2>4. ASSUME NEW d \in Client PROVE t[d] = tcp[d] /\ f.status[d] = status[d]
    BY <1>12, <1>14, <2>1
  <2>5. l # 0 => f.status["listen"] = status["listen"]
    BY <1>12, <1>15
  <2>6. tcp' = t
    BY <1>1, <2>1
  <2>7. Distinct(f.watched)
    BY <1>11, <1>12
  <2> QED
    BY <1>10, <1>12, <2>2, <2>3, <2>4, <2>5, <2>6, <2>7, EpollStep
<1>18. /\ ListenFirst(got) \in Seq(Channel) /\ Distinct(ListenFirst(got))
       /\ ToSet(ListenFirst(got)) = ToSet(got)
  BY <1>8, ListenFirstList
<1>19. new \in LoopStates
  <2>1. loop[l] \in LoopStates /\ loop[l].size \in Nat
    BY InvFacts DEF LoopStates
  <2>2. (IF Len(got) = loop[l].size THEN 2 * loop[l].size ELSE loop[l].size) \in Nat
    BY <2>1
  <2> QED
    BY <1>18, <2>1, <2>2 DEF LoopStates
<1>20. loop' = [loop EXCEPT ![l] = new]
  BY <1>2, InvFacts
<1>21. loop' \in [Loops -> LoopStates] /\ loop'[l] = new /\ \A m \in Loops : m # l => loop'[m] = loop[m]
  BY <1>19, <1>20, InvFacts
<1>22. /\ loop'[l].at = "handling" /\ loop'[l].active = ListenFirst(got)
       /\ loop'[l].running = loop[l].running /\ loop'[l].functors = loop[l].functors
  <2>1. loop[l] \in LoopStates
    BY InvFacts
  <2> QED
    BY <1>21, <2>1 DEF LoopStates
<1>23. Queues' = Queues
  <2>1. \A m \in Loops : loop'[m].running = loop[m].running /\ loop'[m].functors = loop[m].functors
    BY <1>21, <1>22
  <2> QED
    BY <2>1, QueuesSame DEF Queues
<1>24. SocketsTypeOK'
  BY <1>1, <1>13, <1>21, InvFacts DEF SocketsTypeOK, LoopStates
<1>25. ASSUME NEW d \in Client PROVE ConnOf(d, tcp)'
  <2>1. tcp[d].in \in Loops /\ tcp[d].fd \in Number \union {None} /\ ConnOf(d, tcp)
    BY InvFacts
  <2>2. status'[d] = status[d]
    BY <1>13, <1>14
  <2>3. status[d] # "kNew" => epoll'[tcp[d].in].channels[tcp[d].fd] = epoll[tcp[d].in].channels[tcp[d].fd]
    <3>1. CASE status[d] # "kNew" /\ tcp[d].in = l
      <4>1. tcp[d].fd \in Number /\ epoll[l].channels[tcp[d].fd] = d
        BY <2>1, <3>1 DEF ConnOf
      <4>2. tcp[d].fd # 0 \/ l # 0
        <5>1. table[0] # d
          BY <1>5, InvFacts DEF ListenInv
        <5>2. tcp[d].fd # 0
          BY <5>1, InvFacts DEF FdsInv
        <5> QED
          BY <5>2
      <4>3. e.channels[tcp[d].fd] = epoll[l].channels[tcp[d].fd]
        BY <1>14, <1>15, <4>1, <4>2
      <4> QED
        BY <1>13, <3>1, <4>3
    <3>2. CASE tcp[d].in # l
      BY <1>13, <2>1, <3>2
    <3> QED
      BY <3>1, <3>2
  <2> QED
    BY <1>1, <1>23, <2>1, <2>2, <2>3, OtherConnection
<1>26. ChannelsOf(tcp)'
  BY <1>17, <1>25 DEF ChannelsOf
<1>27. ASSUME NEW m \in Loops PROVE RoundInv(m)'
  <2>1. RoundInv(m) /\ Direct' = Direct
    BY <1>1, InvFacts DEF Direct
  <2>2. CASE m # l
    <3>1. loop'[m] = loop[m] /\ epoll'[m] = epoll[m]
      BY <1>13, <1>21, <2>2
    <3> QED
      BY <2>1, <3>1 DEF RoundInv
  <2>3. CASE m = l
    <3>1. ToSet(loop'[l].active) \subseteq ToSet(epoll'[l].watched) /\ Distinct(loop'[l].active)
      BY <1>8, <1>13, <1>18, <1>22
    <3>2. loop'[l].running = << >>
      BY <1>2, <1>5, <1>22 DEF RoundInv
    <3> QED
      BY <1>22, <2>1, <2>3, <3>1, <3>2 DEF RoundInv
  <2> QED
    BY <2>2, <2>3
<1>28. FdsInv' /\ OnceIn(Queues') /\ broken' = FALSE
  BY <1>1, <1>13, <1>23, InvFacts DEF FdsInv
<1> QED
  BY <1>16, <1>24, <1>26, <1>27, <1>28 DEF SocketsInv

\* In multiProcess2 the listening socket is watched when it is the next of a round.
LEMMA ListenIsWatched ==
    ASSUME SocketsInv, loop[0].active # << >>, Head(loop[0].active) = "listen"
    PROVE  /\ status["listen"] = "kAdded" /\ epoll[0].channels[0] = "listen"
           /\ Tail(loop[0].active) \in Seq(Channel)
           /\ Distinct(Tail(loop[0].active))
           /\ ToSet(Tail(loop[0].active)) \subseteq ToSet(epoll[0].watched) \ {"listen"}
<1>1. loop[0].active \in Seq(Channel) /\ RoundInv(0) /\ WatchOf(0, tcp) /\ ListenInv
  BY InvFacts DEF LoopStates
<1>2. /\ Distinct(loop[0].active) /\ "listen" \in ToSet(loop[0].active)
      /\ Tail(loop[0].active) \in Seq(Channel) /\ Distinct(Tail(loop[0].active))
      /\ ToSet(Tail(loop[0].active)) = ToSet(loop[0].active) \ {"listen"}
  BY <1>1, TailList DEF RoundInv
<1>3. status["listen"] = "kAdded"
  BY <1>1, <1>2 DEF RoundInv, WatchOf
<1> QED
  BY <1>1, <1>2, <1>3 DEF RoundInv, ListenInv

LEMMA AcceptFailsKeeps ==
    ASSUME SocketsInv, AcceptFails
    PROVE  SocketsInv'
<1> DEFINE f == AfterEachAccept(View(0))
<1>1. /\ server' = server /\ table' = table /\ client' = client /\ tcp' = tcp
      /\ mapped' = mapped /\ kept' = kept /\ next_' = next_
  BY DEF AcceptFails
<1>2. /\ loop[0].active # << >> /\ Head(loop[0].active) = "listen" /\ loop[0].at = "handling"
      /\ SetView(0, f) /\ loop' = Handled(0)
  BY DEF AcceptFails
<1>3. /\ View(0) \in Views /\ View(0).channels = epoll[0].channels
      /\ View(0).watched = epoll[0].watched /\ View(0).status = status /\ View(0).failed = FALSE
  BY InvFacts, ViewIsView DEF View
<1>4. /\ status["listen"] = "kAdded" /\ epoll[0].channels[0] = "listen"
      /\ Distinct(Tail(loop[0].active))
      /\ ToSet(Tail(loop[0].active)) \subseteq ToSet(epoll[0].watched) \ {"listen"}
  BY <1>2, ListenIsWatched
<1>5. /\ f \in Views /\ f.channels = epoll[0].channels /\ f.failed = FALSE
      /\ \A d \in Channel : d # "listen" => f.status[d] = status[d]
      /\ f.status["listen"] = IF Direct THEN "kDeleted" ELSE "kAdded"
      /\ ToSet(f.watched) = IF Direct THEN ToSet(epoll[0].watched) \ {"listen"} ELSE ToSet(epoll[0].watched)
      /\ Distinct(epoll[0].watched) => Distinct(f.watched)
  BY <1>3, <1>4, AfterEachAcceptView
<1> HIDE DEF f
<1>6. 0 \in Loops /\ "listen" \notin Client /\ WatchOf(0, tcp) /\ ListenInv /\ SocketsTypeOK
  BY InvFacts
<1>7. /\ epoll' \in [Loops -> [channels : [Number -> Channel \union {"none"}], watched : Seq(Channel)]]
      /\ status' \in [Channel -> {"kNew", "kAdded", "kDeleted"}]
      /\ epoll'[0].channels = epoll[0].channels /\ epoll'[0].watched = f.watched
      /\ \A m \in Loops : m # 0 => epoll'[m] = epoll[m]
      /\ status' = f.status /\ broken' = FALSE
  BY <1>2, <1>5, <1>6, SetViewFields
<1>8. /\ loop' \in [Loops -> LoopStates]
      /\ loop'[0].active = Tail(loop[0].active) /\ loop'[0].at = loop[0].at
      /\ \A m \in Loops : /\ loop'[m].running = loop[m].running
                          /\ loop'[m].functors = loop[m].functors
                          /\ m # 0 => loop'[m] = loop[m]
      /\ Queues' = Queues
  BY <1>2, <1>6, HandledLoop DEF Queues
<1>9. ListenInv'
  <2>1. Direct' = Direct
    BY <1>1 DEF Direct
  <2> QED
    BY <1>1, <1>4, <1>5, <1>6, <1>7, <2>1 DEF ListenInv
<1>10. \A m \in Loops : WatchOf(m, tcp)' /\ \A n \in Number : EntryOf(m, n, tcp)'
  <2>1. PICK t : t = tcp
    OBVIOUS
  <2>2. ASSUME NEW ch \in ToSet(f.watched)
        PROVE  f.status[ch] = "kAdded" /\ IF ch = "listen" THEN 0 = 0 ELSE t[ch].in = 0
    <3>1. ch \in ToSet(epoll[0].watched) /\ (Direct => ch # "listen")
      BY <1>5, <2>2
    <3>2. status[ch] = "kAdded" /\ (ch # "listen" => tcp[ch].in = 0)
      BY <1>6, <3>1 DEF WatchOf
    <3>3. ch \in Channel
      BY <3>1, InvFacts, InToSet
    <3> QED
      BY <1>5, <2>1, <3>1, <3>2, <3>3
  <2>3. ASSUME NEW n \in Number
        PROVE  /\ f.channels[n] \in Client =>
                     /\ t[f.channels[n]] = [fd |-> n, in |-> 0]
                     /\ f.status[f.channels[n]] # "kNew"
               /\ f.channels[n] = "listen" => 0 = 0 /\ n = 0
    <3>1. EntryOf(0, n, tcp) /\ (f.channels[n] \in Client => f.channels[n] \in Channel /\ f.channels[n] # "listen")
      BY InvFacts
    <3> QED
      BY <1>5, <2>1, <3>1 DEF EntryOf
  <2>4. ASSUME NEW d \in Client PROVE t[d] = tcp[d] /\ f.status[d] = status[d]
    BY <1>5, <2>1, InvFacts
  <2>5. tcp' = t /\ Distinct(f.watched)
    BY <1>1, <1>5, <1>6, <2>1 DEF WatchOf
  <2> QED
    BY <1>2, <1>5, <1>6, <2>2, <2>3, <2>4, <2>5, EpollStep
<1>11. SocketsTypeOK'
  BY <1>1, <1>6, <1>7, <1>8 DEF SocketsTypeOK, LoopStates
<1>12. ASSUME NEW d \in Client PROVE ConnOf(d, tcp)'
  <2>1. tcp[d].in \in Loops /\ ConnOf(d, tcp)
    BY InvFacts
  <2>2. status'[d] = status[d]
    BY <1>5, <1>7, InvFacts
  <2>3. epoll'[tcp[d].in].channels = epoll[tcp[d].in].channels
    BY <1>7, <2>1
  <2> QED
    BY <1>1, <1>8, <2>1, <2>2, <2>3, OtherConnection
<1>13. ChannelsOf(tcp)'
  BY <1>10, <1>12 DEF ChannelsOf
<1>14. ASSUME NEW m \in Loops PROVE RoundInv(m)'
  <2>1. RoundInv(m) /\ Direct' = Direct
    BY <1>1, InvFacts DEF Direct
  <2>2. CASE m # 0
    <3>1. loop'[m] = loop[m] /\ epoll'[m] = epoll[m]
      BY <1>7, <1>8, <2>2
    <3> QED
      BY <2>1, <3>1 DEF RoundInv
  <2>3. CASE m = 0
    <3>1. ToSet(loop'[0].active) \subseteq ToSet(epoll'[0].watched) /\ Distinct(loop'[0].active)
      BY <1>4, <1>5, <1>7, <1>8
    <3> QED
      BY <1>2, <1>8, <2>1, <2>3, <3>1 DEF RoundInv
  <2> QED
    BY <2>2, <2>3
<1>15. FdsInv' /\ OnceIn(Queues') /\ broken' = FALSE
  BY <1>1, <1>7, <1>8, InvFacts DEF FdsInv
<1> QED
  BY <1>9, <1>11, <1>13, <1>14, <1>15 DEF SocketsInv

\* What is known of a connection that is accepted, and of the number it gets.
LEMMA AcceptFacts ==
    ASSUME SocketsInv, NEW c \in Client, client[c] = "backlog", ~Full
    PROVE  LET n == Min({m \in Number : table[m] = "free"})
           IN  /\ n \in Number /\ table[n] = "free" /\ n # 0
               /\ \A l \in Loops : epoll[l].channels[n] = "none"
               /\ \A d \in Client : tcp[d].fd # n
               /\ tcp[c].fd = None /\ status[c] = "kNew" /\ c \notin mapped
               /\ \A l \in Loops : \A k : ~Within(Queues, l, k, c)
               /\ getNextLoop \in Loops /\ (Direct => getNextLoop = 0)
<1> DEFINE T == {m \in Number : table[m] = "free"}
           n == Min(T)
<1>1. T \subseteq Nat /\ T # {}
  <2>1. Number \subseteq Nat
    BY SocketsAssumption DEF Number
  <2> QED
    BY <2>1 DEF Full
<1>2. n \in T
  <2>1. PICK x \in T : \A y \in T : ~(y < x)
    BY <1>1, Least
  <2>2. \A y \in T : x <= y
    BY <1>1, <2>1
  <2> HIDE DEF T
  <2> QED
    BY <2>1, <2>2 DEF Min
<1>3. n \in Number /\ table[n] = "free"
  BY <1>2
<1> HIDE DEF n
<1>4. n # 0
  BY <1>3, InvFacts DEF ListenInv
<1>5. \A d \in Client : tcp[d].fd # n
  BY <1>3, InvFacts DEF FdsInv
<1>6. ASSUME NEW l \in Loops PROVE epoll[l].channels[n] = "none"
  <2>1. EntryOf(l, n, tcp) /\ epoll[l].channels[n] \in Channel \union {"none"}
    BY <1>3, InvFacts
  <2>2. epoll[l].channels[n] \notin Client
    BY <1>5, <2>1 DEF EntryOf
  <2> QED
    BY <1>4, <2>1, <2>2 DEF EntryOf, Channel
<1>7. ConnOf(c, tcp)
  BY InvFacts
<1>8. tcp[c].fd = None /\ status[c] = "kNew" /\ c \notin mapped
  BY <1>7 DEF ConnOf
<1>9. ASSUME NEW l \in Loops, NEW k PROVE ~Within(Queues, l, k, c)
  <2> SUFFICES ASSUME Within(Queues, l, k, c) PROVE FALSE
    OBVIOUS
  <2>1. k \in Calls
    BY InvFacts, WithinTypes
  <2> QED
    BY <1>7, <1>8, <2>1 DEF ConnOf, Waits, Calls
<1>10. getNextLoop \in Loops /\ (Direct => getNextLoop = 0)
  <2>1. server \in Servers /\ next_ \in Loops
    BY InvFacts DEF SocketsTypeOK
  <2>2. server.numThreads_ \in 0 .. MaxThreads /\ (server.direct => server.numThreads_ = 0)
    BY <2>1 DEF Servers
  <2>3. next_ \in Nat /\ MaxThreads \in Nat
    BY <2>1, SocketsAssumption DEF Loops
  <2>4. CASE server.numThreads_ = 0
    BY <2>4, InvFacts DEF getNextLoop
  <2>5. CASE server.numThreads_ # 0
    <3>1. next_ % server.numThreads_ \in 0 .. server.numThreads_ - 1
      BY <2>2, <2>3, <2>5
    <3> QED
      BY <2>2, <2>3, <2>5, <3>1 DEF getNextLoop, Loops, Direct
  <2> QED
    BY <2>4, <2>5
<1> QED
  BY <1>3, <1>4, <1>5, <1>6, <1>8, <1>9, <1>10 DEF n

LEMMA AcceptKeeps ==
    ASSUME SocketsInv, NEW c \in Client, Accept(c)
    PROVE  SocketsInv'
<1> DEFINE n == Min({m \in Number : table[m] = "free"})
           io == getNextLoop
           f == IF io = 0 THEN AfterEachAccept(EnableReading(View(0), c, n))
                          ELSE AfterEachAccept(View(0))
<1>1. /\ loop[0].active # << >> /\ Head(loop[0].active) = "listen" /\ loop[0].at = "handling"
      /\ client[c] = "backlog" /\ ~Full
  BY DEF Accept
<1>2. /\ table' = [table EXCEPT ![n] = c]
      /\ tcp' = [tcp EXCEPT ![c] = [fd |-> n, in |-> io]]
      /\ next_' = io /\ mapped' = mapped \union {c}
      /\ client' = [client EXCEPT ![c] = "open"] /\ server' = server
      /\ SetView(0, f)
      /\ loop' = IF io = 0 THEN Handled(0) ELSE Pushed(Handled(0), io, "connectionEstablished", c)
      /\ kept' = kept \/ (c \in Busy /\ kept' = kept \union {c})
  BY DEF Accept, ConnectionCallback
<1>3. /\ n \in Number /\ table[n] = "free" /\ n # 0
      /\ \A l \in Loops : epoll[l].channels[n] = "none"
      /\ \A d \in Client : tcp[d].fd # n
      /\ tcp[c].fd = None /\ status[c] = "kNew" /\ c \notin mapped
      /\ \A l \in Loops : \A k : ~Within(Queues, l, k, c)
      /\ io \in Loops /\ (Direct => io = 0)
  BY <1>1, AcceptFacts
<1> HIDE DEF n, io
<1>4. /\ View(0) \in Views /\ View(0).channels = epoll[0].channels
      /\ View(0).watched = epoll[0].watched /\ View(0).status = status /\ View(0).failed = FALSE
  BY InvFacts, ViewIsView DEF View
<1>5. /\ status["listen"] = "kAdded" /\ epoll[0].channels[0] = "listen"
      /\ Distinct(Tail(loop[0].active))
      /\ ToSet(Tail(loop[0].active)) \subseteq ToSet(epoll[0].watched) \ {"listen"}
  BY <1>1, ListenIsWatched
<1>6. /\ 0 \in Loops /\ 0 \in Number /\ "listen" \notin Client /\ "listen" \in Channel
      /\ Client \subseteq Channel /\ WatchOf(0, tcp) /\ ListenInv /\ SocketsTypeOK
      /\ Distinct(epoll[0].watched)
  BY InvFacts DEF WatchOf
<1>7. /\ f \in Views /\ f.failed = FALSE
      /\ \A m \in Number : m # n => f.channels[m] = epoll[0].channels[m]
      /\ f.channels[n] = (IF io = 0 THEN c ELSE "none")
      /\ f.status[c] = (IF io = 0 THEN "kAdded" ELSE "kNew")
      /\ \A d \in Client : d # c => f.status[d] = status[d]
      /\ f.status["listen"] = (IF Direct THEN "kDeleted" ELSE "kAdded")
      /\ ToSet(f.watched) = (ToSet(epoll[0].watched) \union (IF io = 0 THEN {c} ELSE {}))
                              \ (IF Direct THEN {"listen"} ELSE {})
      /\ Distinct(f.watched)
  <2>1. CASE io = 0
    <3> DEFINE e == EnableReading(View(0), c, n)
    <3>1. /\ OnlyThis(View(0), e, c, n)
          /\ e.channels[n] = c /\ e.status[c] = "kAdded"
          /\ ToSet(e.watched) = ToSet(epoll[0].watched) \union {c}
          /\ e.failed = FALSE
      <4>1. View(0).channels[n] = (IF View(0).status[c] = "kNew" THEN "none" ELSE c)
        BY <1>3, <1>4, <1>6
      <4> QED
        BY <1>3, <1>4, <1>6, <4>1, EnableReadingView
    <3> HIDE DEF e
    <3>2. /\ e \in Views /\ Distinct(e.watched)
          /\ \A m \in Number : m # n => e.channels[m] = epoll[0].channels[m]
          /\ \A d \in Channel : d # c => e.status[d] = status[d]
      BY <1>4, <1>6, <3>1 DEF OnlyThis
    <3>3. e.channels[0] = "listen" /\ e.status["listen"] = "kAdded"
      BY <1>3, <1>5, <1>6, <3>2
    <3>4. /\ f \in Views /\ f.channels = e.channels /\ f.failed = e.failed
          /\ \A d \in Channel : d # "listen" => f.status[d] = e.status[d]
          /\ f.status["listen"] = IF Direct THEN "kDeleted" ELSE e.status["listen"]
          /\ ToSet(f.watched) = IF Direct THEN ToSet(e.watched) \ {"listen"} ELSE ToSet(e.watched)
          /\ Distinct(f.watched)
      <4>1. f = AfterEachAccept(e)
        BY <2>1 DEF e
      <4> HIDE DEF f
      <4> QED
        BY <3>2, <3>3, <4>1, AfterEachAcceptView
    <3> HIDE DEF f
    <3> QED
      BY <1>6, <2>1, <3>1, <3>2, <3>3, <3>4
  <2>2. CASE io # 0
    <3>1. f = View(0) /\ ~Direct
      BY <1>3, <2>2 DEF AfterEachAccept
    <3> HIDE DEF f
    <3> QED
      BY <1>3, <1>4, <1>5, <1>6, <2>2, <3>1
  <2> QED
    BY <2>1, <2>2
<1> HIDE DEF f
<1>8. /\ epoll' \in [Loops -> [channels : [Number -> Channel \union {"none"}], watched : Seq(Channel)]]
      /\ status' \in [Channel -> {"kNew", "kAdded", "kDeleted"}]
      /\ epoll'[0].channels = f.channels /\ epoll'[0].watched = f.watched
      /\ \A m \in Loops : m # 0 => epoll'[m] = epoll[m]
      /\ status' = f.status /\ broken' = FALSE
  BY <1>2, <1>6, <1>7, SetViewFields
<1>9. /\ loop' \in [Loops -> LoopStates]
      /\ loop'[0].active = Tail(loop[0].active)
      /\ \A m \in Loops : /\ loop'[m].running = loop[m].running /\ loop'[m].at = loop[m].at
                          /\ Direct => loop'[m].functors = loop[m].functors
                          /\ m # 0 => loop'[m].active = loop[m].active
      /\ OnceIn(Queues')
      /\ \A m \in Loops : \A k, d :
            Within(Queues', m, k, d) <=>
               \/ Within(Queues, m, k, d)
               \/ (io # 0 /\ m = io /\ k = "connectionEstablished" /\ d = c)
  <2> DEFINE h == Handled(0)
  <2>1. /\ h \in [Loops -> LoopStates]
        /\ h[0].active = Tail(loop[0].active) /\ h[0].at = loop[0].at
        /\ \A m \in Loops : /\ h[m].running = loop[m].running
                            /\ h[m].functors = loop[m].functors
                            /\ m # 0 => h[m] = loop[m]
        /\ QueuesOf(h) = Queues
    BY <1>1, <1>6, HandledLoop
  <2> HIDE DEF h
  <2>2. Queues \in Functors /\ OnceIn(Queues)
    BY InvFacts
  <2>3. CASE io = 0
    <3>1. loop' = h /\ Queues' = Queues
      BY <1>2, <2>1, <2>3 DEF h, Queues
    <3> QED
      BY <2>1, <2>2, <2>3, <3>1
  <2>4. CASE io # 0
    <3> DEFINE p == Pushed(h, io, "connectionEstablished", c)
    <3>1. loop' = p
      BY <1>2, <2>4 DEF h
    <3>2. "connectionEstablished" \in Calls
      BY DEF Calls
    <3>3. /\ p \in [Loops -> LoopStates]
          /\ \A m \in Loops : p[m].at = h[m].at /\ p[m].active = h[m].active /\ p[m].running = h[m].running
          /\ QueuesOf(p) = [Queues EXCEPT ![io] = Append(@, <<"connectionEstablished", c>>)]
      BY <1>3, <2>1, <3>2, PushedLoop
    <3> HIDE DEF p
    <3>4. /\ \A m \in Loops : \A k, d : Within(QueuesOf(p), m, k, d) <=>
                Within(Queues, m, k, d) \/ (m = io /\ k = "connectionEstablished" /\ d = c)
          /\ OnceIn(QueuesOf(p))
      <4>1. io \in Loops /\ \A m \in Loops : \A k : ~Within(Queues, m, k, c)
        BY <1>3
      <4>2. QueuesOf(p) = WithFunctor(Queues, io, "connectionEstablished", c)
        BY <3>3 DEF WithFunctor
      <4>3. PICK r : r = QueuesOf(p)
        OBVIOUS
      <4>4. /\ \A m \in Loops : \A k, d : Within(r, m, k, d) <=>
                  Within(Queues, m, k, d) \/ (m = io /\ k = "connectionEstablished" /\ d = c)
            /\ OnceIn(Queues) => OnceIn(r)
        BY <2>2, <3>2, <4>1, <4>2, <4>3, PushFunctor
      <4> QED
        BY <2>2, <4>3, <4>4
    <3>5. Queues' = QueuesOf(p)
      BY <3>1 DEF Queues
    <3>6. ~Direct
      BY <1>3, <2>4
    <3>7. loop' \in [Loops -> LoopStates] /\ loop'[0].active = Tail(loop[0].active)
      BY <1>6, <2>1, <3>1, <3>3
    <3>8. \A m \in Loops :  /\ loop'[m].running = loop[m].running /\ loop'[m].at = loop[m].at
                            /\ Direct => loop'[m].functors = loop[m].functors
                            /\ m # 0 => loop'[m].active = loop[m].active
      BY <1>6, <2>1, <3>1, <3>3, <3>6
    <3>9. /\ OnceIn(Queues')
          /\ \A m \in Loops : \A k, d : Within(Queues', m, k, d) <=>
                Within(Queues, m, k, d) \/ (m = io /\ k = "connectionEstablished" /\ d = c)
      BY <3>4, <3>5
    <3>10. \A m \in Loops : \A k, d :
              Within(Queues', m, k, d) <=>
                 \/ Within(Queues, m, k, d)
                 \/ (io # 0 /\ m = io /\ k = "connectionEstablished" /\ d = c)
      BY <2>4, <3>9
    <3> QED
      BY <3>7, <3>8, <3>9, <3>10
  <2> QED
    BY <2>3, <2>4
<1>10. /\ tcp' \in [Client -> [fd : Number \union {None}, in : Loops]]
       /\ tcp'[c].fd = n /\ tcp'[c].in = io /\ \A d \in Client : d # c => tcp'[d] = tcp[d]
       /\ tcp'[c] = [fd |-> n, in |-> io]
  <2>1. [fd |-> n, in |-> io] \in [fd : Number \union {None}, in : Loops]
    BY <1>3
  <2>2. tcp \in [Client -> [fd : Number \union {None}, in : Loops]]
    BY InvFacts
  <2> QED
    BY <1>2, <2>1, <2>2
<1>11. /\ table' \in [Number -> Channel \union {"free"}]
       /\ table'[n] = c /\ \A m \in Number : m # n => table'[m] = table[m]
  BY <1>2, <1>3, <1>6 DEF SocketsTypeOK
<1>12. SocketsTypeOK'
  <2>1. client' \in [Client -> {"away", "backlog", "open", "talking", "reset", "hung up"}]
    BY <1>2, <1>6 DEF SocketsTypeOK
  <2>2. mapped' \in SUBSET Client /\ kept' \in SUBSET Client /\ next_' \in Loops /\ server' \in Servers
    BY <1>2, <1>3, <1>6 DEF SocketsTypeOK
  <2> QED
    BY <1>8, <1>9, <1>10, <1>11, <2>1, <2>2 DEF SocketsTypeOK, LoopStates
<1>13. FdsInv'
  <2> SUFFICES ASSUME NEW d \in Client, NEW m \in Number PROVE tcp'[d].fd = m <=> table'[m] = d
    BY DEF FdsInv
  <2>1. tcp[d].fd = m <=> table[m] = d
    BY InvFacts DEF FdsInv
  <2>2. tcp[c].fd = m <=> table[m] = c
    BY InvFacts DEF FdsInv
  <2>3. None # m
    BY SocketsAssumption DEF Number, None
  <2> QED
    BY <1>3, <1>10, <1>11, <2>1, <2>2, <2>3
<1>14. ListenInv'
  <2>1. Direct' = Direct
    BY <1>2 DEF Direct
  <2> QED
    BY <1>3, <1>5, <1>6, <1>7, <1>8, <1>11, <2>1 DEF ListenInv
<1>15. \A m \in Loops : WatchOf(m, tcp)' /\ \A k \in Number : EntryOf(m, k, tcp)'
  <2>1. PICK t : t = tcp'
    OBVIOUS
  <2>2. ASSUME NEW ch \in ToSet(f.watched)
        PROVE  f.status[ch] = "kAdded" /\ IF ch = "listen" THEN 0 = 0 ELSE t[ch].in = 0
    <3>1. CASE io = 0 /\ ch = c
      BY <1>6, <1>7, <1>10, <2>1, <3>1
    <3>2. CASE ~(io = 0 /\ ch = c)
      <4>1. ch \in ToSet(epoll[0].watched) /\ (Direct => ch # "listen")
        BY <1>7, <2>2, <3>2
      <4>2. status[ch] = "kAdded" /\ (ch # "listen" => tcp[ch].in = 0)
        BY <1>6, <4>1 DEF WatchOf
      <4>3. ch # c /\ ch \in Channel
        BY <1>3, <4>1, <4>2, InvFacts, InToSet
      <4>4. CASE ch = "listen"
        BY <1>7, <4>1, <4>4
      <4>5. CASE ch # "listen"
        <5>1. ch \in Client
          BY <4>3, <4>5 DEF Channel
        <5> QED
          BY <1>7, <1>10, <2>1, <4>2, <4>3, <4>5, <5>1
      <4> QED
        BY <4>4, <4>5
    <3> QED
      BY <3>1, <3>2
  <2>3. ASSUME NEW k \in Number
        PROVE  /\ f.channels[k] \in Client =>
                     /\ t[f.channels[k]] = [fd |-> k, in |-> 0]
                     /\ f.status[f.channels[k]] # "kNew"
               /\ f.channels[k] = "listen" => 0 = 0 /\ k = 0
    <3>1. CASE k = n
      BY <1>6, <1>7, <1>10, <2>1, <3>1, InvFacts
    <3>2. CASE k # n
      <4>1. EntryOf(0, k, tcp) /\ f.channels[k] = epoll[0].channels[k]
        BY <1>7, <3>2, InvFacts
      <4>2. f.channels[k] # c
        BY <1>3, <4>1 DEF EntryOf
      <4> QED
        BY <1>7, <1>10, <2>1, <4>1, <4>2 DEF EntryOf
    <3> QED
      BY <3>1, <3>2
  <2>4. ASSUME NEW d \in Client, status[d] # "kNew" PROVE t[d] = tcp[d] /\ f.status[d] = status[d]
    BY <1>3, <1>7, <1>10, <2>1, <2>4
  <2>5. f \in Views /\ Distinct(f.watched) /\ SetView(0, f) /\ tcp' = t /\ 0 \in Loops
    BY <1>2, <1>6, <1>7, <2>1
  <2> QED
    BY <2>2, <2>3, <2>4, <2>5, EpollStep
<1>16. ASSUME NEW d \in Client PROVE ConnOf(d, tcp)'
  <2>1. CASE d = c
    <3>1. \A l \in Loops : \A k : Waits(l, k, c)' => io # 0 /\ l = io /\ k = "connectionEstablished"
      BY <1>3, <1>9 DEF Waits
    <3>2. None # n
      BY <1>3, SocketsAssumption DEF Number, None
    <3>3. client'[c] = "open" /\ c \in mapped'
      BY <1>2, <1>6 DEF SocketsTypeOK
    <3>4. status'[c] = (IF io = 0 THEN "kAdded" ELSE "kNew")
      BY <1>7, <1>8
    <3>5. io = 0 => epoll'[tcp'[c].in].channels[tcp'[c].fd] = c
      BY <1>7, <1>8, <1>10
    <3> QED
      BY <1>10, <2>1, <3>1, <3>2, <3>3, <3>4, <3>5 DEF ConnOf
  <2>2. CASE d # c
    <3>1. tcp[d].in \in Loops /\ tcp[d].fd \in Number \union {None} /\ ConnOf(d, tcp)
      BY InvFacts
    <3>2. status'[d] = status[d] /\ tcp'[d] = tcp[d]
      BY <1>7, <1>8, <1>10, <2>2
    <3>3. status[d] # "kNew" => epoll'[tcp[d].in].channels[tcp[d].fd] = epoll[tcp[d].in].channels[tcp[d].fd]
      <4>1. status[d] # "kNew" => tcp[d].fd \in Number /\ tcp[d].fd # n
        BY <1>3, <3>1 DEF ConnOf
      <4>2. CASE tcp[d].in = 0
        BY <1>7, <1>8, <4>1, <4>2
      <4>3. CASE tcp[d].in # 0
        BY <1>8, <3>1, <4>3
      <4> QED
        BY <4>2, <4>3
    <3>4. (d \in mapped' <=> d \in mapped) /\ client'[d] = client[d]
      BY <1>2, <1>6, <2>2 DEF SocketsTypeOK
    <3>5. \A l \in Loops : \A k : Within(Queues', l, k, d) <=> Within(Queues, l, k, d)
      BY <1>9, <2>2
    <3> QED
      BY <3>1, <3>2, <3>3, <3>4, <3>5, OtherConnection
  <2> QED
    BY <2>1, <2>2
<1>17. ChannelsOf(tcp)'
  BY <1>15, <1>16 DEF ChannelsOf
<1>18. ASSUME NEW m \in Loops PROVE RoundInv(m)'
  <2>1. RoundInv(m) /\ Direct' = Direct
    BY <1>2, InvFacts DEF Direct
  <2>2. CASE m # 0
    <3>1. loop'[m].active = loop[m].active /\ epoll'[m] = epoll[m]
      BY <1>8, <1>9, <2>2
    <3> QED
      BY <1>9, <2>1, <3>1 DEF RoundInv
  <2>3. CASE m = 0
    <3>1. ToSet(loop'[0].active) \subseteq ToSet(epoll'[0].watched) /\ Distinct(loop'[0].active)
      BY <1>5, <1>7, <1>8, <1>9
    <3> QED
      BY <1>1, <1>9, <2>1, <2>3, <3>1 DEF RoundInv
  <2> QED
    BY <2>2, <2>3
<1> QED
  BY <1>8, <1>9, <1>12, <1>13, <1>14, <1>17, <1>18 DEF SocketsInv

\* What is known of a connection whose event is the next of a round.
LEMMA HandledFacts ==
    ASSUME SocketsInv, NEW l \in Loops, NEW c \in Client, Handles(l, c)
    PROVE  /\ tcp[c].fd \in Number /\ tcp[c].in = l /\ c \in mapped
           /\ status[c] = "kAdded" /\ epoll[l].channels[tcp[c].fd] = c
           /\ \A m \in Loops : \A k : ~Within(Queues, m, k, c)
           /\ Distinct(Tail(loop[l].active))
           /\ ToSet(Tail(loop[l].active)) \subseteq ToSet(epoll[l].watched) \ {c}
<1>1. loop[l].at = "handling" /\ loop[l].active # << >> /\ Head(loop[l].active) = c
  BY DEF Handles
<1>2. loop[l].active \in Seq(Channel) /\ RoundInv(l) /\ WatchOf(l, tcp) /\ ConnOf(c, tcp) /\ c # "listen"
  BY InvFacts DEF LoopStates
<1>3. /\ c \in ToSet(loop[l].active)
      /\ Distinct(Tail(loop[l].active))
      /\ ToSet(Tail(loop[l].active)) = ToSet(loop[l].active) \ {c}
  BY <1>1, <1>2, TailList DEF RoundInv
<1>4. status[c] = "kAdded" /\ tcp[c].in = l
  BY <1>2, <1>3 DEF RoundInv, WatchOf
<1>5. tcp[c].fd \in Number /\ c \in mapped /\ epoll[l].channels[tcp[c].fd] = c
  <2>1. tcp[c].fd \in Number \union {None}
    BY InvFacts
  <2> QED
    BY <1>2, <1>4, <2>1 DEF ConnOf
<1>6. ASSUME NEW m \in Loops, NEW k PROVE ~Within(Queues, m, k, c)
  <2> SUFFICES ASSUME Within(Queues, m, k, c) PROVE FALSE
    OBVIOUS
  <2>1. k \in Calls
    BY InvFacts, WithinTypes
  <2> QED
    BY <1>2, <1>4, <2>1 DEF ConnOf, Waits, Calls
<1> QED
  BY <1>2, <1>3, <1>4, <1>5, <1>6 DEF RoundInv

LEMMA HandleEndKeeps ==
    ASSUME SocketsInv, NEW l \in Loops, l <= server.numThreads_, NEW c \in Client, HandleEnd(l, c)
    PROVE  SocketsInv'
<1> DEFINE n == tcp[c].fd
           e == DisableAll(View(l), c, n)
           f == IF Direct THEN removeChannel(e, c, n) ELSE e
           call == IF l = 0 THEN "connectionDestroyed" ELSE "removeConnectionInLoop"
<1>1. /\ server' = server /\ next_' = next_ /\ kept' = kept
      /\ client' = [client EXCEPT ![c] = "hung up"]
      /\ SetView(l, f) /\ Handles(l, c)
      /\ mapped' = (IF Direct \/ l = 0 THEN mapped \ {c} ELSE mapped)
      /\ loop' = IF Direct THEN Handled(l) ELSE Pushed(Handled(l), 0, call, c)
      /\ Release(table)
  BY DEF HandleEnd, Erased
<1>2. /\ n \in Number /\ tcp[c].in = l /\ c \in mapped
      /\ status[c] = "kAdded" /\ epoll[l].channels[n] = c
      /\ \A m \in Loops : \A k : ~Within(Queues, m, k, c)
      /\ Distinct(Tail(loop[l].active))
      /\ ToSet(Tail(loop[l].active)) \subseteq ToSet(epoll[l].watched) \ {c}
  BY <1>1, HandledFacts
<1>3. loop[l].at = "handling" /\ loop[l].active # << >>
  BY <1>1 DEF Handles
<1>4. /\ View(l) \in Views /\ View(l).channels = epoll[l].channels
      /\ View(l).watched = epoll[l].watched /\ View(l).status = status /\ View(l).failed = FALSE
  BY InvFacts, ViewIsView DEF View
<1>5. /\ 0 \in Loops /\ 0 \in Number /\ "listen" \notin Client /\ "listen" \in Channel
      /\ c \in Channel /\ Client \subseteq Channel /\ WatchOf(l, tcp) /\ ListenInv
      /\ SocketsTypeOK /\ Distinct(epoll[l].watched)
  BY InvFacts DEF WatchOf
<1>6. Direct => l = 0
  <2>1. server \in Servers
    BY <1>5 DEF SocketsTypeOK
  <2> QED
    BY <2>1, SocketsAssumption DEF Servers, Direct, Loops
<1> HIDE DEF n
<1>7. /\ e \in Views /\ e.channels = epoll[l].channels /\ e.status[c] = "kDeleted"
      /\ \A d \in Channel : d # c => e.status[d] = status[d]
      /\ ToSet(e.watched) = ToSet(epoll[l].watched) \ {c} /\ Distinct(e.watched)
      /\ e.failed = FALSE
  <2>1. /\ OnlyThis(View(l), e, c, n)
        /\ e.channels = View(l).channels /\ e.status[c] = "kDeleted"
        /\ ToSet(e.watched) = ToSet(View(l).watched) \ {c}
        /\ e.failed = View(l).failed
    BY <1>2, <1>4, <1>5, DisableAllView
  <2> HIDE DEF e
  <2> QED
    BY <1>4, <1>5, <2>1 DEF OnlyThis
<1> HIDE DEF e
<1>8. /\ f \in Views /\ f.failed = FALSE
      /\ \A m \in Number : m # n => f.channels[m] = epoll[l].channels[m]
      /\ f.channels[n] = (IF Direct THEN "none" ELSE c)
      /\ f.status[c] = (IF Direct THEN "kNew" ELSE "kDeleted")
      /\ \A d \in Channel : d # c => f.status[d] = status[d]
      /\ ToSet(f.watched) = ToSet(epoll[l].watched) \ {c} /\ Distinct(f.watched)
  <2>1. CASE Direct
    <3>1. f = removeChannel(e, c, n)
      BY <2>1
    <3>2. /\ OnlyThis(e, f, c, n)
          /\ f.channels[n] = "none" /\ f.status[c] = "kNew"
          /\ ToSet(f.watched) = ToSet(e.watched) \ {c}
          /\ f.failed = e.failed
      BY <1>2, <1>5, <1>7, <3>1, RemoveChannelView
    <3> HIDE DEF f
    <3> QED
      BY <1>7, <2>1, <3>2 DEF OnlyThis
  <2>2. CASE ~Direct
    <3>1. f = e
      BY <2>2
    <3> HIDE DEF f
    <3> QED
      BY <1>2, <1>7, <2>2, <3>1
  <2> QED
    BY <2>1, <2>2
<1> HIDE DEF f
<1>9. /\ epoll' \in [Loops -> [channels : [Number -> Channel \union {"none"}], watched : Seq(Channel)]]
      /\ status' \in [Channel -> {"kNew", "kAdded", "kDeleted"}]
      /\ epoll'[l].channels = f.channels /\ epoll'[l].watched = f.watched
      /\ \A m \in Loops : m # l => epoll'[m] = epoll[m]
      /\ status' = f.status /\ broken' = FALSE
  BY <1>1, <1>5, <1>8, SetViewFields
<1>10. call \in Calls
  BY DEF Calls
<1> HIDE DEF call
<1>11. /\ loop' \in [Loops -> LoopStates]
       /\ loop'[l].active = Tail(loop[l].active)
       /\ \A m \in Loops : /\ loop'[m].running = loop[m].running /\ loop'[m].at = loop[m].at
                           /\ Direct => loop'[m].functors = loop[m].functors
                           /\ m # l => loop'[m].active = loop[m].active
       /\ OnceIn(Queues')
       /\ \A m \in Loops : \A k, d :
             Within(Queues', m, k, d) <=>
                \/ Within(Queues, m, k, d)
                \/ (~Direct /\ m = 0 /\ k = call /\ d = c)
  <2> DEFINE h == Handled(l)
  <2>1. /\ h \in [Loops -> LoopStates]
        /\ h[l].active = Tail(loop[l].active) /\ h[l].at = loop[l].at
        /\ \A m \in Loops : /\ h[m].running = loop[m].running
                            /\ h[m].functors = loop[m].functors
                            /\ m # l => h[m] = loop[m]
        /\ QueuesOf(h) = Queues
    BY <1>3, <1>5, HandledLoop
  <2> HIDE DEF h
  <2>2. Queues \in Functors /\ OnceIn(Queues)
    BY InvFacts
  <2>3. CASE Direct
    <3>1. loop' = h /\ Queues' = Queues
      BY <1>1, <2>1, <2>3 DEF h, Queues
    <3> QED
      BY <2>1, <2>2, <2>3, <3>1
  <2>4. CASE ~Direct
    <3> DEFINE p == Pushed(h, 0, call, c)
    <3>1. loop' = p
      BY <1>1, <2>4 DEF h
    <3>2. /\ p \in [Loops -> LoopStates]
          /\ \A m \in Loops : p[m].at = h[m].at /\ p[m].active = h[m].active /\ p[m].running = h[m].running
          /\ QueuesOf(p) = [Queues EXCEPT ![0] = Append(@, <<call, c>>)]
      BY <1>5, <1>10, <2>1, PushedLoop
    <3> HIDE DEF p
    <3>3. PICK r : r = QueuesOf(p)
      OBVIOUS
    <3>4. r = WithFunctor(Queues, 0, call, c)
      BY <3>2, <3>3 DEF WithFunctor
    <3>5. \A m \in Loops : \A k : ~Within(Queues, m, k, c)
      BY <1>2
    <3>6. /\ \A m \in Loops : \A k, d : Within(r, m, k, d) <=>
                Within(Queues, m, k, d) \/ (m = 0 /\ k = call /\ d = c)
          /\ OnceIn(Queues) => OnceIn(r)
      BY <1>5, <1>10, <2>2, <3>4, <3>5, PushFunctor
    <3>7. Queues' = r
      BY <3>1, <3>3 DEF Queues
    <3>8. loop' \in [Loops -> LoopStates] /\ loop'[l].active = Tail(loop[l].active)
      BY <2>1, <3>1, <3>2
    <3>9. \A m \in Loops :  /\ loop'[m].running = loop[m].running /\ loop'[m].at = loop[m].at
                            /\ Direct => loop'[m].functors = loop[m].functors
                            /\ m # l => loop'[m].active = loop[m].active
      BY <2>1, <2>4, <3>1, <3>2
    <3>10. OnceIn(Queues')
      BY <2>2, <3>6, <3>7
    <3>11. \A m \in Loops : \A k, d :
              Within(Queues', m, k, d) <=>
                 \/ Within(Queues, m, k, d)
                 \/ (~Direct /\ m = 0 /\ k = call /\ d = c)
      BY <2>4, <3>6, <3>7
    <3> QED
      BY <3>8, <3>9, <3>10, <3>11
  <2> QED
    BY <2>3, <2>4
<1>12. /\ table' \in [Number -> Channel \union {"free"}]
       /\ tcp' \in [Client -> [fd : Number \union {None}, in : Loops]]
       /\ FdsInv' /\ table'[0] = "listen"
       /\ \A d \in Client : /\ tcp'[d].in = tcp[d].in
                            /\ tcp'[d] = tcp[d] \/ (tcp'[d].fd = None /\ ~Held(d)')
  BY <1>1, ReleaseFacts, InvFacts DEF ListenInv
<1>13. /\ client' \in [Client -> {"away", "backlog", "open", "talking", "reset", "hung up"}]
       /\ client'[c] = "hung up" /\ \A d \in Client : d # c => client'[d] = client[d]
  BY <1>1, <1>5 DEF SocketsTypeOK
<1>14. SocketsTypeOK'
  <2>1. mapped' \in SUBSET Client /\ kept' \in SUBSET Client /\ next_' \in Loops /\ server' \in Servers
    BY <1>1, <1>5 DEF SocketsTypeOK
  <2> QED
    BY <1>9, <1>11, <1>12, <1>13, <2>1 DEF SocketsTypeOK, LoopStates
<1>15. ListenInv'
  <2>1. Direct' = Direct
    BY <1>1 DEF Direct
  <2>2. n # 0
    BY <1>2, <1>5, InvFacts DEF FdsInv, ListenInv, n
  <2>3. status'["listen"] = status["listen"]
    BY <1>5, <1>8, <1>9
  <2>4. epoll'[0].channels[0] = epoll[0].channels[0]
    BY <1>5, <1>8, <1>9, <2>2
  <2> QED
    BY <1>5, <1>12, <2>1, <2>3, <2>4 DEF ListenInv
<1>16. PICK t : t = tcp
  OBVIOUS
<1>17. \A m \in Loops : WatchOf(m, t)' /\ \A k \in Number : EntryOf(m, k, t)'
  <2>1. ASSUME NEW ch \in ToSet(f.watched)
        PROVE  f.status[ch] = "kAdded" /\ IF ch = "listen" THEN l = 0 ELSE t[ch].in = l
    <3>1. ch \in ToSet(epoll[l].watched) /\ ch # c
      BY <1>8, <2>1
    <3>2. ch \in Channel
      BY <3>1, InvFacts, InToSet
    <3>3. status[ch] = "kAdded" /\ IF ch = "listen" THEN l = 0 ELSE tcp[ch].in = l
      BY <1>5, <3>1 DEF WatchOf
    <3> QED
      BY <1>8, <1>16, <3>1, <3>2, <3>3
  <2>2. ASSUME NEW k \in Number
        PROVE  /\ f.channels[k] \in Client =>
                     /\ t[f.channels[k]] = [fd |-> k, in |-> l]
                     /\ f.status[f.channels[k]] # "kNew"
               /\ f.channels[k] = "listen" => l = 0 /\ k = 0
    <3>1. EntryOf(l, k, tcp)
      BY InvFacts
    <3>2. CASE k = n
      <4>1. f.channels[k] \in Client => ~Direct /\ f.channels[k] = c /\ epoll[l].channels[k] = c
        BY <1>2, <1>8, <3>2, InvFacts
      <4>2. f.channels[k] # "listen"
        BY <1>5, <1>8, <3>2
      <4> QED
        BY <1>8, <1>16, <3>1, <4>1, <4>2 DEF EntryOf
    <3>3. CASE k # n
      <4>1. f.channels[k] = epoll[l].channels[k]
        BY <1>8, <3>3
      <4>2. f.channels[k] # c
        BY <3>1, <3>3, <4>1 DEF EntryOf, n
      <4> QED
        BY <1>5, <1>8, <1>16, <3>1, <4>1, <4>2 DEF EntryOf
    <3> QED
      BY <3>2, <3>3
  <2>3. ASSUME NEW d \in Client, tcp[d].in # l PROVE t[d] = tcp[d] /\ f.status[d] = status[d]
    BY <1>2, <1>5, <1>8, <1>16, <2>3
  <2>4. f.status["listen"] = status["listen"]
    BY <1>5, <1>8
  <2>5. f \in Views /\ Distinct(f.watched) /\ SetView(l, f)
    BY <1>1, <1>8
  <2> QED
    BY <2>1, <2>2, <2>3, <2>4, <2>5, EpollStep
<1>18. ASSUME NEW d \in Client PROVE ConnOf(d, t)'
  <2>1. CASE d = c
    <3>1. \A m \in Loops : \A k : Waits(m, k, c)' <=> (~Direct /\ m = 0 /\ k = call)
      BY <1>2, <1>11 DEF Waits
    <3>2. None # n /\ t[c].fd = n /\ t[c].in = l
      BY <1>2, <1>16, SocketsAssumption DEF Number, None, n
    <3>3. status'[c] = (IF Direct THEN "kNew" ELSE "kDeleted")
      BY <1>8, <1>9
    <3>4. ~Direct => epoll'[t[c].in].channels[t[c].fd] = c
      BY <1>8, <1>9, <3>2
    <3>5. c \in mapped' <=> ~Direct /\ l # 0
      BY <1>1, <1>2
    <3>6. call = (IF l = 0 THEN "connectionDestroyed" ELSE "removeConnectionInLoop")
      BY DEF call
    <3>7. ConnOf(c, t)'
      <4>1. client'[c] = "hung up"
        BY <1>13
      <4>2. CASE Direct
        BY <3>1, <3>3, <3>5, <4>1, <4>2 DEF ConnOf
      <4>3. CASE ~Direct /\ l = 0
        <5>1. /\ Waits(0, "connectionDestroyed", c)'
              /\ \A m \in Loops : /\ ~Waits(m, "connectionEstablished", c)'
                                  /\ ~Waits(m, "removeConnectionInLoop", c)'
                                  /\ Waits(m, "connectionDestroyed", c)' => m = 0
          BY <1>5, <3>1, <3>6, <4>3
        <5>2. status'[c] = "kDeleted" /\ c \notin mapped' /\ t[c].in = 0 /\ t[c].fd # None
          BY <3>2, <3>3, <3>5, <4>3
        <5> QED
          BY <3>4, <4>1, <4>3, <5>1, <5>2 DEF ConnOf
      <4>4. CASE ~Direct /\ l # 0
        <5>1. /\ Waits(0, "removeConnectionInLoop", c)'
              /\ \A m \in Loops : /\ ~Waits(m, "connectionEstablished", c)'
                                  /\ Waits(m, "removeConnectionInLoop", c)' => m = 0
                                  /\ ~Waits(m, "connectionDestroyed", c)'
          BY <1>5, <3>1, <3>6, <4>4
        <5>2. status'[c] = "kDeleted" /\ c \in mapped' /\ t[c].fd # None
          BY <3>2, <3>3, <3>5, <4>4
        <5> QED
          BY <3>4, <4>1, <4>4, <5>1, <5>2 DEF ConnOf
      <4> QED
        BY <1>6, <4>2, <4>3, <4>4
    <3> QED
      BY <2>1, <3>7
  <2>2. CASE d # c
    <3>1. tcp[d].in \in Loops /\ tcp[d].fd \in Number \union {None} /\ ConnOf(d, tcp)
      BY InvFacts
    <3>2. status'[d] = status[d] /\ t[d] = tcp[d]
      BY <1>5, <1>8, <1>9, <1>16, <2>2
    <3>3. status[d] # "kNew" => epoll'[tcp[d].in].channels[tcp[d].fd] = epoll[tcp[d].in].channels[tcp[d].fd]
      <4>1. status[d] # "kNew" => tcp[d].fd \in Number
        BY <3>1 DEF ConnOf
      <4>2. tcp[d].fd # n
        BY <1>2, <2>2, InvFacts DEF FdsInv, n
      <4>3. CASE tcp[d].in = l
        BY <1>8, <1>9, <4>1, <4>2, <4>3
      <4>4. CASE tcp[d].in # l
        BY <1>9, <3>1, <4>4
      <4> QED
        BY <4>3, <4>4
    <3>4. (d \in mapped' <=> d \in mapped) /\ client'[d] = client[d]
      BY <1>1, <1>13, <2>2
    <3>5. \A m \in Loops : \A k : Within(Queues', m, k, d) <=> Within(Queues, m, k, d)
      BY <1>11, <2>2
    <3> QED
      BY <3>1, <3>2, <3>3, <3>4, <3>5, OtherConnection
  <2> QED
    BY <2>1, <2>2
<1>19. ChannelsOf(t)'
  BY <1>17, <1>18 DEF ChannelsOf
<1>20. ChannelsOf(tcp)'
  BY <1>12, <1>14, <1>16, <1>19, ChannelsAfterRelease
<1>21. ASSUME NEW m \in Loops PROVE RoundInv(m)'
  <2>1. RoundInv(m) /\ Direct' = Direct
    BY <1>1, InvFacts DEF Direct
  <2>2. CASE m # l
    <3>1. loop'[m].active = loop[m].active /\ epoll'[m] = epoll[m]
      BY <1>9, <1>11, <2>2
    <3> QED
      BY <1>11, <2>1, <3>1 DEF RoundInv
  <2>3. CASE m = l
    <3>1. ToSet(loop'[l].active) \subseteq ToSet(epoll'[l].watched) /\ Distinct(loop'[l].active)
      BY <1>2, <1>8, <1>9, <1>11
    <3> QED
      BY <1>3, <1>11, <2>1, <2>3, <3>1 DEF RoundInv
  <2> QED
    BY <2>2, <2>3
<1> QED
  BY <1>9, <1>11, <1>12, <1>14, <1>15, <1>20, <1>21 DEF SocketsInv

\* What Call leaves of the functors, and what is left alone by each of them.
LEMMA CallFacts ==
    ASSUME SocketsInv, NEW l \in Loops, loop[l].at = "calling", loop[l].running # << >>
    PROVE  LET call == Head(loop[l].running)[1]
               c == Head(loop[l].running)[2]
               q == QueuesOf(Taken(l))
           IN  /\ call \in Calls /\ c \in Client /\ ~Direct
               /\ Within(Queues, l, call, c)
               /\ Taken(l) \in [Loops -> LoopStates]
               /\ \A m \in Loops : /\ Taken(l)[m].at = loop[m].at
                                   /\ Taken(l)[m].active = loop[m].active
                                   /\ m # l => Taken(l)[m].running = loop[m].running
               /\ q \in Functors /\ OnceIn(q)
               /\ \A m \in Loops : \A k, d : Within(q, m, k, d) <=> Within(Queues, m, k, d) /\ d # c
<1>1. /\ Taken(l) \in [Loops -> LoopStates]
      /\ \A m \in Loops : /\ Taken(l)[m].at = loop[m].at
                          /\ Taken(l)[m].active = loop[m].active
                          /\ Taken(l)[m].functors = loop[m].functors
                          /\ m # l => Taken(l)[m] = loop[m]
      /\ Queues \in Functors /\ Queues[l] # << >>
      /\ Head(Queues[l]) = Head(loop[l].running)
      /\ QueuesOf(Taken(l)) = [Queues EXCEPT ![l] = Tail(@)]
  BY InvFacts, TakenLoop
<1>2. PICK r : r = QueuesOf(Taken(l))
  OBVIOUS
<1>3. r = WithoutFirst(Queues, l)
  BY <1>1, <1>2 DEF WithoutFirst
<1>4. PICK x : x = Head(Queues[l])
  OBVIOUS
<1>5. Queues \in Functors /\ Queues[l] # << >> /\ OnceIn(Queues)
  BY <1>1, InvFacts
<1>6. /\ r \in Functors /\ OnceIn(r) /\ x \in Calls \X Client /\ Within(Queues, l, x[1], x[2])
      /\ \A m \in Loops : \A k, d : Within(r, m, k, d) <=> Within(Queues, m, k, d) /\ d # x[2]
  BY <1>3, <1>4, <1>5, PopFunctor
<1>7. x[1] \in Calls /\ x[2] \in Client
  BY <1>6
<1>8. ~Direct
  BY InvFacts DEF RoundInv
<1>9. x = Head(loop[l].running)
  BY <1>1, <1>4
<1>10. /\ Head(loop[l].running)[1] \in Calls /\ Head(loop[l].running)[2] \in Client
       /\ Within(Queues, l, Head(loop[l].running)[1], Head(loop[l].running)[2])
  BY <1>6, <1>7, <1>9, Zenon
<1>11. /\ QueuesOf(Taken(l)) \in Functors /\ OnceIn(QueuesOf(Taken(l)))
       /\ \A m \in Loops : \A k, d :
             Within(QueuesOf(Taken(l)), m, k, d) <=>
                 Within(Queues, m, k, d) /\ d # Head(loop[l].running)[2]
  BY <1>2, <1>6, <1>9, Zenon
<1>12. /\ Taken(l) \in [Loops -> LoopStates]
       /\ \A m \in Loops : /\ Taken(l)[m].at = loop[m].at
                           /\ Taken(l)[m].active = loop[m].active
                           /\ m # l => Taken(l)[m].running = loop[m].running
  BY <1>1
<1> QED
  BY <1>8, <1>10, <1>11, <1>12, Zenon

\* A functor changes one connection c, at its number, in the Epoll of its loop: e is its view.
LEMMA CallKeepsChannels ==
    ASSUME SocketsInv, NEW l \in Loops, NEW c \in Client, NEW e \in Views, SetView(l, e),
           OnlyThis(View(l), e, c, tcp[c].fd), tcp' = tcp, tcp[c].in = l, tcp[c].fd \in Number,
           client' = client,
           \/ /\ e.channels[tcp[c].fd] = c /\ e.status[c] = "kAdded"
              /\ ToSet(e.watched) = ToSet(epoll[l].watched) \union {c}
           \/ /\ e.channels[tcp[c].fd] = "none" /\ e.status[c] = "kNew"
              /\ ToSet(e.watched) = ToSet(epoll[l].watched) \ {c},
           \A d \in Client : d # c =>
              /\ d \in mapped' <=> d \in mapped
              /\ \A m \in Loops : \A k : Within(Queues', m, k, d) <=> Within(Queues, m, k, d),
           ConnOf(c, tcp)'
    PROVE  ChannelsOf(tcp)'
<1> DEFINE n == tcp[c].fd
<1>1. /\ View(l).channels = epoll[l].channels /\ View(l).watched = epoll[l].watched
      /\ View(l).status = status
  BY InvFacts, ViewIsView DEF View
<1>2. /\ c \in Channel /\ Client \subseteq Channel /\ "listen" \in Channel /\ "listen" \notin Client
      /\ "none" \notin Client /\ WatchOf(l, tcp) /\ SocketsTypeOK
  BY InvFacts
<1> HIDE DEF n
<1>3. /\ \A m \in Number : m # n => e.channels[m] = epoll[l].channels[m]
      /\ \A d \in Channel : d # c => e.status[d] = status[d]
      /\ Distinct(e.watched)
  BY <1>1, <1>2 DEF OnlyThis, WatchOf, n
<1>4. /\ epoll'[l].channels = e.channels /\ epoll'[l].watched = e.watched
      /\ \A m \in Loops : m # l => epoll'[m] = epoll[m]
      /\ status' = e.status
  BY <1>2, SetViewFields
<1>5. \A m \in Loops : WatchOf(m, tcp)' /\ \A k \in Number : EntryOf(m, k, tcp)'
  <2>1. PICK t : t = tcp
    OBVIOUS
  <2>2. ASSUME NEW ch \in ToSet(e.watched)
        PROVE  e.status[ch] = "kAdded" /\ IF ch = "listen" THEN l = 0 ELSE t[ch].in = l
    <3>1. CASE ch = c
      BY <1>2, <2>1, <2>2, <3>1
    <3>2. CASE ch # c
      <4>1. ch \in ToSet(epoll[l].watched)
        BY <2>2, <3>2
      <4>2. ch \in Channel
        BY <4>1, InvFacts, InToSet
      <4>3. status[ch] = "kAdded" /\ IF ch = "listen" THEN l = 0 ELSE tcp[ch].in = l
        BY <1>2, <4>1 DEF WatchOf
      <4> QED
        BY <1>3, <2>1, <3>2, <4>2, <4>3
    <3> QED
      BY <3>1, <3>2
  <2>3. ASSUME NEW k \in Number
        PROVE  /\ e.channels[k] \in Client =>
                     /\ t[e.channels[k]] = [fd |-> k, in |-> l]
                     /\ e.status[e.channels[k]] # "kNew"
               /\ e.channels[k] = "listen" => l = 0 /\ k = 0
    <3>1. EntryOf(l, k, tcp)
      BY InvFacts
    <3>2. CASE k = n
      <4>1. e.channels[k] \in Client => e.channels[k] = c /\ e.status[c] = "kAdded"
        BY <1>2, <3>2 DEF n
      <4>2. e.channels[k] # "listen"
        BY <1>2, <3>2 DEF n
      <4>3. tcp[c] = [fd |-> k, in |-> l]
        <5>1. tcp[c] \in [fd : Number \union {None}, in : Loops]
          BY InvFacts
        <5> QED
          BY <3>2, <5>1 DEF n
      <4> QED
        BY <2>1, <4>1, <4>2, <4>3
    <3>3. CASE k # n
      <4>1. e.channels[k] = epoll[l].channels[k]
        BY <1>3, <3>3
      <4>2. e.channels[k] # c
        BY <3>1, <3>3, <4>1 DEF EntryOf, n
      <4> QED
        BY <1>2, <1>3, <2>1, <3>1, <4>1, <4>2 DEF EntryOf
    <3> QED
      BY <3>2, <3>3
  <2>4. ASSUME NEW d \in Client, tcp[d].in # l PROVE t[d] = tcp[d] /\ e.status[d] = status[d]
    BY <1>2, <1>3, <2>1, <2>4
  <2>5. e.status["listen"] = status["listen"] /\ tcp' = t
    BY <1>2, <1>3, <2>1
  <2> QED
    BY <1>3, <2>2, <2>3, <2>4, <2>5, EpollStep
<1>6. ASSUME NEW d \in Client PROVE ConnOf(d, tcp)'
  <2>1. CASE d = c
    BY <2>1
  <2>2. CASE d # c
    <3>1. tcp[d].in \in Loops /\ tcp[d].fd \in Number \union {None} /\ ConnOf(d, tcp)
      BY InvFacts
    <3>2. status'[d] = status[d] /\ tcp'[d] = tcp[d]
      BY <1>2, <1>3, <1>4, <2>2
    <3>3. status[d] # "kNew" => epoll'[tcp[d].in].channels[tcp[d].fd] = epoll[tcp[d].in].channels[tcp[d].fd]
      <4>1. status[d] # "kNew" => tcp[d].fd \in Number
        BY <3>1 DEF ConnOf
      <4>2. tcp[d].fd # n
        <5>1. FdsInv /\ tcp[c].fd \in Number
          BY InvFacts
        <5> QED
          BY <2>2, <5>1 DEF FdsInv, n
      <4>3. CASE tcp[d].in = l
        BY <1>3, <1>4, <4>1, <4>2, <4>3
      <4>4. CASE tcp[d].in # l
        BY <1>4, <3>1, <4>4
      <4> QED
        BY <4>3, <4>4
    <3> QED
      BY <2>2, <3>1, <3>2, <3>3, OtherConnection
  <2> QED
    BY <2>1, <2>2
<1> QED
  BY <1>5, <1>6 DEF ChannelsOf

LEMMA CallKeeps ==
    ASSUME SocketsInv, NEW l \in Loops, Call(l)
    PROVE  SocketsInv'
<1>0. PICK call, c, lp : /\ call = Head(loop[l].running)[1]
                        /\ c = Head(loop[l].running)[2]
                        /\ lp = Taken(l)
  OBVIOUS
<1>1. /\ loop[l].at = "calling" /\ loop[l].running # << >>
      /\ server' = server /\ table' = table /\ tcp' = tcp /\ client' = client /\ next_' = next_
  BY DEF Call
<1>2. /\ call \in Calls /\ c \in Client /\ ~Direct
      /\ Within(Queues, l, call, c)
      /\ lp \in [Loops -> LoopStates]
      /\ \A m \in Loops : /\ lp[m].at = loop[m].at
                          /\ lp[m].active = loop[m].active
                          /\ m # l => lp[m].running = loop[m].running
      /\ QueuesOf(lp) \in Functors /\ OnceIn(QueuesOf(lp))
      /\ \A m \in Loops : \A k, d : Within(QueuesOf(lp), m, k, d) <=> Within(Queues, m, k, d) /\ d # c
  BY <1>0, <1>1, CallFacts
<1>3. \/ /\ call = "connectionEstablished"
         /\ SetView(l, EnableReading(View(l), c, tcp[c].fd))
         /\ (kept' = kept \/ (c \in Busy /\ kept' = kept \union {c}))
         /\ loop' = lp
         /\ mapped' = mapped
      \/ /\ call = "removeConnectionInLoop"
         /\ mapped' = mapped \ {c}
         /\ loop' = Pushed(lp, tcp[c].in, "connectionDestroyed", c)
         /\ epoll' = epoll /\ status' = status /\ kept' = kept /\ broken' = broken
      \/ /\ call = "connectionDestroyed"
         /\ SetView(l, removeChannel(View(l), c, tcp[c].fd))
         /\ loop' = lp
         /\ mapped' = mapped /\ kept' = kept
  BY <1>0 DEF Call, ConnectionCallback, Erased, Taken
<1>4. /\ tcp[c].fd \in Number \union {None} /\ tcp[c].in \in Loops /\ ConnOf(c, tcp) /\ c \in Channel
      /\ SocketsTypeOK /\ ListenInv /\ Client \subseteq Channel /\ 0 \in Loops /\ 0 \in Number
      /\ "listen" \notin Client /\ "listen" \in Channel
  BY <1>2, InvFacts
<1>5. Waits(l, call, c)
  BY <1>2 DEF Waits
<1>6. /\ View(l) \in Views /\ View(l).channels = epoll[l].channels
      /\ View(l).watched = epoll[l].watched /\ View(l).status = status /\ View(l).failed = FALSE
  BY InvFacts, ViewIsView DEF View
<1>7. tcp[c].fd # 0
  BY <1>2, <1>4, InvFacts DEF FdsInv, ListenInv
<1>8. None \notin Number
  BY SocketsAssumption DEF Number, None
<1>9. FdsInv' /\ Direct' = Direct
  BY <1>1, InvFacts DEF FdsInv, Direct
<1>10. SUFFICES /\ loop' \in [Loops -> LoopStates]
                /\ epoll' \in [Loops -> [channels : [Number -> Channel \union {"none"}], watched : Seq(Channel)]]
                /\ status' \in [Channel -> {"kNew", "kAdded", "kDeleted"}]
                /\ mapped' \in SUBSET Client /\ kept' \in SUBSET Client
                /\ broken' = FALSE
                /\ ListenInv'
                /\ ChannelsOf(tcp)'
                /\ OnceIn(Queues')
                /\ \A m \in Loops : /\ loop'[m].at = loop[m].at
                                    /\ loop'[m].active = loop[m].active
                                    /\ m # l => loop'[m].running = loop[m].running
                                    /\ epoll'[m].watched = epoll[m].watched \/ m = l
  <2>1. SocketsTypeOK'
    BY <1>1, <1>4, <1>10 DEF SocketsTypeOK, LoopStates
  <2>2. ASSUME NEW m \in Loops PROVE RoundInv(m)'
    <3>1. RoundInv(m) /\ RoundInv(l)
      BY InvFacts
    <3>2. CASE m # l
      BY <1>2, <1>9, <1>10, <3>1, <3>2 DEF RoundInv
    <3>3. CASE m = l
      <4>1. loop'[m].active = << >> /\ loop'[m].at = "calling"
        BY <1>1, <1>10, <3>1, <3>3 DEF RoundInv
      <4> QED
        BY <1>2, <1>9, <4>1, EmptyList DEF RoundInv
    <3> QED
      BY <3>2, <3>3
  <2> QED
    BY <1>9, <1>10, <2>1, <2>2 DEF SocketsInv
<1>11. CASE call = "connectionEstablished"
  <2>0. PICK e : e = EnableReading(View(l), c, tcp[c].fd)
    OBVIOUS
  <2>1. /\ SetView(l, e) /\ loop' = lp /\ mapped' = mapped
        /\ (kept' = kept \/ (c \in Busy /\ kept' = kept \union {c}))
    BY <1>3, <1>11, <2>0
  <2>2. tcp[c].in = l /\ status[c] = "kNew" /\ c \in mapped /\ tcp[c].fd \in Number
    BY <1>4, <1>5, <1>8, <1>11 DEF ConnOf
  <2>3. epoll[l].channels[tcp[c].fd] = "none"
    <3>1. /\ EntryOf(l, tcp[c].fd, tcp)
          /\ epoll[l].channels[tcp[c].fd] \in Channel \union {"none"}
      BY <2>2, InvFacts
    <3>2. epoll[l].channels[tcp[c].fd] # "listen"
      BY <1>7, <3>1 DEF EntryOf
    <3>3. epoll[l].channels[tcp[c].fd] \notin Client
      <4> SUFFICES ASSUME NEW d \in Client, epoll[l].channels[tcp[c].fd] = d PROVE FALSE
        OBVIOUS
      <4>1. tcp[d].fd = tcp[c].fd /\ status[d] # "kNew"
        BY <3>1 DEF EntryOf
      <4>2. table[tcp[c].fd] = d /\ table[tcp[c].fd] = c
        BY <1>2, <2>2, <4>1, InvFacts DEF FdsInv
      <4> QED
        BY <2>2, <4>1, <4>2
    <3> QED
      BY <3>1, <3>2, <3>3 DEF Channel
  <2>4. /\ OnlyThis(View(l), e, c, tcp[c].fd)
        /\ e.channels[tcp[c].fd] = c /\ e.status[c] = "kAdded"
        /\ ToSet(e.watched) = ToSet(View(l).watched) \union {c}
        /\ e.failed = FALSE
    <3>1. View(l).channels[tcp[c].fd] = (IF View(l).status[c] = "kNew" THEN "none" ELSE c)
      BY <1>6, <2>2, <2>3
    <3> QED
      BY <1>4, <1>6, <2>0, <2>2, <3>1, EnableReadingView
  <2>5. e \in Views
    BY <2>4 DEF OnlyThis
  <2>6. /\ epoll' \in [Loops -> [channels : [Number -> Channel \union {"none"}], watched : Seq(Channel)]]
        /\ status' \in [Channel -> {"kNew", "kAdded", "kDeleted"}]
        /\ epoll'[l].channels = e.channels /\ epoll'[l].watched = e.watched
        /\ \A m \in Loops : m # l => epoll'[m] = epoll[m]
        /\ status' = e.status /\ broken' = FALSE
    BY <1>4, <2>1, <2>4, <2>5, SetViewFields
  <2>7. Queues' = QueuesOf(lp)
    BY <2>1 DEF Queues
  <2>8. ConnOf(c, tcp)'
    <3>1. \A m \in Loops : \A k : ~Waits(m, k, c)'
      BY <1>2, <2>7 DEF Waits
    <3>2. status'[c] = "kAdded" /\ epoll'[tcp[c].in].channels[tcp[c].fd] = c
      BY <2>2, <2>4, <2>6
    <3>3. tcp' = tcp /\ client'[c] = client[c] /\ tcp[c].fd # None /\ c \in mapped'
      BY <1>1, <1>8, <2>1, <2>2
    <3> QED
      BY <1>4, <3>1, <3>2, <3>3 DEF ConnOf
  <2>9. \A d \in Client : d # c =>
           /\ d \in mapped' <=> d \in mapped
           /\ \A m \in Loops : \A k : Within(Queues', m, k, d) <=> Within(Queues, m, k, d)
    BY <1>2, <2>1, <2>7
  <2>10. ChannelsOf(tcp)'
    <3>1. /\ c \in Client /\ SetView(l, e) /\ tcp' = tcp /\ tcp[c].in = l /\ client' = client
          /\ tcp[c].fd \in Number
      BY <1>1, <1>2, <2>1, <2>2
    <3>2. ToSet(e.watched) = ToSet(epoll[l].watched) \union {c}
      BY <1>6, <2>4
    <3>3. OnlyThis(View(l), e, c, tcp[c].fd)
      BY <2>4
    <3>4. \/ /\ e.channels[tcp[c].fd] = c /\ e.status[c] = "kAdded"
             /\ ToSet(e.watched) = ToSet(epoll[l].watched) \union {c}
          \/ /\ e.channels[tcp[c].fd] = "none" /\ e.status[c] = "kNew"
             /\ ToSet(e.watched) = ToSet(epoll[l].watched) \ {c}
      BY <2>4, <3>2
    <3> QED
      BY <2>5, <2>8, <2>9, <3>1, <3>3, <3>4, CallKeepsChannels
  <2>11. ListenInv'
    <3>1. status'["listen"] = status["listen"] /\ epoll'[0].channels[0] = epoll[0].channels[0]
      <4>1. /\ \A m \in Number : m # tcp[c].fd => e.channels[m] = epoll[l].channels[m]
            /\ \A ch \in Channel : ch # c => e.status[ch] = status[ch]
        BY <1>6, <2>4 DEF OnlyThis
      <4>2. e.channels[0] = epoll[l].channels[0]
        BY <1>4, <1>7, <4>1
      <4>3. c # "listen"
        BY <1>2, <1>4
      <4>4. status'["listen"] = status["listen"]
        BY <1>4, <2>6, <4>1, <4>3
      <4>5. epoll'[0].channels[0] = epoll[0].channels[0]
        BY <1>4, <2>6, <4>2
      <4> QED
        BY <4>4, <4>5
    <3> QED
      BY <1>1, <1>4, <1>9, <3>1 DEF ListenInv
  <2>12. mapped' \in SUBSET Client /\ kept' \in SUBSET Client
    BY <1>2, <1>4, <2>1 DEF SocketsTypeOK
  <2> QED
    BY <1>2, <2>1, <2>6, <2>7, <2>10, <2>11, <2>12
<1>12. CASE call = "connectionDestroyed"
  <2>0. PICK e : e = removeChannel(View(l), c, tcp[c].fd)
    OBVIOUS
  <2>1. /\ SetView(l, e) /\ loop' = lp /\ mapped' = mapped /\ kept' = kept
    BY <1>3, <1>12, <2>0
  <2>2. tcp[c].in = l /\ status[c] = "kDeleted" /\ c \notin mapped /\ tcp[c].fd \in Number
    BY <1>4, <1>5, <1>8, <1>12 DEF ConnOf
  <2>3. /\ OnlyThis(View(l), e, c, tcp[c].fd)
        /\ e.channels[tcp[c].fd] = "none" /\ e.status[c] = "kNew"
        /\ ToSet(e.watched) = ToSet(View(l).watched) \ {c}
        /\ e.failed = FALSE
    <3>1. View(l) \in Views /\ c \in Channel /\ tcp[c].fd \in Number /\ View(l).failed = FALSE
      BY <1>4, <1>6, <2>2
    <3> QED
      BY <2>0, <3>1, RemoveChannelView
  <2>4. e \in Views
    BY <2>3 DEF OnlyThis
  <2>5. /\ epoll' \in [Loops -> [channels : [Number -> Channel \union {"none"}], watched : Seq(Channel)]]
        /\ status' \in [Channel -> {"kNew", "kAdded", "kDeleted"}]
        /\ epoll'[l].channels = e.channels /\ epoll'[l].watched = e.watched
        /\ \A m \in Loops : m # l => epoll'[m] = epoll[m]
        /\ status' = e.status /\ broken' = FALSE
    BY <1>4, <2>1, <2>3, <2>4, SetViewFields
  <2>6. Queues' = QueuesOf(lp)
    BY <2>1 DEF Queues
  <2>7. ConnOf(c, tcp)'
    <3>1. \A m \in Loops : \A k : ~Waits(m, k, c)'
      BY <1>2, <2>6 DEF Waits
    <3>2. status'[c] = "kNew"
      BY <2>3, <2>5
    <3>3. tcp' = tcp /\ client'[c] = client[c] /\ tcp[c].fd # None /\ c \notin mapped'
      BY <1>1, <1>8, <2>1, <2>2
    <3> QED
      BY <1>4, <3>1, <3>2, <3>3 DEF ConnOf
  <2>8. \A d \in Client : d # c =>
           /\ d \in mapped' <=> d \in mapped
           /\ \A m \in Loops : \A k : Within(Queues', m, k, d) <=> Within(Queues, m, k, d)
    BY <1>2, <2>1, <2>6
  <2>9. ChannelsOf(tcp)'
    <3>1. /\ c \in Client /\ SetView(l, e) /\ tcp' = tcp /\ tcp[c].in = l /\ client' = client
          /\ tcp[c].fd \in Number
      BY <1>1, <1>2, <2>1, <2>2
    <3>2. ToSet(e.watched) = ToSet(epoll[l].watched) \ {c}
      BY <1>6, <2>3
    <3>3. OnlyThis(View(l), e, c, tcp[c].fd)
      BY <2>3
    <3>4. \/ /\ e.channels[tcp[c].fd] = c /\ e.status[c] = "kAdded"
             /\ ToSet(e.watched) = ToSet(epoll[l].watched) \union {c}
          \/ /\ e.channels[tcp[c].fd] = "none" /\ e.status[c] = "kNew"
             /\ ToSet(e.watched) = ToSet(epoll[l].watched) \ {c}
      BY <2>3, <3>2
    <3> QED
      BY <2>4, <2>7, <2>8, <3>1, <3>3, <3>4, CallKeepsChannels
  <2>10. ListenInv'
    <3>1. status'["listen"] = status["listen"] /\ epoll'[0].channels[0] = epoll[0].channels[0]
      <4>1. /\ \A m \in Number : m # tcp[c].fd => e.channels[m] = epoll[l].channels[m]
            /\ \A ch \in Channel : ch # c => e.status[ch] = status[ch]
        BY <1>6, <2>3 DEF OnlyThis
      <4>2. e.channels[0] = epoll[l].channels[0]
        BY <1>4, <1>7, <4>1
      <4>3. c # "listen"
        BY <1>2, <1>4
      <4>4. status'["listen"] = status["listen"]
        BY <1>4, <2>5, <4>1, <4>3
      <4>5. epoll'[0].channels[0] = epoll[0].channels[0]
        BY <1>4, <2>5, <4>2
      <4> QED
        BY <4>4, <4>5
    <3> QED
      BY <1>1, <1>4, <1>9, <3>1 DEF ListenInv
  <2>11. mapped' \in SUBSET Client /\ kept' \in SUBSET Client
    BY <1>4, <2>1 DEF SocketsTypeOK
  <2> QED
    BY <1>2, <2>1, <2>5, <2>6, <2>9, <2>10, <2>11
<1>13. CASE call = "removeConnectionInLoop"
  <2>1. /\ mapped' = mapped \ {c}
        /\ loop' = Pushed(lp, tcp[c].in, "connectionDestroyed", c)
        /\ epoll' = epoll /\ status' = status /\ kept' = kept /\ broken' = broken
    BY <1>3, <1>13
  <2>2. l = 0 /\ status[c] = "kDeleted" /\ c \in mapped /\ tcp[c].fd \in Number
    BY <1>4, <1>5, <1>8, <1>13 DEF ConnOf
  <2>3. "connectionDestroyed" \in Calls
    BY DEF Calls
  <2> DEFINE p == Pushed(lp, tcp[c].in, "connectionDestroyed", c)
  <2>4. /\ loop' \in [Loops -> LoopStates]
        /\ \A m \in Loops : /\ loop'[m].at = lp[m].at /\ loop'[m].active = lp[m].active
                            /\ loop'[m].running = lp[m].running
        /\ QueuesOf(loop') = [QueuesOf(lp) EXCEPT ![tcp[c].in] = Append(@, <<"connectionDestroyed", c>>)]
    <3>1. /\ p \in [Loops -> LoopStates]
          /\ \A m \in Loops : p[m].at = lp[m].at /\ p[m].active = lp[m].active /\ p[m].running = lp[m].running
          /\ QueuesOf(p) = [QueuesOf(lp) EXCEPT ![tcp[c].in] = Append(@, <<"connectionDestroyed", c>>)]
      <4>1. lp \in [Loops -> LoopStates] /\ tcp[c].in \in Loops /\ c \in Client
        BY <1>2, <1>4
      <4> QED
        <5>1. PICK io, k : io = tcp[c].in /\ k = "connectionDestroyed"
          OBVIOUS
        <5>2. p = Pushed(lp, io, k, c)
          BY <5>1
        <5>3. io \in Loops /\ k \in Calls
          BY <2>3, <4>1, <5>1
        <5> HIDE DEF p
        <5>4. /\ p \in [Loops -> LoopStates]
              /\ \A m \in Loops : p[m].at = lp[m].at /\ p[m].active = lp[m].active /\ p[m].running = lp[m].running
              /\ QueuesOf(p) = [QueuesOf(lp) EXCEPT ![io] = Append(@, <<k, c>>)]
          BY <4>1, <5>2, <5>3, PushedLoop
        <5> QED
          BY <5>1, <5>4
    <3>2. loop' = p
      BY <2>1
    <3> HIDE DEF p
    <3> QED
      BY <3>1, <3>2
  <2>5. PICK q : q = QueuesOf(lp)
    OBVIOUS
  <2>6. PICK r : r = Queues'
    OBVIOUS
  <2>7. r = WithFunctor(q, tcp[c].in, "connectionDestroyed", c)
    BY <2>4, <2>5, <2>6 DEF WithFunctor, Queues
  <2>8. /\ q \in Functors /\ OnceIn(q)
        /\ \A m \in Loops : \A k, d : Within(q, m, k, d) <=> Within(Queues, m, k, d) /\ d # c
    BY <1>2, <2>5
  <2>9. \A m \in Loops : \A k : ~Within(q, m, k, c)
    BY <2>8
  <2>10. /\ \A m \in Loops : \A k, d : Within(r, m, k, d) <=>
                Within(q, m, k, d) \/ (m = tcp[c].in /\ k = "connectionDestroyed" /\ d = c)
         /\ OnceIn(q) => OnceIn(r)
    BY <1>2, <1>4, <2>3, <2>7, <2>8, <2>9, PushFunctor
  <2>11. ConnOf(c, tcp)'
    <3>1. \A m \in Loops : \A k : Waits(m, k, c)' <=> m = tcp[c].in /\ k = "connectionDestroyed"
      BY <1>2, <2>6, <2>9, <2>10 DEF Waits
    <3>2. tcp' = tcp /\ client'[c] = client[c] /\ tcp[c].fd # None /\ c \notin mapped'
      BY <1>1, <1>8, <2>1, <2>2
    <3>3. /\ \A m \in Loops : m = tcp[c].in => Waits(m, "connectionDestroyed", c)'
          /\ \A m \in Loops : /\ ~Waits(m, "connectionEstablished", c)'
                              /\ ~Waits(m, "removeConnectionInLoop", c)'
                              /\ Waits(m, "connectionDestroyed", c)' => m = tcp[c].in
      BY <1>4, <3>1
    <3> QED
      BY <1>4, <2>1, <2>2, <3>2, <3>3 DEF ConnOf
  <2>12. ASSUME NEW d \in Client PROVE ConnOf(d, tcp)'
    <3>1. CASE d = c
      BY <2>11, <3>1
    <3>2. CASE d # c
      <4>1. \A m \in Loops : \A k : Within(Queues', m, k, d) <=> Within(Queues, m, k, d)
        BY <2>6, <2>8, <2>10, <3>2
      <4>2. tcp[d].in \in Loops /\ ConnOf(d, tcp)
        BY InvFacts
      <4> QED
        BY <1>1, <2>1, <3>2, <4>1, <4>2, OtherConnection
    <3> QED
      BY <3>1, <3>2
  <2>13. ListenInv' /\ ChannelsOf(tcp)'
    BY <1>1, <1>4, <2>1, <2>12, SameEpolls DEF ChannelsOf, ListenInv
  <2>14. mapped' \in SUBSET Client /\ kept' \in SUBSET Client
    BY <1>4, <2>1 DEF SocketsTypeOK
  <2> QED
    BY <1>2, <2>1, <2>4, <2>6, <2>8, <2>10, <2>13, <2>14, InvFacts
<1> QED
  BY <1>2, <1>11, <1>12, <1>13 DEF Calls

LEMMA SocketsInitKeeps == SocketsInit => SocketsInv
<1> SUFFICES ASSUME SocketsInit PROVE SocketsInv
  OBVIOUS
<1>1. /\ server \in Servers
      /\ table = [n \in Number |-> IF n = 0 THEN "listen" ELSE "free"]
      /\ loop = [l \in Loops |-> Idle]
      /\ status = [ch \in Channel |-> IF ch = "listen" /\ ~Direct THEN "kAdded" ELSE "kNew"]
      /\ tcp = [c \in Client |-> [fd |-> None, in |-> 0]]
      /\ mapped = {} /\ kept = {}
      /\ client = [c \in Client |-> "away"]
      /\ next_ = 0 /\ broken = FALSE
  BY DEF SocketsInit
<1>2. /\ 0 \in Loops /\ 0 \in Number /\ None \notin Number
      /\ "listen" \in Channel /\ Client \subseteq Channel
      /\ "listen" \notin Client /\ "none" \notin Client /\ "free" \notin Client
  BY SocketsAssumption, ClientsAssumption DEF Loops, Number, Channel, None
<1>3. \A l \in Loops :
         /\ epoll[l].channels \in [Number -> Channel \union {"none"}]
         /\ epoll[l].watched \in Seq(Channel)
         /\ epoll[l].watched = << >> \/ (l = 0 /\ ~Direct /\ epoll[l].watched = <<"listen">>)
         /\ \A n \in Number : epoll[l].channels[n] =
               IF l = 0 /\ ~Direct /\ n = 0 THEN "listen" ELSE "none"
         /\ epoll[l] = [channels |-> epoll[l].channels, watched |-> epoll[l].watched]
  <2>1. [n \in Number |-> "none"] \in [Number -> Channel \union {"none"}]
    OBVIOUS
  <2>2. [NoChannels EXCEPT ![0] = "listen"] \in [Number -> Channel \union {"none"}]
    BY <1>2, <2>1 DEF NoChannels
  <2>3. <<"listen">> \in Seq(Channel) /\ << >> \in Seq(Channel)
    BY <1>2
  <2>4. epoll = [l \in Loops |->
          IF l = 0 /\ ~Direct
          THEN [channels |-> [NoChannels EXCEPT ![0] = "listen"], watched |-> <<"listen">>]
          ELSE [channels |-> NoChannels, watched |-> << >>]]
    BY DEF SocketsInit
  <2>5. \A n \in Number : NoChannels[n] = "none"
                         /\ [NoChannels EXCEPT ![0] = "listen"][n] = IF n = 0 THEN "listen" ELSE "none"
    BY <1>2 DEF NoChannels
  <2>6. NoChannels \in [Number -> Channel \union {"none"}]
    BY <2>1 DEF NoChannels
  <2> QED
    BY <2>2, <2>3, <2>4, <2>5, <2>6
<1>4. epoll \in [Loops -> [channels : [Number -> Channel \union {"none"}], watched : Seq(Channel)]]
  <2>1. epoll = [l \in Loops |-> epoll[l]]
    BY DEF SocketsInit
  <2> QED
    BY <1>3, <2>1
<1>5. Idle \in LoopStates
  BY SocketsAssumption DEF Idle, LoopStates
<1>6. SocketsTypeOK
  <2>1. loop \in [Loops -> LoopStates]
    BY <1>1, <1>5
  <2>2. table \in [Number -> Channel \union {"free"}]
    BY <1>1, <1>2
  <2>3. tcp \in [Client -> [fd : Number \union {None}, in : Loops]]
    BY <1>1, <1>2
  <2>4. status \in [Channel -> {"kNew", "kAdded", "kDeleted"}]
    BY <1>1
  <2>5. /\ client \in [Client -> {"away", "backlog", "open", "talking", "reset", "hung up"}]
        /\ broken \in BOOLEAN /\ next_ \in Loops
    BY <1>1, <1>2
  <2> QED
    BY <1>1, <1>4, <2>1, <2>2, <2>3, <2>4, <2>5 DEF SocketsTypeOK, LoopStates
<1>7. FdsInv
  BY <1>1, <1>2 DEF FdsInv
<1>8. ListenInv
  BY <1>1, <1>2, <1>3 DEF ListenInv
<1>9. /\ Queues \in Functors
      /\ \A l \in Loops : Len(Queues[l]) = 0
  <2>1. loop \in [Loops -> LoopStates]
    BY <1>1, <1>5
  <2>2. Queues \in Functors
    BY <2>1, QueuesType DEF Queues
  <2>3. \A l \in Loops : loop[l].running = << >> /\ loop[l].functors = << >>
    BY <1>1 DEF Idle
  <2>4. \A l \in Loops : Queues[l] = << >> \o << >>
    BY <2>3 DEF Queues, QueuesOf
  <2> QED
    BY <2>2, <2>4
<1>10. \A l \in Loops : \A k, c : ~Waits(l, k, c)
  BY <1>9 DEF Waits, Within
<1>11. OnceIn(Queues)
  BY <1>9 DEF OnceIn
<1>12. ASSUME NEW c \in Client PROVE ConnOf(c, tcp)
  BY <1>1, <1>2, <1>10 DEF ConnOf
<1>13. ASSUME NEW l \in Loops PROVE RoundInv(l)
  <2>1. /\ loop[l].active = << >> /\ loop[l].running = << >> /\ loop[l].functors = << >>
        /\ loop[l].at = "polling"
    BY <1>1 DEF Idle
  <2> QED
    BY <2>1, EmptyList DEF RoundInv
<1>14. ASSUME NEW l \in Loops PROVE WatchOf(l, tcp)
  <2>1. CASE epoll[l].watched = << >>
    BY <2>1, EmptyList DEF WatchOf
  <2>2. CASE l = 0 /\ ~Direct /\ epoll[l].watched = <<"listen">>
    <3>1. Distinct(<<"listen">>) /\ ToSet(<<"listen">>) = {"listen"}
      BY DEF Distinct, ToSet
    <3>2. status["listen"] = "kAdded"
      BY <1>1, <1>2, <2>2
    <3> QED
      BY <2>2, <3>1, <3>2 DEF WatchOf
  <2> QED
    BY <1>3, <2>1, <2>2
<1>15. ASSUME NEW l \in Loops, NEW n \in Number PROVE EntryOf(l, n, tcp)
  <2>1. \/ epoll[l].channels[n] = "listen" /\ l = 0 /\ n = 0
        \/ epoll[l].channels[n] = "none"
    <3>1. epoll[l].channels[n] = IF l = 0 /\ ~Direct /\ n = 0 THEN "listen" ELSE "none"
      BY <1>3, Zenon
    <3> QED
      BY <3>1
  <2>2. epoll[l].channels[n] \notin Client
    BY <1>2, <2>1
  <2> QED
    BY <2>1, <2>2 DEF EntryOf
<1> QED
  BY <1>1, <1>6, <1>7, <1>8, <1>11, <1>12, <1>13, <1>14, <1>15 DEF SocketsInv, ChannelsOf

LEMMA SocketsStutter == SocketsInv /\ UNCHANGED socketVars => SocketsInv'
<1> SUFFICES ASSUME SocketsInv, UNCHANGED socketVars PROVE SocketsInv'
  OBVIOUS
<1> USE DEF socketVars
<1>1. SocketsTypeOK' /\ ~broken' /\ FdsInv' /\ ListenInv'
  BY InvFacts DEF SocketsTypeOK, FdsInv, ListenInv, Direct
<1>2. Queues' = Queues
  BY DEF Queues
<1>3. ChannelsOf(tcp)'
  <2>1. ASSUME NEW c \in Client PROVE ConnOf(c, tcp)'
    BY <1>2, InvFacts, OtherConnection
  <2>2. \A l \in Loops : WatchOf(l, tcp)' /\ \A n \in Number : EntryOf(l, n, tcp)'
    BY InvFacts, SameEpolls DEF ListenInv
  <2> QED
    BY <2>1, <2>2 DEF ChannelsOf
<1>4. \A l \in Loops : RoundInv(l)'
  BY InvFacts DEF RoundInv, Direct
<1> QED
  BY <1>1, <1>2, <1>3, <1>4, InvFacts DEF SocketsInv

LEMMA SocketsStep == SocketsInv /\ [SocketsNext]_socketVars => SocketsInv'
<1> SUFFICES ASSUME SocketsInv, [SocketsNext]_socketVars PROVE SocketsInv'
  OBVIOUS
<1>1. CASE \E l \in Loops : Step(l)
  <2>1. PICK l \in Loops : Step(l)
    BY <1>1
  <2>2. l <= server.numThreads_
    BY <2>1 DEF Step
  <2>3. CASE Poll(l) \/ Swap(l) \/ Call(l) \/ EndCalls(l)
    BY <2>2, <2>3, PollKeeps, SwapKeeps, CallKeeps, EndCallsKeeps
  <2>4. CASE \E c \in Client : HandleEvent(l, c) \/ HandleEnd(l, c)
    BY <2>2, <2>4, HandleEventKeeps, HandleEndKeeps
  <2>5. CASE AcceptFails \/ \E c \in Client : Accept(c)
    BY <2>5, AcceptFailsKeeps, AcceptKeeps
  <2> QED
    BY <2>1, <2>3, <2>4, <2>5 DEF Step
<1>2. CASE \E c \in Client : Drop(c)
  BY <1>2, DropKeeps
<1>3. CASE \E c \in Client : \/ Acts(c, "away", "backlog") \/ Acts(c, "open", "talking")
                            \/ \E end \in {"reset", "hung up"} : Acts(c, "open", end)
  BY <1>3, ActsKeeps
<1> QED
  BY <1>1, <1>2, <1>3, SocketsStutter DEF SocketsNext

LEMMA SocketsInvariance == SocketsSpec => []SocketsInv
  BY SocketsInitKeeps, SocketsStep, PTL DEF SocketsSpec

\* For any number of clients, of descriptors, of io loops and of events in a round, whoever
\* releases a connection last: no assertion of an Epoll about its map fails, a number stands
\* for the Socket that has it and for no other, and neither the map of a loop, nor the
\* kernel, nor the list of a round has a Channel whose connection is gone.
THEOREM SocketNumbersAreCurrent == SocketsSpec => []NumbersAreCurrent
<1>1. SocketsInv => NumbersAreCurrent
  <2> SUFFICES ASSUME SocketsInv PROVE NumbersAreCurrent
    OBVIOUS
  <2>1. SocketsTypeOK /\ ~broken /\ \A c \in Client, n \in Number : tcp[c].fd = n <=> table[n] = c
    BY InvFacts DEF FdsInv
  <2>2. ASSUME NEW l \in Loops, NEW n \in Number, epoll[l].channels[n] \in Client
        PROVE  LET c == epoll[l].channels[n] IN tcp[c] = [fd |-> n, in |-> l]
    BY <2>2, InvFacts DEF EntryOf
  <2>3. ASSUME NEW l \in Loops, NEW c \in ToSet(epoll[l].watched) \union ToSet(loop[l].active),
               c \in Client
        PROVE  epoll[l].channels[tcp[c].fd] = c
    <3>1. c \in ToSet(epoll[l].watched)
      BY InvFacts DEF RoundInv
    <3>2. status[c] = "kAdded" /\ tcp[c].in = l
      BY <2>3, <3>1, InvFacts DEF WatchOf
    <3> QED
      BY <2>3, <3>2, InvFacts DEF ConnOf
  <2> QED
    BY <2>1, <2>2, <2>3 DEF NumbersAreCurrent
<1> QED
  BY <1>1, SocketsInvariance, PTL
-------------------------------------------------------------------------------
\* The text of a line.

\* What std::find returns.
LEMMA FindIs ==
    ASSUME NEW s, NEW start \in Nat, NEW end \in Nat, NEW token, NEW f, f = find(s, start, end, token)
    PROVE  \/ f = end /\ \A j \in start .. end - 1 : s[j] # token
           \/ /\ f \in start .. end - 1 /\ s[f] = token
              /\ \A j \in start .. f - 1 : s[j] # token
<1> DEFINE hits == {i \in start .. end - 1 : s[i] = token}
<1>1. CASE hits = {}
  <2>1. f = end
    BY <1>1 DEF find
  <2> QED
    BY <1>1, <2>1
<1>2. CASE hits # {}
  <2>1. hits \subseteq Nat
    OBVIOUS
  <2>2. PICK x \in hits : \A y \in hits : ~(y < x)
    BY <1>2, <2>1, Least
  <2>3. \A y \in hits : x <= y
    BY <2>1, <2>2
  <2>4. f = CHOOSE i \in hits : \A j \in hits : i <= j
    BY <1>2 DEF find
  <2>5. f \in hits /\ \A j \in hits : f <= j
    BY <2>3, <2>4
  <2>6. f \in start .. end - 1 /\ s[f] = token
    BY <2>5
  <2>7. ASSUME NEW j \in start .. f - 1 PROVE s[j] # token
    <3>1. j \in start .. end - 1 /\ ~(f <= j)
      BY <2>6
    <3> QED
      BY <2>5, <3>1
  <2> QED
    BY <2>6, <2>7
<1> QED
  BY <1>1, <1>2

Joined(u, a, b) ==
    /\ Len(u) = Len(a) + Len(b)
    /\ \A k \in 1 .. Len(a) + Len(b) : u[k] = IF k <= Len(a) THEN a[k] ELSE b[k - Len(a)]

LEMMA JoinIs ==
    ASSUME NEW C, NEW a \in Seq(C), NEW b \in Seq(C)
    PROVE  a \o b \in Seq(C) /\ Joined(a \o b, a, b)
<1>1. /\ a \o b \in Seq(C) /\ Len(a \o b) = Len(a) + Len(b)
      /\ \A k \in 1 .. Len(a) + Len(b) : (a \o b)[k] = IF k <= Len(a) THEN a[k] ELSE b[k - Len(a)]
  BY ConcatProperties
<1>2. PICK u : u = a \o b
  OBVIOUS
<1>3. u \in Seq(C) /\ Joined(u, a, b)
  BY <1>1, <1>2 DEF Joined
<1> QED
  BY <1>2, <1>3

\* A line of the grammar, token by token.
LaidOut(s, p, q) ==
    /\ s \in Seq(Token) /\ Len(s) = Len(p) + Len(q) + 4
    /\ s[1] = "GET" /\ s[2] = "space"
    /\ \A k \in 1 .. Len(p) : s[k + 2] = p[k]
    /\ \A k \in 1 .. Len(q) : s[k + Len(p) + 2] = q[k]
    /\ s[Len(s) - 1] = "space" /\ s[Len(s)] = "version"

LEMMA RequestLineIs ==
    ASSUME NEW s, NEW p \in Seq(Token), NEW q \in Seq(Token)
    PROVE  s = <<"GET", "space">> \o p \o q \o <<"space", "version">> <=>
              LaidOut(s, p, q)
<1>1. PICK a : a = <<"GET", "space">>
  OBVIOUS
<1>2. PICK z : z = <<"space", "version">>
  OBVIOUS
<1>3. /\ a \in Seq(Token) /\ Len(a) = 2 /\ a[1] = "GET" /\ a[2] = "space"
      /\ z \in Seq(Token) /\ Len(z) = 2 /\ z[1] = "space" /\ z[2] = "version"
  BY <1>1, <1>2 DEF Token
<1>4. PICK m : m = Len(p) /\ m \in Nat
  OBVIOUS
<1>5. PICK n : n = Len(q) /\ n \in Nat
  OBVIOUS
<1>6. PICK b : b \in Seq(Token) /\ b = a \o p /\ Joined(b, a, p)
  BY <1>3, JoinIs
<1>7. PICK c : c \in Seq(Token) /\ c = b \o q /\ Joined(c, b, q)
  BY <1>6, JoinIs
<1>8. PICK d : d \in Seq(Token) /\ d = c \o z /\ Joined(d, c, z)
  BY <1>3, <1>7, JoinIs
<1>9. Len(b) = 2 + m /\ \A k \in 1 .. 2 + m : b[k] = IF k <= 2 THEN a[k] ELSE p[k - 2]
  BY <1>3, <1>4, <1>6 DEF Joined
<1>10. /\ Len(c) = 2 + m + n
       /\ \A k \in 1 .. 2 + m + n : c[k] = IF k <= 2 + m THEN b[k] ELSE q[k - (2 + m)]
  BY <1>5, <1>7, <1>9 DEF Joined
<1>16. /\ Len(d) = 2 + m + n + 2
       /\ \A k \in 1 .. 2 + m + n + 2 : d[k] = IF k <= 2 + m + n THEN c[k] ELSE z[k - (2 + m + n)]
  BY <1>3, <1>8, <1>10 DEF Joined
<1>11. Len(d) = m + n + 4
  BY <1>4, <1>5, <1>16
<1>12. /\ d[1] = "GET" /\ d[2] = "space"
       /\ d[m + n + 3] = "space" /\ d[m + n + 4] = "version"
       /\ \A k \in 1 .. m : d[k + 2] = p[k]
       /\ \A k \in 1 .. n : d[k + m + 2] = q[k]
  <2>1. d[1] = "GET" /\ d[2] = "space"
    <3>1. \A k \in {1, 2} : /\ k \in 1 .. 2 + m /\ k <= 2 /\ k \in 1 .. 2 + m + n /\ k <= 2 + m
                             /\ k \in 1 .. 2 + m + n + 2 /\ k <= 2 + m + n
      BY <1>4, <1>5
    <3>2. \A k \in {1, 2} : d[k] = a[k]
      BY <1>9, <1>10, <1>16, <3>1
    <3> QED
      BY <1>3, <3>2
  <2>2. d[m + n + 3] = "space" /\ d[m + n + 4] = "version"
    BY <1>3, <1>4, <1>5, <1>16
  <2>3. ASSUME NEW k \in 1 .. m PROVE d[k + 2] = p[k]
    <3>1. /\ k + 2 \in 1 .. 2 + m /\ k + 2 \in 1 .. 2 + m + n /\ k + 2 \in 1 .. 2 + m + n + 2
          /\ k + 2 <= 2 + m + n /\ k + 2 <= 2 + m /\ ~(k + 2 <= 2) /\ (k + 2) - 2 = k
      BY <1>4, <1>5
    <3> QED
      BY <1>9, <1>10, <1>16, <3>1
  <2>4. ASSUME NEW k \in 1 .. n PROVE d[k + m + 2] = q[k]
    <3>1. /\ k + m + 2 \in 1 .. 2 + m + n /\ k + m + 2 \in 1 .. 2 + m + n + 2
          /\ k + m + 2 <= 2 + m + n /\ ~(k + m + 2 <= 2 + m) /\ (k + m + 2) - (2 + m) = k
      BY <1>4, <1>5
    <3> QED
      BY <1>10, <1>16, <3>1
  <2> QED
    BY <2>1, <2>2, <2>3, <2>4
<1>13. s = <<"GET", "space">> \o p \o q \o <<"space", "version">> <=> s = d
  BY <1>1, <1>2, <1>6, <1>7, <1>8
<1>14. ASSUME s = d
       PROVE  /\ s \in Seq(Token) /\ Len(s) = Len(p) + Len(q) + 4
              /\ s[1] = "GET" /\ s[2] = "space"
              /\ \A k \in 1 .. Len(p) : s[k + 2] = p[k]
              /\ \A k \in 1 .. Len(q) : s[k + Len(p) + 2] = q[k]
              /\ s[Len(s) - 1] = "space" /\ s[Len(s)] = "version"
  <2>1. Len(s) = m + n + 4 /\ Len(s) - 1 = m + n + 3
    BY <1>4, <1>5, <1>11, <1>14
  <2>2. s[Len(s) - 1] = "space" /\ s[Len(s)] = "version"
    BY <1>12, <1>14, <2>1
  <2>3. /\ \A k \in 1 .. Len(p) : s[k + 2] = p[k]
        /\ \A k \in 1 .. Len(q) : s[k + Len(p) + 2] = q[k]
    BY <1>4, <1>5, <1>12, <1>14
  <2> QED
    BY <1>4, <1>5, <1>8, <1>12, <1>14, <2>1, <2>2, <2>3
<1>15. ASSUME /\ s \in Seq(Token) /\ Len(s) = Len(p) + Len(q) + 4
              /\ s[1] = "GET" /\ s[2] = "space"
              /\ \A k \in 1 .. Len(p) : s[k + 2] = p[k]
              /\ \A k \in 1 .. Len(q) : s[k + Len(p) + 2] = q[k]
              /\ s[Len(s) - 1] = "space" /\ s[Len(s)] = "version"
       PROVE  s = d
  <2>1. Len(s) = m + n + 4
    BY <1>4, <1>5, <1>15
  <2>2. ASSUME NEW k \in 1 .. m + n + 4 PROVE s[k] = d[k]
    <3>1. CASE k = 1 \/ k = 2
      BY <1>12, <1>15, <3>1
    <3>2. CASE k > 2 /\ k <= m + 2
      <4>1. k - 2 \in 1 .. m /\ (k - 2) + 2 = k
        BY <1>4, <1>5, <3>2
      <4>2. PICK j \in 1 .. m : j + 2 = k
        BY <4>1
      <4>3. s[j + 2] = p[j] /\ d[j + 2] = p[j]
        BY <1>4, <1>12, <1>15
      <4> QED
        BY <4>2, <4>3
    <3>3. CASE k > m + 2 /\ k <= m + n + 2
      <4>1. k - m - 2 \in 1 .. n /\ (k - m - 2) + m + 2 = k
        BY <1>4, <1>5, <3>3
      <4>2. PICK j \in 1 .. n : j + m + 2 = k
        BY <4>1
      <4>3. s[j + m + 2] = q[j] /\ d[j + m + 2] = q[j]
        BY <1>4, <1>5, <1>12, <1>15
      <4> QED
        BY <4>2, <4>3
    <3>4. CASE k = m + n + 3 \/ k = m + n + 4
      <4>1. Len(s) - 1 = m + n + 3
        BY <1>4, <1>5, <2>1
      <4> QED
        BY <1>12, <1>15, <2>1, <3>4, <4>1
    <3> QED
      BY <1>4, <1>5, <3>1, <3>2, <3>3, <3>4
  <2> QED
    BY <1>8, <1>11, <1>15, <2>1, <2>2, SeqEqual
<1> QED
  BY <1>13, <1>14, <1>15 DEF LaidOut

LEMMA SingleText ==
    ASSUME NEW s \in Seq(Token), NEW a \in Nat \ {0}, NEW b \in Nat, b <= Len(s) + 1, NEW w \in Token
    PROVE  Text(s, a, b) = <<w>> <=> b = a + 1 /\ s[a] = w
<1>1. PICK z : z = <<w>>
  OBVIOUS
<1>2. z \in Seq(Token) /\ Len(z) = 1 /\ z[1] = w
  BY <1>1
<1>3. PICK t : t = Text(s, a, b)
  OBVIOUS
<1>4. CASE a <= b
  <2>1. a \in 1 .. Len(s) + 1 /\ b - 1 \in a - 1 .. Len(s)
    BY <1>4
  <2>2. /\ t \in Seq(Token) /\ Len(t) = (b - 1) - a + 1
        /\ \A i \in 1 .. (b - 1) - a + 1 : t[i] = s[a + i - 1]
    BY <1>3, <2>1, SubSeqProperties DEF Text
  <2>3. Len(t) = b - a
    BY <2>2
  <2>4. ASSUME b = a + 1 PROVE t[1] = s[a]
    <3>1. a + 1 - 1 = a /\ 1 \in 1 .. (b - 1) - a + 1 /\ b - a = 1
      BY <2>4
    <3>2. t[1] = s[a + 1 - 1]
      BY <2>2, <3>1
    <3>3. t[1] = s[a]
      BY <3>1, <3>2
    <3> QED
      BY <3>3
  <2>5. t = z => b = a + 1 /\ s[a] = w
    <3>1. ASSUME t = z PROVE b = a + 1
      <4>1. Len(t) = 1
        BY <1>2, <3>1, Zenon
      <4>2. b - a = 1
        BY <2>3, <4>1, Zenon
      <4> QED
        BY <4>2
    <3>2. ASSUME t = z PROVE s[a] = w
      <4>1. t[1] = w
        BY <1>2, <3>2, Zenon
      <4> QED
        BY <2>4, <3>1, <3>2, <4>1, Zenon
    <3> QED
      BY <3>1, <3>2
  <2>6. ASSUME b = a + 1, s[a] = w PROVE t = z
    <3>1. Len(t) = 1 /\ t[1] = w
      BY <2>3, <2>4, <2>6
    <3>2. \A i \in 1 .. Len(t) : t[i] = z[i]
      BY <1>2, <3>1
    <3> QED
      BY <1>2, <2>2, <3>1, <3>2, SeqEqual
  <2> QED
    BY <1>1, <1>3, <2>5, <2>6
<1>5. CASE b < a
  <2>1. b - 1 < a
    BY <1>5
  <2>2. t = << >>
    BY <1>3, <2>1, SubSeqEmpty DEF Text
  <2>3. z # << >>
    BY <1>2, EmptySeq
  <2>4. t # z
    BY <2>2, <2>3
  <2> QED
    BY <1>1, <1>3, <1>5, <2>4
<1> QED
  BY <1>4, <1>5

\* What the parser finds in a line it takes for a request.
Found(s, space, second, question) ==
    /\ space = find(s, 1, Len(s) + 1, "space")
    /\ second = find(s, space + 1, Len(s) + 1, "space")
    /\ question = find(s, space + 1, second, "question")

LEMMA FoundIs ==
    ASSUME NEW s \in Seq(Token), NEW space, NEW second, NEW question,
           Found(s, space, second, question)
    PROVE  /\ space \in 1 .. Len(s) + 1 /\ second \in Nat /\ second <= Len(s) + 1
           /\ space = Len(s) + 1 => \A j \in 1 .. Len(s) : s[j] # "space"
           /\ space # Len(s) + 1 => s[space] = "space" /\ \A j \in 1 .. space - 1 : s[j] # "space"
           /\ second = Len(s) + 1 => \A j \in space + 1 .. Len(s) : s[j] # "space"
           /\ second # Len(s) + 1 => /\ second > space /\ s[second] = "space"
                                     /\ \A j \in space + 1 .. second - 1 : s[j] # "space"
           /\ \A j \in space + 1 .. question - 1 : j < second => s[j] # "question"
           /\ question # second => question \in space + 1 .. second - 1 /\ s[question] = "question"
<1>1. PICK n : n = Len(s) /\ n \in Nat
  OBVIOUS
<1>2. \/ space = n + 1 /\ \A j \in 1 .. n + 1 - 1 : s[j] # "space"
      \/ /\ space \in 1 .. n + 1 - 1 /\ s[space] = "space"
         /\ \A j \in 1 .. space - 1 : s[j] # "space"
  <2>1. 1 \in Nat /\ n + 1 \in Nat
    BY <1>1
  <2>2. PICK w, e, b : w = "space" /\ e = n + 1 /\ b = 1
    OBVIOUS
  <2>3. space = find(s, b, e, w) /\ b \in Nat /\ e \in Nat
    BY <1>1, <2>1, <2>2 DEF Found
  <2>4. \/ space = e /\ \A j \in b .. e - 1 : s[j] # w
        \/ space \in b .. e - 1 /\ s[space] = w /\ \A j \in b .. space - 1 : s[j] # w
    BY <2>3, FindIs
  <2> QED
    BY <1>1, <2>2, <2>3, <2>4
<1>3. space \in 1 .. n + 1 /\ space + 1 \in Nat /\ n + 1 \in Nat /\ n + 1 - 1 = n
  BY <1>1, <1>2
<1>4. \/ second = n + 1 /\ \A j \in space + 1 .. n + 1 - 1 : s[j] # "space"
      \/ /\ second \in space + 1 .. n + 1 - 1 /\ s[second] = "space"
         /\ \A j \in space + 1 .. second - 1 : s[j] # "space"
  <2>2. PICK w, e, b : w = "space" /\ e = n + 1 /\ b = space + 1
    OBVIOUS
  <2>3. second = find(s, b, e, w) /\ b \in Nat /\ e \in Nat
    BY <1>1, <1>3, <2>2 DEF Found
  <2>4. \/ second = e /\ \A j \in b .. e - 1 : s[j] # w
        \/ second \in b .. e - 1 /\ s[second] = w /\ \A j \in b .. second - 1 : s[j] # w
    BY <2>3, FindIs
  <2> QED
    BY <1>1, <1>3, <2>2, <2>3, <2>4
<1>5. second \in Nat /\ second <= n + 1
  BY <1>1, <1>3, <1>4
<1>6. \/ question = second /\ \A j \in space + 1 .. second - 1 : s[j] # "question"
      \/ /\ question \in space + 1 .. second - 1 /\ s[question] = "question"
         /\ \A j \in space + 1 .. question - 1 : s[j] # "question"
  <2>1. question = find(s, space + 1, second, "question")
    BY DEF Found
  <2> QED
    BY <1>3, <1>5, <2>1, FindIs
<1>7. \A j \in space + 1 .. question - 1 : j < second => s[j] # "question"
  BY <1>3, <1>5, <1>6
<1>8. question # second => question \in space + 1 .. second - 1 /\ s[question] = "question"
  BY <1>6
<1>9. /\ space = n + 1 => \A j \in 1 .. n : s[j] # "space"
      /\ space # n + 1 => s[space] = "space" /\ \A j \in 1 .. space - 1 : s[j] # "space"
  BY <1>1, <1>2, <1>3
<1>10. /\ second = n + 1 => \A j \in space + 1 .. n : s[j] # "space"
       /\ second # n + 1 => /\ second > space /\ s[second] = "space"
                             /\ \A j \in space + 1 .. second - 1 : s[j] # "space"
  BY <1>1, <1>3, <1>4
<1> QED
  BY <1>1, <1>3, <1>5, <1>7, <1>8, <1>9, <1>10

\* When the line is taken for a request.
LEMMA OkIs ==
    ASSUME NEW s \in Seq(Token), NEW space, NEW second, NEW question,
           Found(s, space, second, question)
    PROVE  processRequestText(s).ok <=> /\ Len(s) # 0 /\ space = 2 /\ s[1] = "GET"
                                        /\ second = Len(s) - 1 /\ s[Len(s)] = "version"
<1>1. PICK n : n = Len(s) /\ n \in Nat
  OBVIOUS
<1>2. space \in 1 .. n + 1 /\ second \in Nat /\ second <= n + 1
  BY <1>1, FoundIs
<1>3. setMethodText(Text(s, 1, space)) <=> space = 2 /\ s[1] = "GET"
  <2>1. "GET" \in Token /\ space \in Nat /\ 1 \in Nat \ {0} /\ space <= Len(s) + 1
    BY <1>1, <1>2 DEF Token
  <2>2. Text(s, 1, space) = <<"GET">> <=> space = 1 + 1 /\ s[1] = "GET"
    BY <2>1, SingleText
  <2>3. 1 + 1 = 2
    OBVIOUS
  <2> QED
    BY <2>2, <2>3 DEF setMethodText
<1>4. VersionIs(s, second + 1, n + 1) <=> n + 1 = (second + 1) + 1 /\ s[second + 1] = "version"
  <2>1. "version" \in Token /\ second + 1 \in Nat \ {0} /\ n + 1 \in Nat /\ n + 1 <= Len(s) + 1
    BY <1>1, <1>2 DEF Token
  <2> QED
    BY <2>1, SingleText DEF VersionIs
<1>5. processRequestText(s).ok <=> /\ space # n + 1 /\ setMethodText(Text(s, 1, space))
                                   /\ VersionIs(s, second + 1, n + 1)
  BY <1>1 DEF processRequestText, Found, NoLine
<1>6. n + 1 = (second + 1) + 1 <=> second = n - 1
  BY <1>1, <1>2
<1>7. second = n - 1 => second + 1 = n /\ n # 0
  BY <1>1, <1>2
<1>8. space = 2 /\ second = n - 1 => space # n + 1
  <2>1. ASSUME space = 2, second = n - 1, space = n + 1 PROVE FALSE
    <3>1. n = 1 /\ second = 0 /\ second # n + 1
      BY <1>1, <1>2, <2>1
    <3>2. second > space
      BY <1>1, <3>1, FoundIs
    <3> QED
      BY <2>1, <3>1, <3>2
  <2> QED
    BY <2>1
<1> QED
  BY <1>1, <1>3, <1>4, <1>5, <1>6, <1>7, <1>8

\* The line is taken for a request exactly if the grammar allows it.
LEMMA Understood ==
    ASSUME NEW s \in Seq(Token)
    PROVE  LET made == processRequestText(s)
           IN  made.ok <=> \E i \in 2 .. Len(s) :
                              /\ made.path = SubSeq(s, 3, i)
                              /\ made.query = SubSeq(s, i + 1, Len(s) - 2)
                              /\ IsRequestLine(s, made.path, made.query)
<1>1. PICK made : made = processRequestText(s)
  OBVIOUS
<1>2. PICK n : n = Len(s) /\ n \in Nat
  OBVIOUS
<1>3. PICK space, second, question : Found(s, space, second, question)
  BY DEF Found
<1>4. /\ space \in 1 .. n + 1 /\ second \in Nat /\ second <= n + 1
      /\ space = n + 1 => \A j \in 1 .. n : s[j] # "space"
      /\ space # n + 1 => s[space] = "space" /\ \A j \in 1 .. space - 1 : s[j] # "space"
      /\ second = n + 1 => \A j \in space + 1 .. n : s[j] # "space"
      /\ second # n + 1 => /\ second > space /\ s[second] = "space"
                            /\ \A j \in space + 1 .. second - 1 : s[j] # "space"
      /\ \A j \in space + 1 .. question - 1 : j < second => s[j] # "question"
      /\ question # second => question \in space + 1 .. second - 1 /\ s[question] = "question"
  BY <1>2, <1>3, FoundIs
<1>5. made.ok <=> /\ n # 0 /\ space = 2 /\ s[1] = "GET" /\ second = n - 1 /\ s[n] = "version"
  BY <1>1, <1>2, <1>3, OkIs
<1>6. \A i \in 1 .. n : s[i] \in Token
  BY <1>2
<1>7. ASSUME made.ok
      PROVE  \E i \in 2 .. n : /\ made.path = SubSeq(s, 3, i)
                                /\ made.query = SubSeq(s, i + 1, n - 2)
                                /\ IsRequestLine(s, made.path, made.query)
  <2>1. n # 0 /\ space = 2 /\ s[1] = "GET" /\ second = n - 1 /\ s[n] = "version"
    BY <1>5, <1>7
  <2>2. second # n + 1 /\ space # n + 1 /\ second > 2 /\ n > 3 /\ n - 1 > 2
    BY <1>2, <1>4, <2>1
  <2>3. /\ s[2] = "space" /\ s[n - 1] = "space"
        /\ \A j \in 3 .. n - 2 : s[j] # "space"
    <3>1. space + 1 = 3 /\ second - 1 = n - 2
      BY <1>2, <2>1
    <3> QED
      BY <1>4, <2>1, <2>2, <3>1
  <2>4. question \in 3 .. n - 1
    BY <1>2, <1>4, <2>1, <2>2
  <2>5. PICK p : p = SubSeq(s, 3, question - 1)
    OBVIOUS
  <2>6. PICK q : q = SubSeq(s, question, n - 2)
    OBVIOUS
  <2>7. made.path = p /\ made.query = q
    <3>1. setMethodText(Text(s, 1, space))
      <4>1. "GET" \in Token /\ space \in Nat /\ 1 \in Nat \ {0} /\ space <= Len(s) + 1 /\ space = 1 + 1
        BY <1>2, <1>4, <2>1 DEF Token
      <4> QED
        BY <2>1, <4>1, SingleText DEF setMethodText
    <3>2. /\ made.path = Text(s, space + 1, question)
          /\ made.query = Text(s, question, second)
      BY <1>1, <1>2, <1>3, <2>2, <3>1 DEF processRequestText, Found
    <3>3. space + 1 = 3 /\ second - 1 = n - 2
      BY <1>2, <2>1
    <3> QED
      BY <2>5, <2>6, <3>2, <3>3 DEF Text
  <2>8. /\ p \in Seq(Token) /\ Len(p) = question - 3
        /\ \A j \in 1 .. question - 3 : p[j] = s[3 + j - 1]
    <3>1. \A i \in 3 .. question - 1 : s[i] \in Token
      BY <1>2, <1>6, <2>4
    <3>2. /\ p \in Seq(Token) /\ Len(p) = IF 3 <= question - 1 THEN (question - 1) - 3 + 1 ELSE 0
          /\ \A j \in 1 .. (question - 1) - 3 + 1 : p[j] = s[3 + j - 1]
      BY <2>4, <2>5, <3>1, SubSeqProperties
    <3>3. (question - 1) - 3 + 1 = question - 3 /\ (~(3 <= question - 1) => question - 3 = 0)
      BY <1>2, <2>4
    <3> QED
      BY <3>2, <3>3
  <2>9. /\ q \in Seq(Token) /\ Len(q) = n - 1 - question
        /\ \A j \in 1 .. n - 1 - question : q[j] = s[question + j - 1]
    <3>1. \A i \in question .. n - 2 : s[i] \in Token
      BY <1>2, <1>6, <2>4
    <3>2. /\ q \in Seq(Token) /\ Len(q) = IF question <= n - 2 THEN (n - 2) - question + 1 ELSE 0
          /\ \A j \in 1 .. (n - 2) - question + 1 : q[j] = s[question + j - 1]
      BY <1>2, <2>4, <2>6, <3>1, SubSeqProperties
    <3>3. /\ (n - 2) - question + 1 = n - 1 - question
          /\ ~(question <= n - 2) => n - 1 - question = 0
      BY <1>2, <2>4
    <3> QED
      BY <3>2, <3>3
  <2>10. s = <<"GET", "space">> \o p \o q \o <<"space", "version">>
    <3>1. n = Len(p) + Len(q) + 4
      BY <1>2, <2>4, <2>8, <2>9
    <3>2. ASSUME NEW k \in 1 .. Len(p) PROVE s[k + 2] = p[k]
      <4>1. k \in 1 .. question - 3 /\ 3 + k - 1 = k + 2
        BY <2>4, <2>8
      <4> QED
        BY <2>8, <4>1
    <3>3. ASSUME NEW k \in 1 .. Len(q) PROVE s[k + Len(p) + 2] = q[k]
      <4>1. k \in 1 .. n - 1 - question /\ question + k - 1 = k + Len(p) + 2
        BY <1>2, <2>4, <2>8, <2>9
      <4> QED
        BY <2>9, <4>1
    <3>4. LaidOut(s, p, q)
      BY <1>2, <2>1, <2>3, <3>1, <3>2, <3>3 DEF LaidOut
    <3> QED
      BY <2>8, <2>9, <3>4, RequestLineIs
  <2>11. "space" \notin ToSet(p) /\ "question" \notin ToSet(p)
    <3>1. ASSUME NEW j \in 1 .. Len(p) PROVE p[j] # "space" /\ p[j] # "question"
      <4>1. /\ j \in 1 .. question - 3 /\ 3 + j - 1 = j + 2 /\ j + 2 \in 3 .. n - 2
            /\ j + 2 \in space + 1 .. question - 1 /\ j + 2 < second
        BY <1>2, <2>1, <2>4, <2>8
      <4> QED
        BY <1>4, <2>3, <2>8, <4>1
    <3> QED
      BY <2>8, <3>1, InToSet
  <2>12. "space" \notin ToSet(q)
    <3>1. ASSUME NEW j \in 1 .. Len(q) PROVE q[j] # "space"
      <4>1. /\ j \in 1 .. n - 1 - question /\ question + j - 1 \in 3 .. n - 2
        BY <1>2, <2>4, <2>9
      <4> QED
        BY <2>3, <2>9, <4>1
    <3> QED
      BY <2>9, <3>1, InToSet
  <2>13. ASSUME q # << >> PROVE q[1] = "question"
    <3>1. Len(q) # 0
      BY <2>9, <2>13, EmptySeq
    <3>2. 1 \in 1 .. n - 1 - question /\ question + 1 - 1 = question /\ question # second
      BY <1>2, <2>1, <2>4, <2>9, <3>1
    <3>3. q[1] = s[question + 1 - 1]
      BY <2>9, <3>2
    <3> QED
      BY <1>4, <3>2, <3>3
  <2>14. IsRequestLine(s, p, q)
    BY <2>10, <2>11, <2>12, <2>13 DEF IsRequestLine
  <2>15. question - 1 \in 2 .. n /\ (question - 1) + 1 = question
    BY <1>2, <2>4
  <2> QED
    BY <2>5, <2>6, <2>7, <2>14, <2>15
<1>8. ASSUME NEW i \in 2 .. n, made.path = SubSeq(s, 3, i), made.query = SubSeq(s, i + 1, n - 2),
             IsRequestLine(s, made.path, made.query)
      PROVE  made.ok
  <2>1. PICK p : p = made.path
    OBVIOUS
  <2>2. PICK q : q = made.query
    OBVIOUS
  <2>3. p \in Seq(Token)
    BY <1>2, <1>6, <1>8, <2>1, SubSeqProperties
  <2>4. q \in Seq(Token)
    BY <1>2, <1>6, <1>8, <2>2, SubSeqProperties
  <2>5. PICK m : m = Len(p) /\ m \in Nat
    BY <2>3
  <2>6. PICK l : l = Len(q) /\ l \in Nat
    BY <2>4
  <2>7. /\ n = m + l + 4
        /\ s[1] = "GET" /\ s[2] = "space"
        /\ \A k \in 1 .. m : s[k + 2] = p[k]
        /\ \A k \in 1 .. l : s[k + m + 2] = q[k]
        /\ s[n - 1] = "space" /\ s[n] = "version"
    <3>1. LaidOut(s, p, q)
      BY <1>8, <2>1, <2>2, <2>3, <2>4, RequestLineIs DEF IsRequestLine
    <3> QED
      BY <1>2, <2>5, <2>6, <3>1 DEF LaidOut
  <2>8. /\ \A k \in 1 .. m : p[k] # "space"
        /\ \A k \in 1 .. l : q[k] # "space"
    BY <1>8, <2>1, <2>2, <2>3, <2>4, <2>5, <2>6, InToSet DEF IsRequestLine
  <2>9. ASSUME NEW j \in 3 .. n - 2 PROVE s[j] # "space"
    <3>1. CASE j <= m + 2
      <4>1. PICK k \in 1 .. m : k + 2 = j
        <5>1. j - 2 \in 1 .. m /\ (j - 2) + 2 = j
          BY <2>5, <3>1
        <5> QED
          BY <5>1
      <4> QED
        BY <2>7, <2>8, <4>1
    <3>2. CASE j > m + 2
      <4>1. PICK k \in 1 .. l : k + m + 2 = j
        <5>1. j - m - 2 \in 1 .. l /\ (j - m - 2) + m + 2 = j
          BY <2>5, <2>6, <2>7, <3>2
        <5> QED
          BY <5>1
      <4> QED
        BY <2>7, <2>8, <4>1
    <3> QED
      BY <2>5, <3>1, <3>2
  <2>10. space = 2
    <3>1. 2 \in 1 .. n /\ 1 \in 1 .. n
      BY <2>5, <2>6, <2>7
    <3>2. space # n + 1 /\ s[space] = "space" /\ \A j \in 1 .. space - 1 : s[j] # "space"
      BY <1>4, <2>7, <3>1
    <3>3. space # 1
      BY <2>7, <3>2
    <3>4. ~(2 \in 1 .. space - 1)
      BY <2>7, <3>2
    <3> QED
      BY <1>2, <1>4, <3>3, <3>4
  <2>11. second = n - 1
    <3>1. n - 1 \in 3 .. n
      BY <2>5, <2>6, <2>7
    <3>2. second # n + 1 /\ second > 2 /\ s[second] = "space" /\ \A j \in 3 .. second - 1 : s[j] # "space"
      BY <1>4, <2>7, <2>10, <3>1
    <3>3. ~(n - 1 \in 3 .. second - 1)
      BY <2>7, <3>2
    <3>4. second # n
      BY <2>7, <3>2
    <3>5. ~(second \in 3 .. n - 2)
      BY <2>9, <3>2
    <3> QED
      BY <1>2, <1>4, <3>1, <3>2, <3>3, <3>4, <3>5
  <2>12. n # 0
    BY <2>5, <2>6, <2>7
  <2> QED
    BY <1>5, <2>7, <2>10, <2>11, <2>12
<1> QED
  BY <1>1, <1>2, <1>7, <1>8

LEMMA ExtremesOf ==
    ASSUME NEW n \in Nat, NEW T, T \subseteq 1 .. n, T # {}
    PROVE  /\ Min(T) \in T /\ \A y \in T : Min(T) <= y
           /\ Max(T) \in T /\ \A y \in T : y <= Max(T)
<1>1. PICK x \in T : \A y \in T : x <= y
  <2>1. T \subseteq Nat
    OBVIOUS
  <2>2. PICK x \in T : \A y \in T : ~(y < x)
    BY <2>1, Least
  <2>3. \A y \in T : x <= y
    BY <2>1, <2>2
  <2> QED
    BY <2>3
<1>2. PICK z \in T : \A y \in T : z >= y
  <2> DEFINE U == {n - y : y \in T}
  <2>1. U \subseteq Nat /\ U # {}
    OBVIOUS
  <2>2. PICK u \in U : \A v \in U : ~(v < u)
    BY <2>1, Least
  <2>3. PICK z \in T : u = n - z
    BY <2>2
  <2>4. ASSUME NEW y \in T PROVE z >= y
    <3>1. n - y \in U
      OBVIOUS
    <3>2. ~(n - y < n - z)
      BY <2>2, <2>3, <3>1
    <3> QED
      BY <3>2
  <2> QED
    BY <2>4
<1>3. Min(T) \in T /\ \A y \in T : Min(T) <= y
  BY <1>1 DEF Min
<1>4. Max(T) \in T /\ \A y \in T : Max(T) >= y
  BY <1>2 DEF Max
<1>5. \A y \in T : y <= Max(T)
  BY <1>4
<1> QED
  BY <1>3, <1>4, <1>5

Trimmed(value) == value # << >> => Head(value) \notin Space /\ Last(value) \notin Space

\* What the two loops of addHeader leave of a value.
LEMMA TrimIs ==
    ASSUME NEW s \in Seq(Token)
    PROVE  TrimBack(TrimFront(s)) \in Seq(Token) /\ Trimmed(TrimBack(TrimFront(s)))
<1>1. PICK u : u = TrimFront(s)
  OBVIOUS
<1>2. PICK v : v = TrimBack(u)
  OBVIOUS
<1>3. << >> \in Seq(Token) /\ Len(<< >>) = 0
  BY EmptySeq
<1>4. CASE Kept(s) = {}
  <2>1. u = << >>
    BY <1>1, <1>4 DEF TrimFront
  <2>2. Kept(u) = {}
    BY <1>3, <2>1 DEF Kept
  <2>3. v = << >>
    BY <1>2, <2>2 DEF TrimBack
  <2> QED
    BY <1>1, <1>2, <1>3, <2>3 DEF Trimmed
<1>5. CASE Kept(s) # {}
  <2>1. PICK m : m = Min(Kept(s)) /\ m \in Kept(s)
    <3>1. Len(s) \in Nat /\ Kept(s) \subseteq 1 .. Len(s)
      BY DEF Kept
    <3>2. Min(Kept(s)) \in Kept(s)
      BY <1>5, <3>1, ExtremesOf
    <3> QED
      BY <3>2
  <2>2. m \in 1 .. Len(s) /\ s[m] \notin Space /\ Len(s) \in Nat
    BY <2>1 DEF Kept
  <2>3. u = SubSeq(s, m, Len(s))
    BY <1>1, <1>5, <2>1 DEF TrimFront
  <2>4. \A i \in m .. Len(s) : s[i] \in Token
    BY <2>2
  <2>5. /\ u \in Seq(Token) /\ Len(u) = Len(s) - m + 1
        /\ \A i \in 1 .. Len(s) - m + 1 : u[i] = s[m + i - 1]
    BY <2>2, <2>3, <2>4, SubSeqProperties
  <2>6. 1 \in 1 .. Len(u) /\ u[1] = s[m]
    <3>1. 1 \in 1 .. Len(s) - m + 1 /\ m + 1 - 1 = m
      BY <2>2
    <3> QED
      BY <2>5, <3>1
  <2>7. 1 \in Kept(u)
    BY <2>2, <2>6 DEF Kept
  <2>8. PICK k : k = Max(Kept(u)) /\ k \in Kept(u)
    <3>1. Len(u) \in Nat /\ Kept(u) \subseteq 1 .. Len(u)
      BY <2>5 DEF Kept
    <3>2. Max(Kept(u)) \in Kept(u)
      BY <2>7, <3>1, ExtremesOf
    <3> QED
      BY <3>2
  <2>9. k \in 1 .. Len(u) /\ u[k] \notin Space /\ Len(u) \in Nat
    BY <2>5, <2>8 DEF Kept
  <2>10. v = SubSeq(u, 1, k)
    BY <1>2, <2>7, <2>8 DEF TrimBack
  <2>11. \A i \in 1 .. k : u[i] \in Token
    BY <2>5, <2>9
  <2>12. /\ v \in Seq(Token) /\ Len(v) = k - 1 + 1
         /\ \A i \in 1 .. k - 1 + 1 : v[i] = u[1 + i - 1]
    BY <2>9, <2>10, <2>11, SubSeqProperties
  <2>13. Len(v) = k /\ v[1] = u[1] /\ v[k] = u[k]
    <3>1. k - 1 + 1 = k /\ 1 \in 1 .. k /\ k \in 1 .. k /\ 1 + 1 - 1 = 1 /\ 1 + k - 1 = k
      BY <2>9
    <3> QED
      BY <2>12, <3>1
  <2>14. Head(v) = v[1] /\ Last(v) = v[k]
    BY <2>9, <2>12, <2>13 DEF Last
  <2>15. Head(v) \notin Space /\ Last(v) \notin Space
    BY <2>2, <2>6, <2>9, <2>13, <2>14
  <2> QED
    BY <1>1, <1>2, <2>12, <2>15 DEF Trimmed
<1> QED
  BY <1>4, <1>5

-------------------------------------------------------------------------------
\* The invariant: every field stored is a text without a colon, and every value is trimmed.
LineInv ==
    /\ line \in Seq(Token)
    /\ \A field \in DOMAIN headers :
          /\ field \in Seq(Token) /\ "colon" \notin ToSet(field)
          /\ Trimmed(headers[field])

LEMMA LineInitKeeps == LineInit => LineInv
  BY StartsAssumption DEF LineInit, LineInv

\* addHeader: the field is the text before the first colon.
LEMMA HeaderEndsKeeps == ASSUME LineInv, HeaderEnds PROVE LineInv'
<1>1. line \in Seq(Token)
  BY DEF LineInv
<1>2. PICK n : n = Len(line) /\ n \in Nat
  BY <1>1
<1>3. PICK sign : sign = "colon"
  OBVIOUS
<1>4. PICK colon : colon = find(line, 1, n + 1, sign)
  OBVIOUS
<1>5. \/ colon = n + 1 /\ \A j \in 1 .. n + 1 - 1 : line[j] # sign
      \/ colon \in 1 .. n + 1 - 1 /\ line[colon] = sign /\ \A j \in 1 .. colon - 1 : line[j] # sign
  <2>1. PICK e, b : e = n + 1 /\ b = 1 /\ e \in Nat /\ b \in Nat
    BY <1>2
  <2>2. \/ colon = e /\ \A j \in b .. e - 1 : line[j] # sign
        \/ colon \in b .. e - 1 /\ line[colon] = sign /\ \A j \in b .. colon - 1 : line[j] # sign
    BY <1>4, <2>1, FindIs
  <2> QED
    BY <1>2, <2>1, <2>2
<1>6. colon \in 1 .. n + 1 /\ \A j \in 1 .. colon - 1 : line[j] # sign
  BY <1>2, <1>5
<1>7. \A j \in 1 .. n : line[j] \in Token
  BY <1>1, <1>2
<1>8. PICK name : name = Text(line, 1, colon)
  OBVIOUS
<1>9. PICK rest : rest = Text(line, colon + 1, n + 1)
  OBVIOUS
<1>10. PICK value : value = TrimBack(TrimFront(rest))
  OBVIOUS
<1>11. name \in Seq(Token) /\ sign \notin ToSet(name)
  <2>1. \A i \in 1 .. colon - 1 : line[i] \in Token
    BY <1>2, <1>6, <1>7
  <2>2. /\ name \in Seq(Token)
        /\ Len(name) = IF 1 <= colon - 1 THEN (colon - 1) - 1 + 1 ELSE 0
        /\ \A i \in 1 .. (colon - 1) - 1 + 1 : name[i] = line[1 + i - 1]
    BY <1>2, <1>6, <1>8, <2>1, SubSeqProperties DEF Text
  <2>3. Len(name) = colon - 1 /\ (colon - 1) - 1 + 1 = colon - 1
    BY <1>2, <1>6, <2>2
  <2>4. ASSUME NEW i \in 1 .. Len(name) PROVE name[i] # sign
    <3>1. i \in 1 .. colon - 1 /\ 1 + i - 1 = i
      BY <2>3
    <3> QED
      BY <1>6, <2>2, <2>3, <3>1
  <2> QED
    BY <2>2, <2>4, InToSet
<1>12. Trimmed(value)
  <2>1. rest \in Seq(Token)
    BY <1>2, <1>6, <1>7, <1>9, SubSeqProperties DEF Text
  <2> QED
    BY <1>10, <2>1, TrimIs
<1>13. headers' = [f \in DOMAIN headers \union {name} |-> IF f = name THEN value ELSE headers[f]]
  BY <1>2, <1>3, <1>4, <1>8, <1>9, <1>10 DEF HeaderEnds, addHeaderText
<1>14. line' \in Seq(Token)
  BY EmptySeq DEF HeaderEnds
<1>15. ASSUME NEW f \in DOMAIN headers'
       PROVE  f \in Seq(Token) /\ sign \notin ToSet(f) /\ Trimmed(headers'[f])
  <2>1. CASE f = name
    <3>1. headers'[f] = value
      BY <1>13, <2>1
    <3> QED
      BY <1>11, <1>12, <2>1, <3>1
  <2>2. CASE f # name
    <3>1. f \in DOMAIN headers /\ headers'[f] = headers[f]
      BY <1>13, <2>2
    <3> QED
      BY <1>3, <3>1 DEF LineInv
  <2> QED
    BY <2>1, <2>2
<1> QED
  BY <1>3, <1>14, <1>15 DEF LineInv, Trimmed

LEMMA LineStep == LineInv /\ [LineNext]_lineVars => LineInv'
<1> SUFFICES ASSUME LineInv, [LineNext]_lineVars PROVE LineInv'
  OBVIOUS
<1>1. ASSUME NEW token \in Token, Arrives(token) PROVE LineInv'
  <2>1. line' \in Seq(Token) /\ headers' = headers
    BY <1>1 DEF LineInv, Arrives
  <2> QED
    BY <2>1 DEF LineInv
<1>2. CASE HeaderEnds
  BY <1>2, HeaderEndsKeeps
<1>3. CASE UNCHANGED lineVars
  BY <1>3 DEF lineVars, LineInv
<1> QED
  BY <1>1, <1>2, <1>3 DEF LineNext

\* Where the invariant holds, the line and what is stored are understood.
LEMMA LineInvUnderstood == LineInv => LinesAreUnderstood
<1> SUFFICES ASSUME LineInv PROVE LinesAreUnderstood
  OBVIOUS
<1>1. line \in Seq(Token)
  BY DEF LineInv
<1>2. ASSUME NEW field \in DOMAIN headers
      PROVE  /\ "colon" \notin ToSet(field)
             /\ getHeader(field) # << >> =>
                   Head(getHeader(field)) \notin Space /\ Last(getHeader(field)) \notin Space
  BY DEF LineInv, Trimmed, getHeader
<1> QED
  BY <1>1, <1>2, Understood DEF LinesAreUnderstood

\* Whatever comes after a request line's beginning, it is taken for a request exactly if the
\* grammar allows it, and with the parts the grammar gives it; and the headers that addHeader
\* stores have neither a colon in the field nor white space about the value.
THEOREM LinesUnderstood == LineSpec => []LinesAreUnderstood
<1>1. LineSpec => []LineInv
  BY LineInitKeeps, LineStep, PTL DEF LineSpec
<1> QED
  BY <1>1, LineInvUnderstood, PTL
================================================================================
