---------------------------- MODULE UtilityProofs ----------------------------
(***************************************************************************)
(* Proofs about the options of webbench: whatever is on the command line,  *)
(* the request is one a server understands.  Proofs about LogStream, for   *)
(* any numbers and sizes: the text of a number is that number, and fits.   *)
(* Proofs about BufferIntegers, for any byte orders, values of a byte and  *)
(* lines: the reader takes out what the writer has put in.                 *)
(***************************************************************************)
EXTENDS WebBenchOptions, LogStream, BufferIntegers, SequenceTheorems, WellFoundedInduction, TLAPS

\* Only the option that names a proxy sets a port before build_request does.
OptionsInv ==
    /\ RequestIsWellFormed
    /\ command.at = "options" => globals.proxyhost \/ globals.proxyport = 80

-------------------------------------------------------------------------------
\* The version that is taken is one that has what the options ask for.
LEMMA VersionFits ==
    ASSUME NEW g \in Globals
    PROVE  /\ Version(g) \in 0 .. 2
           /\ Version(g) = 0 => g.method = "GET" /\ ~(g.force_reload /\ g.proxyhost)
           /\ g.method \in {"OPTIONS", "TRACE"} => Version(g) = 2
  BY DEF Globals, Version, Methods

\* A line of the request that is there if it is wanted.
Line(given, name) == IF given THEN <<name>> ELSE << >>

LEMMA LineIs ==
    ASSUME NEW S, NEW given \in BOOLEAN, NEW name \in S
    PROVE  /\ Line(given, name) \in Seq(S)
           /\ ToSet(Line(given, name)) = IF given THEN {name} ELSE {}
  BY DEF Line, ToSet

LEMMA ToSetConcat ==
    ASSUME NEW S, NEW s \in Seq(S), NEW t \in Seq(S)
    PROVE  s \o t \in Seq(S) /\ ToSet(s \o t) = ToSet(s) \union ToSet(t)
<1> DEFINE u == s \o t
<1>1. Len(u) = Len(s) + Len(t) /\ Len(s) \in Nat /\ Len(t) \in Nat
  OBVIOUS
<1>2. \A i \in 1 .. Len(s) : i \in 1 .. Len(u) /\ u[i] = s[i]
  BY <1>1
<1>3. \A i \in 1 .. Len(t) : Len(s) + i \in 1 .. Len(u) /\ u[Len(s) + i] = t[i]
  BY <1>1
<1>4. ASSUME NEW i \in 1 .. Len(u) PROVE u[i] \in ToSet(s) \union ToSet(t)
  <2>1. CASE i \in 1 .. Len(s)
    BY <1>2, <2>1 DEF ToSet
  <2>2. CASE i \notin 1 .. Len(s)
    <3>1. i - Len(s) \in 1 .. Len(t) /\ Len(s) + (i - Len(s)) = i
      BY <1>1, <2>2
    <3>2. u[i] = t[i - Len(s)]
      BY <1>3, <3>1
    <3> QED
      BY <3>1, <3>2 DEF ToSet
  <2> QED
    BY <2>1, <2>2
<1>5. DOMAIN u = 1 .. Len(u) /\ DOMAIN s = 1 .. Len(s) /\ DOMAIN t = 1 .. Len(t)
  OBVIOUS
<1> HIDE DEF u
<1>6. ToSet(s) \union ToSet(t) \subseteq ToSet(u)
  BY <1>2, <1>3, <1>5 DEF ToSet
<1>7. ToSet(u) \subseteq ToSet(s) \union ToSet(t)
  BY <1>4, <1>5 DEF ToSet
<1> QED
  BY <1>6, <1>7 DEF u

LEMMA SeqWider == ASSUME NEW S, NEW T, S \subseteq T, NEW s \in Seq(S) PROVE s \in Seq(T)
<1>1. \A i \in 1 .. Len(s) : s[i] \in T
  OBVIOUS
<1> QED
  BY <1>1

LEMMA LastLine ==
    ASSUME NEW S, NEW s \in Seq(S), NEW x \in S
    PROVE  Last(s \o <<x>>) = x /\ Front(s \o <<x>>) = s
  BY DEF Last, Front

Names == {"User-Agent", "Host", "Pragma", "Keep-Alive", "close"}

LEMMA HeadersFit ==
    ASSUME NEW g \in Globals
    PROVE  LET h == Headers(g)
           IN  IF Version(g) = 0 THEN h = << >>
               ELSE /\ Last(h) = "blank"
                    /\ ToSet(Front(h)) \cap {"blank"} = {}
                    /\ "Host" \in ToSet(h) <=> ~g.proxyhost
<1> DEFINE v == Version(g)
           a == Line(v > 0, "User-Agent")
           b == Line(~g.proxyhost /\ v > 0, "Host")
           c == Line(g.force_reload /\ g.proxyhost, "Pragma")
           d == Line(v > 1, IF g.keep_alive THEN "Keep-Alive" ELSE "close")
           e == Line(v > 0, "blank")
           h == a \o b \o c \o d
<1>1. Headers(g) = h \o e
  BY DEF Headers, Line
<1>2. v \in 0 .. 2 /\ (v = 0 => ~(g.force_reload /\ g.proxyhost))
  BY VersionFits
<1>3. g.proxyhost \in BOOLEAN /\ g.force_reload \in BOOLEAN /\ g.keep_alive \in BOOLEAN
  BY DEF Globals
<1>4. CASE v = 0
  <2>1. a = << >> /\ b = << >> /\ c = << >> /\ d = << >> /\ e = << >>
    BY <1>2, <1>3, <1>4 DEF Line
  <2>2. h \o e = << >>
    BY <2>1
  <2> QED
    BY <1>1, <1>4, <2>2
<1>5. CASE v # 0
  <2>1. v > 0 /\ e = <<"blank">>
    BY <1>2, <1>5 DEF Line
  <2>2. a \in Seq(Names) /\ ToSet(a) = {"User-Agent"}
    BY <2>1, LineIs DEF Names
  <2>3. b \in Seq(Names) /\ ToSet(b) = IF ~g.proxyhost THEN {"Host"} ELSE {}
    BY <2>1, <1>3, LineIs DEF Names
  <2>4. c \in Seq(Names) /\ ToSet(c) \subseteq {"Pragma"}
    BY <1>3, LineIs DEF Names
  <2>5. d \in Seq(Names) /\ ToSet(d) \subseteq {"Keep-Alive", "close"}
    <3>1. (v > 1) \in BOOLEAN /\ (IF g.keep_alive THEN "Keep-Alive" ELSE "close") \in Names
      BY <1>3 DEF Names
    <3> QED
      BY <3>1, LineIs
  <2> HIDE DEF a, b, c, d
  <2>6. /\ h \in Seq(Names)
        /\ ToSet(h) = ToSet(a) \union ToSet(b) \union ToSet(c) \union ToSet(d)
    <3> DEFINE ab == a \o b
               abc == ab \o c
    <3>1. ab \in Seq(Names) /\ ToSet(ab) = ToSet(a) \union ToSet(b)
      BY <2>2, <2>3, ToSetConcat
    <3> HIDE DEF ab
    <3>2. abc \in Seq(Names) /\ ToSet(abc) = ToSet(ab) \union ToSet(c)
      BY <3>1, <2>4, ToSetConcat
    <3> HIDE DEF abc
    <3>3. abc \o d \in Seq(Names) /\ ToSet(abc \o d) = ToSet(abc) \union ToSet(d)
      BY <3>2, <2>5, ToSetConcat
    <3> QED
      BY <3>1, <3>2, <3>3 DEF ab, abc
  <2> HIDE DEF h
  <2>7. Last(h \o <<"blank">>) = "blank" /\ Front(h \o <<"blank">>) = h
    <3>1. h \in Seq(Names \union {"blank"})
      BY <2>6, SeqWider
    <3> QED
      BY <3>1, LastLine
  <2>8. ToSet(h \o <<"blank">>) = ToSet(h) \union {"blank"}
    <3>1. h \in Seq(Names \union {"blank"})
      BY <2>6, SeqWider
    <3> DEFINE t == <<"blank">>
    <3>2. t \in Seq(Names \union {"blank"}) /\ ToSet(t) = {"blank"}
      BY DEF ToSet
    <3> HIDE DEF t
    <3>3. ToSet(h \o t) = ToSet(h) \union ToSet(t)
      BY <3>1, <3>2, ToSetConcat
    <3> QED
      BY <3>2, <3>3 DEF t
  <2>9. ToSet(h) \cap {"blank"} = {} /\ ("Host" \in ToSet(h) <=> ~g.proxyhost)
    BY <1>3, <2>2, <2>3, <2>4, <2>5, <2>6
  <2> QED
    BY <1>1, <1>5, <2>1, <2>7, <2>8, <2>9
<1> QED
  BY <1>4, <1>5

-------------------------------------------------------------------------------
\* The steps.

LEMMA BuildKeeps == ASSUME OptionsInv, Build PROVE OptionsInv'
<1> USE DEF OptionsInv, RequestIsWellFormed
<1>1. globals \in Globals /\ (globals.proxyhost \/ globals.proxyport = 80)
  BY DEF Build, OptionsTypeOK
<1> DEFINE v == Version(globals)
           h == Headers(globals)
<1>2. /\ v \in 0 .. 2 /\ (v = 0 => globals.method = "GET")
      /\ globals.method \in {"OPTIONS", "TRACE"} => v = 2
  BY <1>1, VersionFits
<1>3. IF v = 0 THEN h = << >>
      ELSE /\ Last(h) = "blank" /\ ToSet(Front(h)) \cap {"blank"} = {}
           /\ "Host" \in ToSet(h) <=> ~globals.proxyhost
  BY <1>1, HeadersFit
<1>4. /\ request'.method = globals.method /\ request'.version = v /\ request'.headers = h
      /\ request'.target = IF globals.proxyhost THEN "url" ELSE "path"
  BY DEF Build
<1> HIDE DEF v, h
<1>5. command' = [command EXCEPT !.at = "bench"] /\ OptionsTypeOK
  BY DEF Build
<1>6. /\ globals' \in Globals /\ globals'.clients # 0 /\ globals'.benchtime # 0
      /\ globals'.proxyhost = globals.proxyhost
      /\ globals'.proxyport = PortOf(command.url, globals)
  <2> DEFINE p == PortOf(command.url, globals)
             n == IF globals.clients = 0 THEN 1 ELSE globals.clients
             t == IF globals.benchtime = 0 THEN 30 ELSE globals.benchtime
  <2>1. globals' = [globals EXCEPT !.clients = n, !.benchtime = t, !.http10 = v, !.proxyport = p]
    BY DEF Build, v
  <2>2. p \in Int
    <3>1. globals.proxyport \in Int /\ command.url.port \in {<< >>} \union {<<k>> : k \in Given}
      BY <1>1, <1>5 DEF Globals, OptionsTypeOK, Urls
    <3> QED
      BY <3>1, GivenAssumption DEF PortOf, GivenAssumption
  <2>3. n \in Int /\ n # 0 /\ t \in Int /\ t # 0
    BY <1>1 DEF Globals
  <2> HIDE DEF p, n, t
  <2>4. globals' \in Globals /\ globals'.clients = n /\ globals'.benchtime = t
        /\ globals'.proxyport = p /\ globals'.proxyhost = globals.proxyhost
    BY <1>1, <1>2, <2>1, <2>2, <2>3 DEF Globals
  <2> QED
    BY <2>3, <2>4 DEF p
<1>7. OptionsTypeOK'
  BY <1>1, <1>2, <1>4, <1>5, <1>6 DEF OptionsTypeOK, Globals
<1>8. command'.at = "bench" /\ command'.url = command.url /\ command.url \in Urls
  BY <1>5 DEF OptionsTypeOK
\* A direct request goes to the port of its URL.
<1>9. ~globals.proxyhost =>
         PortOf(command.url, globals) = IF command.url.port \in {<< >>, <<0>>}
                                        THEN 80 ELSE Head(command.url.port)
  <2>1. CASE command.url.port = << >>
    BY <1>1, <2>1 DEF PortOf
  <2>2. ASSUME NEW k \in Given, command.url.port = <<k>>, ~globals.proxyhost
        PROVE  PortOf(command.url, globals) = IF command.url.port \in {<< >>, <<0>>}
                                              THEN 80 ELSE Head(command.url.port)
    <3>1. <<k>> # << >> /\ (<<k>> = <<0>> <=> k = 0) /\ Head(<<k>>) = k
      BY GivenAssumption DEF GivenAssumption
    <3> QED
      BY <2>2, <3>1 DEF PortOf
  <2> QED
    BY <1>8, <2>1, <2>2 DEF Urls
<1>10. globals.proxyhost \in BOOLEAN
  BY <1>1 DEF Globals
<1> QED
  BY <1>2, <1>3, <1>4, <1>6, <1>7, <1>8, <1>9, <1>10

LEMMA OptionKeeps == ASSUME OptionsInv, ParseOption \/ ParseProxy PROVE OptionsInv'
<1> USE DEF OptionsInv, RequestIsWellFormed
<1>1. ASSUME NEW g \in Globals, g.proxyhost \/ g.proxyport = 80, Set(g) PROVE OptionsInv'
  BY <1>1, MaxOptionsAssumption DEF Set, OptionsTypeOK
<1>2. /\ command.at = "options" /\ globals \in Globals
      /\ globals.proxyhost \/ globals.proxyport = 80
      /\ Given \subseteq Int
  BY GivenAssumption DEF ParseOption, ParseProxy, Set, OptionsTypeOK, GivenAssumption
<1>3. CASE ParseOption
  <2>1. \E g \in Globals : (g.proxyhost \/ g.proxyport = 80) /\ Set(g)
    BY <1>2, <1>3 DEF ParseOption, Globals
  <2> QED
    BY <1>1, <2>1
<1>4. CASE ParseProxy
  <2>1. /\ [globals EXCEPT !.proxyhost = TRUE] \in Globals
        /\ [globals EXCEPT !.proxyhost = TRUE].proxyhost
    BY <1>2 DEF Globals
  <2>2. ASSUME NEW n \in Given
        PROVE  /\ [globals EXCEPT !.proxyhost = TRUE, !.proxyport = n] \in Globals
               /\ [globals EXCEPT !.proxyhost = TRUE, !.proxyport = n].proxyhost
    BY <1>2 DEF Globals
  <2> QED
    BY <1>1, <1>4, <2>1, <2>2 DEF ParseProxy
<1> QED
  BY <1>3, <1>4

LEMMA EndKeeps == ASSUME OptionsInv, GiveUp \/ Refuse PROVE OptionsInv'
  BY DEF OptionsInv, RequestIsWellFormed, GiveUp, Refuse, Exit, OptionsTypeOK

\* Whatever is on the command line, in whatever order, and whatever the URL: a request that is
\* sent is one that a server of its version understands.
THEOREM RequestsAreWellFormed == OptionsSpec => []RequestIsWellFormed
<1>1. OptionsInit => OptionsInv
  BY MaxOptionsAssumption DEF OptionsInit, OptionsInv, RequestIsWellFormed, OptionsTypeOK, Globals,
     Methods, NoRequest
<1>2. OptionsInv /\ [OptionsNext]_optionVars => OptionsInv'
  <2>1. CASE UNCHANGED optionVars
    BY <2>1 DEF optionVars, OptionsInv, RequestIsWellFormed, OptionsTypeOK
  <2> QED
    BY <2>1, BuildKeeps, OptionKeeps, EndKeeps DEF OptionsNext
<1> QED
  BY <1>1, <1>2, PTL DEF OptionsSpec, OptionsInv

-------------------------------------------------------------------------------
\* Numbers and recursive functions.

\* Every set of natural numbers has a least element.
LEMMA Least ==
    ASSUME NEW T, T \subseteq Nat, T # {}
    PROVE  \E x \in T : \A y \in T : ~(y < x)
<1>1. \E x \in T : \A y \in T : <<y, x>> \notin OpToRel(<, Nat)
  BY WFMin, NatLessThanWellFounded
<1> QED
  BY <1>1 DEF OpToRel

\* Induction, for a property that is the membership in a set.
LEMMA SetInduction ==
    ASSUME NEW S, 0 \in S, \A n \in Nat : n \in S => n + 1 \in S
    PROVE  \A n \in Nat : n \in S
<1> SUFFICES ASSUME Nat \ S # {} PROVE FALSE
  OBVIOUS
<1>1. PICK x \in Nat \ S : \A y \in Nat \ S : ~(y < x)
  BY Least
<1>2. x - 1 \in Nat
  BY <1>1
<1>3. x - 1 \in S
  BY <1>1, <1>2
<1> QED
  BY <1>1, <1>2, <1>3

-------------------------------------------------------------------------------
\* The text of a number.

\* The quotient of a number without its sign.
Abs(i) == IF i < 0 THEN -i ELSE i

LEMMA TurnIs ==
    ASSUME NEW i \in Int
    PROVE  /\ Quotient(i) \in Int /\ Abs(i) \in Nat /\ Abs(Quotient(i)) \in Nat
           /\ Digit(Remainder(i)) \in 0 .. 9
           /\ Abs(i) = 10 * Abs(Quotient(i)) + Digit(Remainder(i))
<1>1. CASE i < 0
  <2>1. PICK a : a = -i /\ a \in Nat /\ a # 0
    BY <1>1
  <2>2. PICK q : q = a \div 10
    OBVIOUS
  <2>3. q \in Nat /\ a - 10 * q \in 0 .. 9
    BY <2>1, <2>2
  <2>4. Quotient(i) = -q /\ Abs(i) = a
    BY <1>1, <2>1, <2>2 DEF Quotient, Abs
  <2>5. Abs(Quotient(i)) = q
    BY <2>3, <2>4 DEF Abs
  <2>6. Remainder(i) = -(a - 10 * q)
    BY <2>1, <2>3, <2>4 DEF Remainder
  <2>7. Digit(Remainder(i)) = a - 10 * q
    BY <2>1, <2>3, <2>6 DEF Digit
  <2> QED
    BY <2>1, <2>3, <2>4, <2>5, <2>7
<1>2. CASE ~(i < 0)
  <2>2. PICK q : q = i \div 10
    OBVIOUS
  <2>3. q \in Nat /\ i - 10 * q \in 0 .. 9
    BY <1>2, <2>2
  <2>4. Quotient(i) = q /\ Abs(i) = i
    BY <1>2, <2>2 DEF Quotient, Abs
  <2>5. Abs(Quotient(i)) = q
    BY <2>3, <2>4 DEF Abs
  <2>6. Remainder(i) = i - 10 * q
    BY <2>4 DEF Remainder
  <2>7. Digit(Remainder(i)) = i - 10 * q
    BY <2>3, <2>6 DEF Digit
  <2> QED
    BY <1>2, <2>3, <2>4, <2>5, <2>7
<1> QED
  BY <1>1, <1>2

\* What one function of the numbers up to m makes of those before: f[0] is a, and f[k] is in
\* next[k, f[k - 1]].
Chain(f, next, a, m) == f = [k \in 0 .. m |-> IF k = 0 THEN a ELSE next[<<k, f[k - 1]>>]]

LEMMA ChainExists ==
    ASSUME NEW next, NEW a
    PROVE  \A m \in Nat : \E f : Chain(f, next, a, m)
<1> DEFINE S == {m \in Nat : \E f : Chain(f, next, a, m)}
<1>1. 0 \in S
  <2>1. Chain([k \in 0 .. 0 |-> a], next, a, 0)
    BY DEF Chain
  <2> QED
    BY <2>1
<1>2. ASSUME NEW m \in Nat, m \in S
      PROVE  m + 1 \in S
  <2>1. PICK f : Chain(f, next, a, m)
    BY <1>2
  <2> DEFINE g == [k \in 0 .. m + 1 |-> IF k = m + 1 THEN next[<<m + 1, f[m]>>] ELSE f[k]]
  <2>2. f = [k \in 0 .. m |-> IF k = 0 THEN a ELSE next[<<k, f[k - 1]>>]]
    BY <2>1 DEF Chain
  <2>3. ASSUME NEW k \in 0 .. m + 1
        PROVE  g[k] = IF k = 0 THEN a ELSE next[<<k, g[k - 1]>>]
    <3>1. CASE k = m + 1
      <4>1. g[k] = next[<<m + 1, f[m]>>] /\ k # 0 /\ k - 1 = m
        BY <3>1
      <4>2. g[m] = f[m]
        OBVIOUS
      <4> QED
        BY <3>1, <4>1, <4>2
    <3>2. CASE k \in 0 .. m
      <4>1. f[k] = IF k = 0 THEN a ELSE next[<<k, f[k - 1]>>]
        BY <2>2, <3>2
      <4>2. g[k] = f[k] /\ (k # 0 => g[k - 1] = f[k - 1])
        BY <3>2
      <4> QED
        BY <4>1, <4>2
    <3> QED
      BY <3>1, <3>2
  <2>4. Chain(g, next, a, m + 1)
    <3> DEFINE h == [k \in 0 .. m + 1 |-> IF k = 0 THEN a ELSE next[<<k, g[k - 1]>>]]
    <3>1. \A k \in 0 .. m + 1 : g[k] = h[k]
      BY <2>3
    <3>2. g = h
      BY <3>1
    <3> QED
      BY <3>2 DEF Chain
  <2> QED
    BY <2>4
<1> HIDE DEF S
<1>3. \A m \in Nat : m \in S
  BY <1>1, <1>2, SetInduction
<1> QED
  BY <1>3 DEF S

\* If next keeps to C, the elements of a chain are of C.
LEMMA ChainWithin ==
    ASSUME NEW C, NEW m \in Nat, NEW next, NEW a \in C, NEW f, Chain(f, next, a, m),
           \A k \in 1 .. m : \A x \in C : next[<<k, x>>] \in C
    PROVE  /\ f[0] = a
           /\ \A k \in 1 .. m : f[k] = next[<<k, f[k - 1]>>]
           /\ \A k \in 0 .. m : f[k] \in C
<1>1. f = [k \in 0 .. m |-> IF k = 0 THEN a ELSE next[<<k, f[k - 1]>>]]
  BY DEF Chain
<1>2. f[0] = a /\ \A k \in 1 .. m : f[k] = next[<<k, f[k - 1]>>]
  BY <1>1
<1> DEFINE S == {k \in Nat : k <= m => f[k] \in C}
<1>3. 0 \in S
  BY <1>2
<1>4. ASSUME NEW k \in Nat, k \in S PROVE k + 1 \in S
  <2>1. CASE k + 1 <= m
    <3>1. f[k] \in C /\ k + 1 \in 1 .. m /\ (k + 1) - 1 = k
      BY <1>4, <2>1
    <3>2. f[k + 1] = next[<<k + 1, f[k]>>]
      BY <1>2, <3>1
    <3>3. f[k + 1] \in C
      BY <3>1, <3>2
    <3> QED
      BY <3>3
  <2> QED
    BY <2>1
<1> HIDE DEF S
<1>5. \A k \in Nat : k \in S
  BY <1>3, <1>4, SetInduction
<1> QED
  BY <1>2, <1>5 DEF S

LEMMA PowerIs ==
    /\ Power[0] = 1
    /\ \A k \in 1 .. Digits : Power[k] = 10 * Power[k - 1]
    /\ \A k \in 0 .. Digits : Power[k] \in Nat
<1> DEFINE next == [p \in (1 .. Digits) \X Nat |-> 10 * p[2]]
           F(t) == [k \in 0 .. Digits |-> IF k = 0 THEN 1 ELSE 10 * t[k - 1]]
<1>1. Digits \in Nat
  BY SizesAssumption
<1>2. \A k \in 1 .. Digits : \A x \in Nat : next[<<k, x>>] = 10 * x /\ 10 * x \in Nat
  OBVIOUS
<1> HIDE DEF next
<1>3. PICK f : Chain(f, next, 1, Digits)
  BY <1>1, ChainExists
<1>4. /\ f[0] = 1 /\ \A k \in 1 .. Digits : f[k] = next[<<k, f[k - 1]>>]
      /\ \A k \in 0 .. Digits : f[k] \in Nat
  <2>1. PICK C, a, m : C = Nat /\ a = 1 /\ m = Digits
    OBVIOUS
  <2>2. m \in Nat /\ a \in C /\ Chain(f, next, a, m)
    BY <1>1, <1>3, <2>1
  <2>3. \A k \in 1 .. m : \A x \in C : next[<<k, x>>] \in C
    <3>1. \A k \in 1 .. Digits : \A x \in Nat : next[<<k, x>>] \in Nat
      BY <1>2
    <3> QED
      BY <2>1, <3>1
  <2>4. f = [k \in 0 .. Digits |-> IF k = 0 THEN 1 ELSE next[<<k, f[k - 1]>>]]
    BY <1>3 DEF Chain
  <2>5. f[0] = 1 /\ \A k \in 1 .. Digits : f[k] = next[<<k, f[k - 1]>>]
    BY <1>1, <2>4
  <2>6. \A k \in 0 .. m : f[k] \in C
    BY <2>2, <2>3, ChainWithin
  <2> QED
    BY <2>1, <2>4, <2>5, <2>6
<1>5. f = F(f)
  <2>1. f = [k \in 0 .. Digits |-> IF k = 0 THEN 1 ELSE next[<<k, f[k - 1]>>]]
    BY <1>3 DEF Chain
  <2>2. ASSUME NEW k \in 1 .. Digits PROVE next[<<k, f[k - 1]>>] = 10 * f[k - 1]
    BY <1>1, <1>2, <1>4
  <2>3. \A k \in 0 .. Digits : (IF k = 0 THEN 1 ELSE next[<<k, f[k - 1]>>]) = (IF k = 0 THEN 1 ELSE 10 * f[k - 1])
    BY <1>1, <2>2
  <2> QED
    BY <2>1, <2>3
<1>6. Power = CHOOSE t : t = F(t)
  BY DEF Power
<1>7. Power = F(Power)
  BY <1>5, <1>6
<1>8. \A k \in 0 .. Digits : Power[k] = IF k = 0 THEN 1 ELSE 10 * Power[k - 1]
  BY <1>7
<1>9. Power[0] = 1 /\ \A k \in 1 .. Digits : Power[k] = 10 * Power[k - 1]
  BY <1>1, <1>8
<1> DEFINE S == {k \in Nat : k <= Digits => Power[k] \in Nat}
<1>10. 0 \in S
  BY <1>9
<1>11. ASSUME NEW k \in Nat, k \in S PROVE k + 1 \in S
  <2>1. CASE k + 1 <= Digits
    <3>1. Power[k] \in Nat /\ k + 1 \in 1 .. Digits /\ (k + 1) - 1 = k
      BY <1>1, <1>11, <2>1
    <3>2. Power[k + 1] = 10 * Power[k]
      BY <1>9, <3>1
    <3>3. Power[k + 1] \in Nat
      BY <3>1, <3>2
    <3> QED
      BY <3>3
  <2> QED
    BY <2>1
<1> HIDE DEF S
<1>12. \A k \in Nat : k \in S
  BY <1>10, <1>11, SetInduction
<1> QED
  BY <1>1, <1>9, <1>12 DEF S

\* What i is after each turn, and the number of turns: i is 0 for the first time.
Cuts(f, value, t) ==
    /\ t \in 1 .. Digits
    /\ f[0] = value
    /\ \A k \in 1 .. t : f[k] = Quotient(f[k - 1])
    /\ \A k \in 0 .. t : f[k] \in Int
    /\ f[t] = 0 /\ \A k \in 1 .. t - 1 : f[k] # 0

\* The loop of convert ends after at most Digits turns.
LEMMA ConvertIs ==
    ASSUME NEW value \in Int, value < Power[Digits], -value < Power[Digits]
    PROVE  \E f, t : /\ Cuts(f, value, t)
                     /\ convert(value) = Reverse([k \in 1 .. t |-> Digit(Remainder(f[k - 1]))]
                                                   \o (IF value < 0 THEN <<Minus>> ELSE << >>))
<1> DEFINE next == [p \in (1 .. Digits) \X Int |-> Quotient(p[2])]
           F(t) == [k \in 0 .. Digits |-> IF k = 0 THEN value ELSE Quotient(t[k - 1])]
           cut == CHOOSE t : t = F(t)
           turns == CHOOSE k \in 1 .. Digits : cut[k] = 0 /\ \A j \in 1 .. k - 1 : cut[j] # 0
<1>1. Digits \in Nat \ {0}
  BY SizesAssumption
<1>2. \A k \in 1 .. Digits : \A x \in Int : next[<<k, x>>] = Quotient(x) /\ Quotient(x) \in Int
  BY TurnIs
<1>3. convert(value) = Reverse([k \in 1 .. turns |-> Digit(Remainder(cut[k - 1]))]
                               \o (IF value < 0 THEN <<Minus>> ELSE << >>))
  BY DEF convert
<1>4. cut = F(cut)
  <2> HIDE DEF next
  <2>1. PICK f : Chain(f, next, value, Digits)
    BY <1>1, ChainExists
  <2>2. \A k \in 0 .. Digits : f[k] \in Int
    <3>1. PICK C, m : C = Int /\ m = Digits
      OBVIOUS
    <3>2. m \in Nat /\ value \in C /\ Chain(f, next, value, m)
      BY <1>1, <2>1, <3>1
    <3>3. \A k \in 1 .. m : \A x \in C : next[<<k, x>>] \in C
      BY <1>2, <3>1
    <3>4. \A k \in 0 .. m : f[k] \in C
      BY <3>2, <3>3, ChainWithin
    <3> QED
      BY <3>1, <3>4
  <2>3. f = F(f)
    <3>1. f = [k \in 0 .. Digits |-> IF k = 0 THEN value ELSE next[<<k, f[k - 1]>>]]
      BY <2>1 DEF Chain
    <3>2. ASSUME NEW k \in 1 .. Digits PROVE next[<<k, f[k - 1]>>] = Quotient(f[k - 1])
      BY <1>1, <1>2, <2>2
    <3>3. \A k \in 0 .. Digits : (IF k = 0 THEN value ELSE next[<<k, f[k - 1]>>])
                                   = (IF k = 0 THEN value ELSE Quotient(f[k - 1]))
      BY <1>1, <3>2
    <3> QED
      BY <3>1, <3>3
  <2> QED
    BY <2>3
<1>5. PICK f : f = cut
  OBVIOUS
<1>6. PICK t : t = turns
  OBVIOUS
<1>7. f = F(f) /\ t = CHOOSE k \in 1 .. Digits : f[k] = 0 /\ \A j \in 1 .. k - 1 : f[j] # 0
  BY <1>4, <1>5, <1>6
<1> HIDE DEF cut, turns
<1>8. \A k \in 0 .. Digits : f[k] = IF k = 0 THEN value ELSE Quotient(f[k - 1])
  BY <1>7
<1>9. f[0] = value /\ \A k \in 1 .. Digits : f[k] = Quotient(f[k - 1])
  BY <1>1, <1>8
<1> DEFINE S == {k \in Nat : k <= Digits => f[k] \in Int /\ Abs(f[k]) < Power[Digits - k]}
<1>10. 0 \in S
  <2>1. Abs(f[0]) < Power[Digits] /\ Digits - 0 = Digits
    BY <1>1, <1>9 DEF Abs
  <2> QED
    BY <1>9, <2>1
<1>11. ASSUME NEW k \in Nat, k \in S PROVE k + 1 \in S
  <2>1. CASE k + 1 <= Digits
    <3>1. f[k] \in Int /\ Abs(f[k]) < Power[Digits - k] /\ k + 1 \in 1 .. Digits /\ (k + 1) - 1 = k
      BY <1>1, <1>11, <2>1
    <3>2. f[k + 1] = Quotient(f[k])
      BY <1>9, <3>1
    <3>3. /\ f[k + 1] \in Int /\ Abs(f[k]) \in Nat /\ Abs(f[k + 1]) \in Nat
          /\ \E d \in 0 .. 9 : Abs(f[k]) = 10 * Abs(f[k + 1]) + d
      BY <3>1, <3>2, TurnIs
    <3>4. Power[Digits - k] = 10 * Power[Digits - (k + 1)] /\ Power[Digits - (k + 1)] \in Nat
      <4>1. Digits - k \in 1 .. Digits /\ (Digits - k) - 1 = Digits - (k + 1) /\ Digits - (k + 1) \in 0 .. Digits
        BY <1>1, <2>1
      <4>2. Power[Digits - k] = 10 * Power[(Digits - k) - 1]
        BY <4>1, PowerIs
      <4> QED
        BY <4>1, <4>2, PowerIs
    <3>5. Abs(f[k + 1]) < Power[Digits - (k + 1)]
      BY <3>1, <3>3, <3>4
    <3> QED
      BY <3>3, <3>5
  <2> QED
    BY <2>1
<1> HIDE DEF S
<1>12. \A k \in Nat : k \in S
  BY <1>10, <1>11, SetInduction
<1>13. \A k \in 0 .. Digits : f[k] \in Int /\ Abs(f[k]) < Power[Digits - k]
  BY <1>1, <1>12 DEF S
<1>14. f[Digits] = 0
  <2>1. f[Digits] \in Int /\ Abs(f[Digits]) < Power[Digits - Digits] /\ Digits - Digits = 0
    BY <1>1, <1>13
  <2>2. Abs(f[Digits]) < 1
    BY <2>1, PowerIs
  <2> QED
    BY <2>1, <2>2 DEF Abs
<1>15. t \in 1 .. Digits /\ f[t] = 0 /\ \A j \in 1 .. t - 1 : f[j] # 0
  <2> DEFINE zeros == {k \in 1 .. Digits : f[k] = 0}
  <2>1. zeros \subseteq Nat /\ Digits \in zeros
    BY <1>1, <1>14
  <2>2. PICK x \in zeros : \A y \in zeros : ~(y < x)
    BY <2>1, Least
  <2>3. x \in 1 .. Digits /\ f[x] = 0
    OBVIOUS
  <2>4. ASSUME NEW j \in 1 .. x - 1 PROVE f[j] # 0
    <3>1. j \in 1 .. Digits /\ j < x
      BY <1>1, <2>3
    <3> QED
      BY <2>2, <3>1
  <2> HIDE DEF zeros
  <2>5. \E k \in 1 .. Digits : f[k] = 0 /\ \A j \in 1 .. k - 1 : f[j] # 0
    BY <2>3, <2>4
  <2> QED
    BY <1>7, <2>5
<1>16. Cuts(f, value, t)
  BY <1>1, <1>9, <1>13, <1>15 DEF Cuts
<1> QED
  BY <1>3, <1>5, <1>6, <1>16

\* The digits in the order of writing, when i was f[0], f[1], ..., f[t - 1].
Written(text, f, t) ==
    /\ text \in Seq(0 .. 9) /\ Len(text) = t
    /\ \A j \in 1 .. t : text[j] = Digit(Remainder(f[t - j]))

\* What is read after k digits is what i was k turns before the end.
LEMMA DigitsRead ==
    ASSUME NEW text, NEW f, NEW value, NEW t, Cuts(f, value, t), Written(text, f, t)
    PROVE  IsNatural(text, Abs(value))
<1> DEFINE next == [p \in (1 .. t) \X Nat |-> 10 * p[2] + text[p[1]]]
           F(s) == [k \in 0 .. Len(text) |-> IF k = 0 THEN 0 ELSE 10 * s[k - 1] + text[k]]
           worth == CHOOSE s : s = F(s)
<1>1. /\ t \in Nat /\ t # 0 /\ f[0] = value
      /\ \A k \in 1 .. t : f[k] = Quotient(f[k - 1])
      /\ \A k \in 0 .. t : f[k] \in Int
      /\ f[t] = 0 /\ \A k \in 1 .. t - 1 : f[k] # 0
  BY SizesAssumption DEF Cuts
<1>2. /\ text \in Seq(0 .. 9) /\ Len(text) = t
      /\ \A j \in 1 .. t : text[j] = Digit(Remainder(f[t - j]))
      /\ \A j \in 1 .. t : text[j] \in 0 .. 9
  BY DEF Written
<1>3. ASSUME NEW k \in 1 .. t
      PROVE  /\ Abs(f[k - 1]) = 10 * Abs(f[k]) + text[t + 1 - k]
             /\ Abs(f[k]) \in Nat /\ Abs(f[k - 1]) \in Nat
  <2>1. f[k - 1] \in Int /\ f[k] = Quotient(f[k - 1])
    BY <1>1
  <2>2. t + 1 - k \in 1 .. t /\ t - (t + 1 - k) = k - 1
    BY <1>1
  <2>3. text[t + 1 - k] = Digit(Remainder(f[k - 1]))
    BY <1>2, <2>2
  <2>4. PICK i : i = f[k - 1] /\ i \in Int
    BY <2>1
  <2>5. Abs(i) \in Nat /\ Abs(Quotient(i)) \in Nat /\ Abs(i) = 10 * Abs(Quotient(i)) + Digit(Remainder(i))
    BY <2>4, TurnIs
  <2> QED
    BY <2>1, <2>3, <2>4, <2>5
<1>4. \A k \in 1 .. t : \A x \in Nat : next[<<k, x>>] = 10 * x + text[k] /\ 10 * x + text[k] \in Nat
  <2> SUFFICES ASSUME NEW k \in 1 .. t, NEW x \in Nat
               PROVE  next[<<k, x>>] = 10 * x + text[k] /\ 10 * x + text[k] \in Nat
    OBVIOUS
  <2>1. text[k] \in 0 .. 9
    BY <1>2
  <2>2. 10 * x + text[k] \in Nat
    BY <2>1
  <2>3. next[<<k, x>>] = 10 * x + text[k]
    OBVIOUS
  <2> QED
    BY <2>2, <2>3
<1>5. worth = F(worth)
  <2> HIDE DEF next
  <2>1. PICK g : Chain(g, next, 0, t)
    BY <1>1, ChainExists
  <2>2. \A k \in 0 .. t : g[k] \in Nat
    <3>1. PICK C, a : C = Nat /\ a = 0
      OBVIOUS
    <3>2. t \in Nat /\ a \in C /\ Chain(g, next, a, t)
      BY <1>1, <2>1, <3>1
    <3>3. \A k \in 1 .. t : \A x \in C : next[<<k, x>>] \in C
      BY <1>4, <3>1
    <3>4. \A k \in 0 .. t : g[k] \in C
      BY <3>2, <3>3, ChainWithin
    <3> QED
      BY <3>1, <3>4
  <2>3. g = F(g)
    <3>1. g = [k \in 0 .. t |-> IF k = 0 THEN 0 ELSE next[<<k, g[k - 1]>>]]
      BY <2>1 DEF Chain
    <3>2. ASSUME NEW k \in 1 .. t PROVE next[<<k, g[k - 1]>>] = 10 * g[k - 1] + text[k]
      BY <1>1, <1>4, <2>2
    <3>3. \A k \in 0 .. t : (IF k = 0 THEN 0 ELSE next[<<k, g[k - 1]>>])
                              = (IF k = 0 THEN 0 ELSE 10 * g[k - 1] + text[k])
      BY <1>1, <3>2
    <3> QED
      BY <1>2, <3>1, <3>3
  <2> QED
    BY <2>3
<1>6. PICK w : w = worth /\ w = F(w)
  BY <1>5
<1> HIDE DEF worth
<1>7. w[0] = 0 /\ \A k \in 1 .. t : w[k] = 10 * w[k - 1] + text[k]
  <2>1. \A k \in 0 .. t : w[k] = IF k = 0 THEN 0 ELSE 10 * w[k - 1] + text[k]
    BY <1>2, <1>6
  <2> QED
    BY <1>1, <2>1
<1> DEFINE S == {k \in Nat : k <= t => w[k] = Abs(f[t - k])}
<1>8. 0 \in S
  <2>1. t - 0 = t /\ Abs(0) = 0
    BY <1>1 DEF Abs
  <2> QED
    BY <1>1, <1>7, <2>1
<1>9. ASSUME NEW k \in Nat, k \in S PROVE k + 1 \in S
  <2>1. CASE k + 1 <= t
    <3>1. w[k] = Abs(f[t - k]) /\ k + 1 \in 1 .. t /\ (k + 1) - 1 = k
      BY <1>1, <1>9, <2>1
    <3>2. w[k + 1] = 10 * w[k] + text[k + 1]
      BY <1>7, <3>1
    <3>3. t - k \in 1 .. t /\ (t - k) - 1 = t - (k + 1) /\ t + 1 - (t - k) = k + 1
      BY <1>1, <2>1
    <3>4. Abs(f[(t - k) - 1]) = 10 * Abs(f[t - k]) + text[t + 1 - (t - k)]
      BY <1>3, <3>3
    <3>5. w[k + 1] = Abs(f[t - (k + 1)])
      BY <3>1, <3>2, <3>3, <3>4
    <3> QED
      BY <3>5
  <2> QED
    BY <2>1
<1> HIDE DEF S
<1>10. \A k \in Nat : k \in S
  BY <1>8, <1>9, SetInduction
<1>11. w[t] = Abs(value)
  <2>1. t - t = 0
    BY <1>1
  <2> QED
    BY <1>1, <1>10, <2>1 DEF S
<1>12. ASSUME t > 1 PROVE text[1] # 0
  <2>1. t \in 1 .. t /\ t + 1 - t = 1 /\ t - 1 \in 1 .. t - 1 /\ t - 1 \in 0 .. t
    BY <1>1, <1>12
  <2>2. Abs(f[t - 1]) = 10 * Abs(f[t]) + text[1]
    BY <1>3, <2>1
  <2>3. f[t - 1] # 0 /\ f[t - 1] \in Int /\ f[t] = 0
    BY <1>1, <2>1
  <2>4. Abs(f[t]) = 0 /\ Abs(f[t - 1]) # 0
    BY <2>3 DEF Abs
  <2> QED
    BY <1>2, <2>1, <2>2, <2>4
<1>13. text # << >>
  BY <1>1, <1>2, EmptySeq
<1>14. IsNatural(text, Abs(value)) <=> /\ text \in Seq(0 .. 9) /\ text # << >>
                                       /\ Len(text) > 1 => text[1] # 0
                                       /\ Abs(value) = worth[Len(text)]
  BY DEF IsNatural, worth
<1> QED
  BY <1>2, <1>6, <1>11, <1>12, <1>13, <1>14

Joined(u, a, b) ==
    /\ Len(u) = Len(a) + Len(b)
    /\ \A k \in 1 .. Len(a) + Len(b) : u[k] = IF k <= Len(a) THEN a[k] ELSE b[k - Len(a)]

LEMMA JoinIs ==
    ASSUME NEW C, NEW a \in Seq(C), NEW b \in Seq(C)
    PROVE  a \o b \in Seq(C) /\ Joined(a \o b, a, b)
<1>1. /\ a \o b \in Seq(C) /\ Len(a \o b) = Len(a) + Len(b)
      /\ \A k \in 1 .. Len(a) + Len(b) : (a \o b)[k] = IF k <= Len(a) THEN a[k] ELSE b[k - Len(a)]
  BY ConcatProperties
<1>2. PICK u : u = a \o b
  OBVIOUS
<1>3. u \in Seq(C) /\ Joined(u, a, b)
  BY <1>1, <1>2 DEF Joined
<1> QED
  BY <1>2, <1>3

LEMMA ReverseIs ==
    ASSUME NEW C, NEW s \in Seq(C)
    PROVE  /\ Reverse(s) \in Seq(C) /\ Len(Reverse(s)) = Len(s)
           /\ \A j \in 1 .. Len(s) : Reverse(s)[j] = s[Len(s) + 1 - j]
<1>1. Reverse(s) = [j \in 1 .. Len(s) |-> s[(Len(s) - j) + 1]]
  BY DEF Reverse
<1>2. ASSUME NEW j \in 1 .. Len(s)
      PROVE  (Len(s) - j) + 1 \in 1 .. Len(s) /\ (Len(s) - j) + 1 = Len(s) + 1 - j
  OBVIOUS
<1>3. ASSUME NEW j \in 1 .. Len(s)
      PROVE  s[(Len(s) - j) + 1] \in C /\ s[(Len(s) - j) + 1] = s[Len(s) + 1 - j]
  BY <1>2
<1> QED
  BY <1>1, <1>3

\* What convert makes of a number reads as that number, and is not too long.
LEMMA ConvertReads ==
    ASSUME NEW value \in Int, value < Power[Digits], -value < Power[Digits]
    PROVE  /\ IsNumber(convert(value), value)
           /\ Len(convert(value)) \in Nat
           /\ Len(convert(value)) <= Digits + (IF value < 0 THEN 1 ELSE 0)
<1>1. PICK f, t : /\ Cuts(f, value, t)
                  /\ convert(value) = Reverse([k \in 1 .. t |-> Digit(Remainder(f[k - 1]))]
                                                \o (IF value < 0 THEN <<Minus>> ELSE << >>))
  BY ConvertIs
<1>2. t \in Nat /\ t # 0 /\ t <= Digits /\ \A k \in 0 .. t : f[k] \in Int
  BY <1>1, SizesAssumption DEF Cuts
<1>3. PICK d : d = [k \in 1 .. t |-> Digit(Remainder(f[k - 1]))]
  OBVIOUS
<1>4. /\ d \in Seq(0 .. 9) /\ Len(d) = t
      /\ \A k \in 1 .. t : d[k] = Digit(Remainder(f[k - 1]))
  <2>1. ASSUME NEW k \in 1 .. t PROVE Digit(Remainder(f[k - 1])) \in 0 .. 9
    <3>1. f[k - 1] \in Int
      BY <1>2
    <3> QED
      BY <3>1, TurnIs
  <2> QED
    BY <1>2, <1>3, <2>1
<1>5. CASE ~(value < 0)
  <2>1. d \o << >> = d
    BY <1>4, ConcatEmptySeq
  <2>2. convert(value) = Reverse(d)
    BY <1>1, <1>3, <1>5, <2>1
  <2>3. PICK r : r = Reverse(d)
    OBVIOUS
  <2>4. r \in Seq(0 .. 9) /\ Len(r) = t /\ \A j \in 1 .. t : r[j] = d[t + 1 - j]
    BY <1>4, <2>3, ReverseIs
  <2>5. ASSUME NEW j \in 1 .. t PROVE r[j] = Digit(Remainder(f[t - j]))
    <3>1. t + 1 - j \in 1 .. t /\ (t + 1 - j) - 1 = t - j
      BY <1>2
    <3> QED
      BY <1>4, <2>4, <3>1
  <2>6. Written(r, f, t)
    BY <2>4, <2>5 DEF Written
  <2>7. IsNatural(r, Abs(value)) /\ Abs(value) = value
    BY <1>1, <1>5, <2>6, DigitsRead DEF Abs
  <2>8. IsNumber(r, value)
    BY <1>5, <2>7 DEF IsNumber
  <2>9. Len(r) \in Nat /\ Len(r) <= Digits + (IF value < 0 THEN 1 ELSE 0)
    BY <1>2, <1>5, <2>4, SizesAssumption
  <2> QED
    BY <2>2, <2>3, <2>8, <2>9
<1>6. CASE value < 0
  <2>1. PICK m : m = <<Minus>>
    OBVIOUS
  <2>2. m \in Seq(0 .. 10) /\ Len(m) = 1 /\ m[1] = Minus
    BY <2>1 DEF Minus
  <2>3. d \in Seq(0 .. 10)
    BY <1>4
  <2>4. PICK s : s = d \o m
    OBVIOUS
  <2>5. /\ s \in Seq(0 .. 10) /\ Len(s) = t + 1
        /\ \A k \in 1 .. t + 1 : s[k] = IF k <= t THEN d[k] ELSE m[k - t]
    <3>1. PICK C : C = 0 .. 10
      OBVIOUS
    <3>2. s \in Seq(C) /\ Joined(s, d, m)
      BY <2>2, <2>3, <2>4, <3>1, JoinIs
    <3> QED
      BY <1>2, <1>4, <2>2, <3>1, <3>2 DEF Joined
  <2>6. convert(value) = Reverse(s)
    BY <1>1, <1>3, <1>6, <2>1, <2>4
  <2>7. PICK r : r = Reverse(s)
    OBVIOUS
  <2>8. r \in Seq(0 .. 10) /\ Len(r) = t + 1 /\ \A j \in 1 .. t + 1 : r[j] = s[t + 1 + 1 - j]
    <3>1. PICK C : C = 0 .. 10
      OBVIOUS
    <3>2. s \in Seq(C) /\ Len(s) = t + 1
      BY <2>5, <3>1
    <3>3. r \in Seq(C) /\ Len(r) = Len(s) /\ \A j \in 1 .. Len(s) : r[j] = s[Len(s) + 1 - j]
      BY <2>7, <3>2, ReverseIs
    <3> QED
      BY <3>1, <3>2, <3>3
  <2>9. r[1] = Minus
    <3>1. 1 \in 1 .. t + 1 /\ t + 1 + 1 - 1 = t + 1 /\ t + 1 \in 1 .. t + 1 /\ ~(t + 1 <= t) /\ (t + 1) - t = 1
      BY <1>2
    <3>2. r[1] = s[t + 1]
      BY <2>8, <3>1
    <3> QED
      BY <2>2, <2>5, <3>1, <3>2
  <2>10. r # << >> /\ Head(r) = Minus
    <3>1. r # << >>
      BY <1>2, <2>8, EmptySeq
    <3> QED
      BY <2>8, <2>9, <3>1
  <2>11. PICK u : u = Tail(r)
    OBVIOUS
  <2>12. u \in Seq(0 .. 10) /\ Len(u) = t /\ \A j \in 1 .. t : u[j] = r[j + 1]
    BY <1>2, <2>8, <2>10, <2>11, HeadTailProperties
  <2>13. ASSUME NEW j \in 1 .. t PROVE u[j] = Digit(Remainder(f[t - j])) /\ u[j] \in 0 .. 9
    <3>1. /\ j + 1 \in 1 .. t + 1 /\ t + 1 + 1 - (j + 1) = t + 1 - j
          /\ t + 1 - j \in 1 .. t + 1 /\ t + 1 - j <= t /\ t + 1 - j \in 1 .. t /\ (t + 1 - j) - 1 = t - j
      BY <1>2
    <3>2. u[j] = s[t + 1 - j]
      BY <2>8, <2>12, <3>1
    <3>3. s[t + 1 - j] = d[t + 1 - j]
      BY <2>5, <3>1
    <3>4. d[t + 1 - j] = Digit(Remainder(f[t - j])) /\ d[t + 1 - j] \in 0 .. 9
      <4>1. \A k \in 1 .. t : d[k] \in 0 .. 9
        BY <1>2, <1>4
      <4>2. d[t + 1 - j] = Digit(Remainder(f[t - j]))
        BY <1>4, <3>1
      <4> QED
        BY <3>1, <4>1, <4>2
    <3> QED
      BY <3>2, <3>3, <3>4
  <2>14. u \in Seq(0 .. 9)
    <3>1. PICK C : C = 0 .. 9
      OBVIOUS
    <3>2. \A j \in 1 .. t : u[j] \in C
      BY <2>13, <3>1
    <3>3. u = [j \in 1 .. t |-> u[j]]
      BY <2>12
    <3>4. u \in Seq(C)
      BY <1>2, <3>2, <3>3
    <3> QED
      BY <3>1, <3>4
  <2>15. Written(u, f, t)
    BY <2>12, <2>13, <2>14 DEF Written
  <2>16. IsNatural(u, Abs(value)) /\ Abs(value) = -value
    BY <1>1, <1>6, <2>15, DigitsRead DEF Abs
  <2>17. IsNumber(r, value)
    BY <1>6, <2>10, <2>11, <2>16 DEF IsNumber
  <2>18. Len(r) \in Nat /\ Len(r) <= Digits + (IF value < 0 THEN 1 ELSE 0)
    BY <1>2, <1>6, <2>8, SizesAssumption
  <2> QED
    BY <2>6, <2>7, <2>17, <2>18
<1> QED
  BY <1>5, <1>6

\* The text of a number, the smallest of its type included, reads as that number, and the
\* room that is kept free is enough for every text with its null character.
THEOREM LoggedFits == LogSpec => []NumbersFit
<1>1. ASSUME NEW n \in Number \union Address
      PROVE  /\ IsNumber(convert(n), n)
             /\ Len(convert(n)) \in Nat /\ Len(convert(n)) + 2 <= kMaxNumericSize + 1
             /\ n \in Nat => Len(convert(n)) + 2 <= kMaxNumericSize
  <2>1. n \in Int /\ n < Power[Digits] /\ -n < Power[Digits]
    BY NumbersAssumption
  <2>2. PICK l : l = Len(convert(n))
    OBVIOUS
  <2>3. IsNumber(convert(n), n) /\ l \in Nat /\ l <= Digits + (IF n < 0 THEN 1 ELSE 0)
    BY <2>1, <2>2, ConvertReads
  <2>4. l + 2 <= kMaxNumericSize + 1 /\ (n \in Nat => l + 2 <= kMaxNumericSize)
    BY <2>1, <2>3, SizesAssumption
  <2> QED
    BY <2>2, <2>3, <2>4
<1>2. LogInit => LogTypeOK
  BY SizesAssumption DEF LogInit, LogTypeOK
<1>3. ASSUME LogTypeOK, NEW len \in Nat, stream.cur_ + len + 1 <= SIZE, add(len) PROVE LogTypeOK'
  BY <1>3, SizesAssumption DEF LogTypeOK, add
<1>4. LogTypeOK /\ [LogNext]_stream => LogTypeOK'
  <2> SUFFICES ASSUME LogTypeOK, [LogNext]_stream PROVE LogTypeOK'
    OBVIOUS
  <2>1. stream.cur_ \in 0 .. SIZE /\ SIZE \in Nat
    BY SizesAssumption DEF LogTypeOK
  <2>2. ASSUME NEW n \in Number, ShowInteger(n) PROVE LogTypeOK'
    <3>1. PICK len : len = Len(convert(n)) /\ len \in Nat /\ len + 1 <= kMaxNumericSize
      BY <1>1, SizesAssumption
    <3>2. stream.cur_ + len + 1 <= SIZE /\ add(len)
      BY <2>1, <2>2, <3>1, SizesAssumption DEF ShowInteger, formatInteger, avail
    <3> QED
      BY <1>3, <3>1, <3>2
  <2>3. ASSUME NEW p \in Address, ShowPointer(p) PROVE LogTypeOK'
    <3>1. PICK l : l = Len(convert(p)) /\ l \in Nat /\ l + 2 <= kMaxNumericSize
      BY <1>1, NumbersAssumption
    <3>2. PICK len : len = 2 + l /\ len \in Nat
      BY <3>1
    <3>3. stream.cur_ + len + 1 <= SIZE /\ add(len)
      BY <2>1, <2>3, <3>1, <3>2, SizesAssumption DEF ShowPointer, avail
    <3> QED
      BY <1>3, <3>2, <3>3
  <2>4. ASSUME NEW n \in Decimals, ShowDecimal(n) PROVE LogTypeOK'
    <3>1. n \in Nat /\ n + 1 <= kMaxNumericSize
      BY NumbersAssumption, SizesAssumption
    <3>2. stream.cur_ + n + 1 <= SIZE /\ add(n)
      BY <2>1, <2>4, <3>1, SizesAssumption DEF ShowDecimal, avail
    <3> QED
      BY <1>3, <3>1, <3>2
  <2>5. CASE ShowText \/ UNCHANGED stream
    BY <2>5 DEF ShowText, LogTypeOK
  <2>6. CASE resetBuffer
    BY <2>1, <2>6 DEF resetBuffer, LogTypeOK
  <2> QED
    BY <2>2, <2>3, <2>4, <2>5, <2>6 DEF LogNext
<1>5. LogSpec => []LogTypeOK
  BY <1>2, <1>4, PTL DEF LogSpec
<1>6. Converts
  BY <1>1 DEF Converts
<1>7. LogTypeOK => NumbersFit
  BY <1>6 DEF NumbersFit
<1> QED
  BY <1>5, <1>7, PTL

-------------------------------------------------------------------------------
\* Numbers in bytes.

Byte == 0 .. Base - 1

LEMMA BaseIs ==
    /\ Base \in Nat /\ Base # 0 /\ Base - 1 \in Nat
    /\ \E h \in Nat : Base = 2 * h /\ h # 0
<1>1. Base \in Nat /\ Base # 0 /\ Base % 2 = 0
  BY BytesAssumption
<1>2. Base \div 2 \in Nat /\ Base = 2 * (Base \div 2) /\ Base \div 2 # 0
  BY <1>1
<1> QED
  BY <1>1, <1>2

\* Quotient and remainder.
LEMMA QuotientRemainder ==
    ASSUME NEW B \in Nat \ {0}, NEW u \in Nat
    PROVE  u \div B \in Nat /\ u % B \in 0 .. B - 1 /\ u = B * (u \div B) + (u % B)
<1>1. u \div B \in Nat
  OBVIOUS
<1>2. u % B \in 0 .. B - 1
  OBVIOUS
<1>3. u = B * (u \div B) + (u % B)
  OBVIOUS
<1> QED
  BY <1>1, <1>2, <1>3

LEMMA RemainderAlone ==
    ASSUME NEW B \in Nat \ {0}, NEW q \in Nat, NEW r \in 0 .. B - 1
    PROVE  B * q + r \in Nat /\ (B * q + r) \div B = q /\ (B * q + r) % B = r
<1>1. B * q + r \in Nat
  OBVIOUS
<1>2. (B * q + r) \div B = q
  OBVIOUS
<1>3. (B * q + r) % B = r
  OBVIOUS
<1> QED
  BY <1>1, <1>2, <1>3

LEMMA LessTimes ==
    ASSUME NEW B \in Nat \ {0}, NEW q \in Nat, NEW p \in Nat, NEW r \in 0 .. B - 1, q < p
    PROVE  B * q + r < B * p
  OBVIOUS

LEMMA LessQuotient ==
    ASSUME NEW B \in Nat \ {0}, NEW u \in Nat, NEW p \in Nat, u < B * p
    PROVE  u \div B < p
  OBVIOUS

LEMMA Division ==
    ASSUME NEW u \in Nat
    PROVE  /\ u \div Base \in Nat /\ u % Base \in Byte
           /\ u = Base * (u \div Base) + (u % Base)
<1>1. Base \in Nat \ {0}
  BY BaseIs
<1> QED
  BY <1>1, QuotientRemainder, Zenon DEF Byte

LEMMA DivisionIs ==
    ASSUME NEW q \in Nat, NEW r \in Byte
    PROVE  /\ Base * q + r \in Nat
           /\ (Base * q + r) \div Base = q /\ (Base * q + r) % Base = r
<1>1. Base \in Nat \ {0} /\ r \in 0 .. Base - 1
  BY BaseIs DEF Byte
<1> QED
  BY <1>1, RemainderAlone, Zenon

\* How many values n bytes have, by the powers of Base.
Powers(v, n) ==
    /\ v[0] = 1
    /\ \A k \in 1 .. n : v[k] = Base * v[k - 1]
    /\ \A k \in 0 .. n : v[k] \in Nat /\ v[k] # 0

LEMMA ValuesIs ==
    ASSUME NEW n \in Nat
    PROVE  \E v : Powers(v, n) /\ Values(n) = v[n]
<1> DEFINE next == [p \in (1 .. n) \X (Nat \ {0}) |-> Base * p[2]]
           F(t) == [k \in 0 .. n |-> IF k = 0 THEN 1 ELSE Base * t[k - 1]]
           values == CHOOSE t : t = F(t)
<1>1. \A x \in Nat \ {0} : Base * x \in Nat \ {0}
  BY BaseIs
<1>2. \A k \in 1 .. n : \A x \in Nat \ {0} : next[<<k, x>>] = Base * x
  OBVIOUS
<1>3. values = F(values)
  <2> HIDE DEF next
  <2>1. PICK f : Chain(f, next, 1, n)
    BY ChainExists
  <2>2. \A k \in 0 .. n : f[k] \in Nat \ {0}
    <3>1. PICK C, a : C = Nat \ {0} /\ a = 1
      OBVIOUS
    <3>2. a \in C /\ Chain(f, next, a, n)
      BY <2>1, <3>1
    <3>3. \A k \in 1 .. n : \A x \in C : next[<<k, x>>] \in C
      <4>1. \A k \in 1 .. n : \A x \in Nat \ {0} : next[<<k, x>>] \in Nat \ {0}
        BY <1>1, <1>2
      <4> QED
        BY <3>1, <4>1
    <3>4. \A k \in 0 .. n : f[k] \in C
      BY <3>2, <3>3, ChainWithin
    <3> QED
      BY <3>1, <3>4
  <2>3. f = F(f)
    <3>1. f = [k \in 0 .. n |-> IF k = 0 THEN 1 ELSE next[<<k, f[k - 1]>>]]
      BY <2>1 DEF Chain
    <3>2. ASSUME NEW k \in 1 .. n PROVE next[<<k, f[k - 1]>>] = Base * f[k - 1]
      BY <1>2, <2>2
    <3>3. \A k \in 0 .. n : (IF k = 0 THEN 1 ELSE next[<<k, f[k - 1]>>])
                            = (IF k = 0 THEN 1 ELSE Base * f[k - 1])
      BY <3>2
    <3> QED
      BY <3>1, <3>3
  <2> QED
    BY <2>3
<1>4. PICK v : v = values /\ v = F(v)
  BY <1>3
<1>5. Values(n) = values[n]
  BY DEF Values
<1> HIDE DEF values
<1>6. v[0] = 1 /\ \A k \in 1 .. n : v[k] = Base * v[k - 1]
  <2>1. \A k \in 0 .. n : v[k] = IF k = 0 THEN 1 ELSE Base * v[k - 1]
    BY <1>4
  <2> QED
    BY <2>1
<1> DEFINE S == {k \in Nat : k <= n => v[k] \in Nat \ {0}}
<1>7. 0 \in S
  BY <1>6
<1>8. ASSUME NEW k \in Nat, k \in S PROVE k + 1 \in S
  <2>1. CASE k + 1 <= n
    <3>1. v[k] \in Nat \ {0} /\ k + 1 \in 1 .. n /\ (k + 1) - 1 = k
      BY <1>8, <2>1
    <3>2. v[k + 1] = Base * v[k]
      BY <1>6, <3>1
    <3>3. v[k + 1] \in Nat \ {0}
      BY <1>1, <3>1, <3>2
    <3> QED
      BY <3>3
  <2> QED
    BY <2>1
<1> HIDE DEF S
<1>9. \A k \in Nat : k \in S
  BY <1>7, <1>8, SetInduction
<1>10. Powers(v, n)
  BY <1>6, <1>9 DEF Powers, S
<1> QED
  BY <1>4, <1>5, <1>10

\* What is left of u after each division, until nothing is.
Rests(r, u, n) ==
    /\ r[0] = u /\ r[n] = 0
    /\ \A k \in 1 .. n : r[k] = r[k - 1] \div Base
    /\ \A k \in 0 .. n : r[k] \in Nat

LEMMA BigEndianIs ==
    ASSUME NEW n \in Nat, NEW u \in Nat, u < Values(n)
    PROVE  \E r : /\ Rests(r, u, n)
                  /\ BigEndian(u, n) = [i \in 1 .. n |-> r[n - i] % Base]
<1> DEFINE next == [p \in (1 .. n) \X Nat |-> p[2] \div Base]
           F(t) == [k \in 0 .. n |-> IF k = 0 THEN u ELSE t[k - 1] \div Base]
           rest == CHOOSE t : t = F(t)
<1>1. \A x \in Nat : x \div Base \in Nat
  BY Division
<1>2. \A k \in 1 .. n : \A x \in Nat : next[<<k, x>>] = x \div Base
  OBVIOUS
<1>3. rest = F(rest)
  <2> HIDE DEF next
  <2>1. PICK f : Chain(f, next, u, n)
    BY ChainExists
  <2>2. \A k \in 0 .. n : f[k] \in Nat
    <3>1. PICK C : C = Nat
      OBVIOUS
    <3>2. u \in C /\ Chain(f, next, u, n)
      BY <2>1, <3>1
    <3>3. \A k \in 1 .. n : \A x \in C : next[<<k, x>>] \in C
      <4>1. \A k \in 1 .. n : \A x \in Nat : next[<<k, x>>] \in Nat
        BY <1>1, <1>2
      <4> QED
        BY <3>1, <4>1
    <3>4. \A k \in 0 .. n : f[k] \in C
      BY <3>2, <3>3, ChainWithin
    <3> QED
      BY <3>1, <3>4
  <2>3. f = F(f)
    <3>1. f = [k \in 0 .. n |-> IF k = 0 THEN u ELSE next[<<k, f[k - 1]>>]]
      BY <2>1 DEF Chain
    <3>2. ASSUME NEW k \in 1 .. n PROVE next[<<k, f[k - 1]>>] = f[k - 1] \div Base
      BY <1>2, <2>2
    <3>3. \A k \in 0 .. n : (IF k = 0 THEN u ELSE next[<<k, f[k - 1]>>])
                            = (IF k = 0 THEN u ELSE f[k - 1] \div Base)
      BY <3>2
    <3> QED
      BY <3>1, <3>3
  <2> QED
    BY <2>3
<1>4. PICK r : r = rest /\ r = F(r)
  BY <1>3
<1>5. BigEndian(u, n) = [i \in 1 .. n |-> rest[n - i] % Base]
  BY DEF BigEndian
<1> HIDE DEF rest
<1>6. r[0] = u /\ \A k \in 1 .. n : r[k] = r[k - 1] \div Base
  <2>1. \A k \in 0 .. n : r[k] = IF k = 0 THEN u ELSE r[k - 1] \div Base
    BY <1>4
  <2> QED
    BY <2>1
<1>7. PICK v : Powers(v, n) /\ Values(n) = v[n]
  BY ValuesIs
<1> DEFINE S == {k \in Nat : k <= n => r[k] \in Nat /\ r[k] < v[n - k]}
<1>8. 0 \in S
  BY <1>6, <1>7
<1>9. ASSUME NEW k \in Nat, k \in S PROVE k + 1 \in S
  <2>1. CASE k + 1 <= n
    <3>1. r[k] \in Nat /\ r[k] < v[n - k] /\ k + 1 \in 1 .. n /\ (k + 1) - 1 = k
      BY <1>9, <2>1
    <3>2. r[k + 1] = r[k] \div Base
      BY <1>6, <3>1
    <3>3. v[n - k] = Base * v[n - (k + 1)] /\ v[n - (k + 1)] \in Nat
      <4>1. n - k \in 1 .. n /\ (n - k) - 1 = n - (k + 1) /\ n - (k + 1) \in 0 .. n
        BY <2>1
      <4>2. v[n - k] = Base * v[(n - k) - 1]
        BY <1>7, <4>1 DEF Powers
      <4> QED
        BY <1>7, <4>1, <4>2 DEF Powers
    <3>4. r[k] \div Base < v[n - (k + 1)]
      <4>1. PICK x, p : x = r[k] /\ p = v[n - (k + 1)] /\ x \in Nat /\ p \in Nat
        BY <3>1, <3>3
      <4>2. x < Base * p
        BY <3>1, <3>3, <4>1
      <4>3. x \div Base < p
        BY <4>1, <4>2, BaseIs, LessQuotient
      <4> QED
        BY <4>1, <4>3
    <3>5. r[k + 1] \in Nat /\ r[k + 1] < v[n - (k + 1)]
      BY <1>1, <3>1, <3>2, <3>4
    <3> QED
      BY <3>5
  <2> QED
    BY <2>1
<1> HIDE DEF S
<1>10. \A k \in Nat : k \in S
  BY <1>8, <1>9, SetInduction
<1>11. \A k \in 0 .. n : r[k] \in Nat /\ r[k] < v[n - k]
  BY <1>10 DEF S
<1>12. r[n] = 0
  <2>1. r[n] \in Nat /\ r[n] < v[n - n] /\ n - n = 0
    BY <1>11
  <2> QED
    BY <1>7, <2>1 DEF Powers
<1>13. Rests(r, u, n)
  BY <1>6, <1>11, <1>12 DEF Rests
<1> QED
  BY <1>4, <1>5, <1>13

\* What the first bytes are worth.
Worths(w, s) ==
    /\ w[0] = 0
    /\ \A k \in 1 .. Len(s) : w[k] = Base * w[k - 1] + s[k]
    /\ \A k \in 0 .. Len(s) : w[k] \in Nat

LEMMA ValueIs ==
    ASSUME NEW s \in Seq(Byte)
    PROVE  \E w : Worths(w, s) /\ Value(s, "big") = w[Len(s)] /\ w[Len(s)] < Values(Len(s))
<1>1. PICK n : n = Len(s) /\ n \in Nat
  OBVIOUS
<1> DEFINE next == [p \in (1 .. n) \X Nat |-> Base * p[2] + s[p[1]]]
           F(t) == [k \in 0 .. Len(s) |-> IF k = 0 THEN 0 ELSE Base * t[k - 1] + s[k]]
           value == CHOOSE t : t = F(t)
<1>2. \A k \in 1 .. n : s[k] \in Byte /\ s[k] \in Nat
  BY <1>1, BaseIs DEF Byte
<1>3. ASSUME NEW k \in 1 .. n, NEW x \in Nat
      PROVE  next[<<k, x>>] = Base * x + s[k] /\ Base * x + s[k] \in Nat
  <2>1. s[k] \in Byte
    BY <1>2
  <2>2. Base * x + s[k] \in Nat
    BY <2>1, DivisionIs
  <2>3. next[<<k, x>>] = Base * x + s[k]
    OBVIOUS
  <2> QED
    BY <2>2, <2>3
<1>4. value = F(value)
  <2> HIDE DEF next
  <2>1. PICK f : Chain(f, next, 0, n)
    BY <1>1, ChainExists
  <2>2. \A k \in 0 .. n : f[k] \in Nat
    <3>1. PICK C, a : C = Nat /\ a = 0
      OBVIOUS
    <3>2. n \in Nat /\ a \in C /\ Chain(f, next, a, n)
      BY <1>1, <2>1, <3>1
    <3>3. \A k \in 1 .. n : \A x \in C : next[<<k, x>>] \in C
      <4>1. \A k \in 1 .. n : \A x \in Nat : next[<<k, x>>] \in Nat
        BY <1>3
      <4> QED
        BY <3>1, <4>1
    <3>4. \A k \in 0 .. n : f[k] \in C
      BY <3>2, <3>3, ChainWithin
    <3> QED
      BY <3>1, <3>4
  <2>3. f = F(f)
    <3>1. f = [k \in 0 .. n |-> IF k = 0 THEN 0 ELSE next[<<k, f[k - 1]>>]]
      BY <2>1 DEF Chain
    <3>2. ASSUME NEW k \in 1 .. n PROVE next[<<k, f[k - 1]>>] = Base * f[k - 1] + s[k]
      BY <1>1, <1>3, <2>2
    <3>3. \A k \in 0 .. n : (IF k = 0 THEN 0 ELSE next[<<k, f[k - 1]>>])
                            = (IF k = 0 THEN 0 ELSE Base * f[k - 1] + s[k])
      BY <1>1, <3>2
    <3> QED
      BY <1>1, <3>1, <3>3
  <2> QED
    BY <2>3
<1>5. PICK w : w = value /\ w = F(w)
  BY <1>4
<1>6. Value(s, "big") = value[Len(s)]
  BY DEF Value
<1> HIDE DEF value
<1>7. w[0] = 0 /\ \A k \in 1 .. n : w[k] = Base * w[k - 1] + s[k]
  <2>1. \A k \in 0 .. n : w[k] = IF k = 0 THEN 0 ELSE Base * w[k - 1] + s[k]
    BY <1>1, <1>5
  <2> QED
    BY <1>1, <2>1
<1>8. PICK v : Powers(v, n) /\ Values(n) = v[n]
  BY <1>1, ValuesIs
<1> DEFINE S == {k \in Nat : k <= n => w[k] \in Nat /\ w[k] < v[k]}
<1>9. 0 \in S
  BY <1>7, <1>8 DEF Powers
<1>10. ASSUME NEW k \in Nat, k \in S PROVE k + 1 \in S
  <2>1. CASE k + 1 <= n
    <3>1. w[k] \in Nat /\ w[k] < v[k] /\ k + 1 \in 1 .. n /\ (k + 1) - 1 = k
      BY <1>1, <1>10, <2>1
    <3>2. w[k + 1] = Base * w[k] + s[k + 1]
      BY <1>7, <3>1
    <3>3. v[k + 1] = Base * v[k] /\ v[k] \in Nat
      <4>1. v[k + 1] = Base * v[(k + 1) - 1] /\ k \in 0 .. n
        BY <1>1, <1>8, <3>1 DEF Powers
      <4> QED
        BY <1>8, <3>1, <4>1 DEF Powers
    <3>4. PICK x, p, b : /\ x = w[k] /\ p = v[k] /\ b = s[k + 1]
                         /\ x \in Nat /\ p \in Nat /\ b \in Byte
      BY <1>2, <3>1, <3>3
    <3>5. Base * x + b \in Nat /\ Base * x + b < Base * p
      <4>1. Base \in Nat \ {0} /\ b \in 0 .. Base - 1 /\ x < p
        BY <3>1, <3>4, BaseIs DEF Byte
      <4> QED
        BY <3>4, <4>1, DivisionIs, LessTimes, Zenon
    <3>6. w[k + 1] \in Nat /\ w[k + 1] < v[k + 1]
      BY <3>2, <3>3, <3>4, <3>5
    <3> QED
      BY <3>6
  <2> QED
    BY <2>1
<1> HIDE DEF S
<1>11. \A k \in Nat : k \in S
  BY <1>9, <1>10, SetInduction
<1>12. \A k \in 0 .. n : w[k] \in Nat /\ w[k] < v[k]
  BY <1>11 DEF S
<1>13. Worths(w, s)
  BY <1>1, <1>7, <1>12 DEF Worths
<1>14. w[n] < Values(n)
  BY <1>1, <1>8, <1>12
<1> QED
  BY <1>1, <1>5, <1>6, <1>13, <1>14

\* The number of the bytes of u is u.
LEMMA BytesOf ==
    ASSUME NEW n \in Nat, NEW u \in Nat, u < Values(n)
    PROVE  /\ BigEndian(u, n) \in Seq(Byte) /\ Len(BigEndian(u, n)) = n
           /\ Value(BigEndian(u, n), "big") = u
<1>1. PICK r : Rests(r, u, n) /\ BigEndian(u, n) = [i \in 1 .. n |-> r[n - i] % Base]
  BY BigEndianIs
<1>2. /\ r[0] = u /\ r[n] = 0
      /\ \A k \in 1 .. n : r[k] = r[k - 1] \div Base
      /\ \A k \in 0 .. n : r[k] \in Nat
  BY <1>1 DEF Rests
<1>3. PICK s : s = BigEndian(u, n)
  OBVIOUS
<1>4. s \in Seq(Byte) /\ Len(s) = n /\ \A i \in 1 .. n : s[i] = r[n - i] % Base
  <2>1. ASSUME NEW i \in 1 .. n PROVE r[n - i] % Base \in Byte
    <3>1. n - i \in 0 .. n
      OBVIOUS
    <3>2. r[n - i] \in Nat
      BY <1>2, <3>1
    <3> QED
      BY <3>2, Division
  <2>2. s = [i \in 1 .. n |-> r[n - i] % Base]
    BY <1>1, <1>3
  <2> QED
    BY <2>1, <2>2
<1>5. PICK w : Worths(w, s) /\ Value(s, "big") = w[n]
  BY <1>4, ValueIs
<1>6. w[0] = 0 /\ \A k \in 1 .. n : w[k] = Base * w[k - 1] + s[k]
  BY <1>4, <1>5 DEF Worths
<1> DEFINE S == {k \in Nat : k <= n => w[k] = r[n - k]}
<1>7. 0 \in S
  BY <1>2, <1>6
<1>8. ASSUME NEW k \in Nat, k \in S PROVE k + 1 \in S
  <2>1. CASE k + 1 <= n
    <3>1. w[k] = r[n - k] /\ k + 1 \in 1 .. n /\ (k + 1) - 1 = k
      BY <1>8, <2>1
    <3>2. w[k + 1] = Base * w[k] + s[k + 1] /\ s[k + 1] = r[n - (k + 1)] % Base
      BY <1>4, <1>6, <3>1
    <3>3. r[n - k] = r[n - (k + 1)] \div Base /\ r[n - (k + 1)] \in Nat
      <4>1. n - k \in 1 .. n /\ (n - k) - 1 = n - (k + 1) /\ n - (k + 1) \in 0 .. n
        BY <2>1
      <4>2. r[n - k] = r[(n - k) - 1] \div Base
        BY <1>2, <4>1
      <4> QED
        BY <1>2, <4>1, <4>2
    <3>4. PICK x : x = r[n - (k + 1)] /\ x \in Nat
      BY <3>3
    <3>5. w[k + 1] = Base * (x \div Base) + (x % Base)
      BY <3>1, <3>2, <3>3, <3>4
    <3>6. w[k + 1] = x
      BY <3>4, <3>5, Division
    <3> QED
      BY <3>4, <3>6
  <2> QED
    BY <2>1
<1> HIDE DEF S
<1>9. \A k \in Nat : k \in S
  BY <1>7, <1>8, SetInduction
<1>10. w[n] = u
  <2>1. n - n = 0
    OBVIOUS
  <2> QED
    BY <1>2, <1>9, <2>1 DEF S
<1> QED
  BY <1>3, <1>4, <1>5, <1>10

\* The bytes of a number that was read are the bytes that were read.
LEMMA BytesAgain ==
    ASSUME NEW s \in Seq(Byte)
    PROVE  /\ Value(s, "big") \in Nat /\ Value(s, "big") < Values(Len(s))
           /\ BigEndian(Value(s, "big"), Len(s)) = s
<1>1. PICK n : n = Len(s) /\ n \in Nat
  OBVIOUS
<1>2. PICK u : u = Value(s, "big")
  OBVIOUS
<1>3. PICK w : Worths(w, s) /\ u = w[n] /\ w[n] < Values(n)
  BY <1>1, <1>2, ValueIs
<1>4. /\ w[0] = 0 /\ \A k \in 1 .. n : w[k] = Base * w[k - 1] + s[k]
      /\ \A k \in 0 .. n : w[k] \in Nat
  BY <1>1, <1>3 DEF Worths
<1>5. u \in Nat /\ u < Values(n)
  BY <1>1, <1>3, <1>4
<1>6. PICK r : Rests(r, u, n) /\ BigEndian(u, n) = [i \in 1 .. n |-> r[n - i] % Base]
  BY <1>1, <1>5, BigEndianIs
<1>7. r[0] = u /\ \A k \in 1 .. n : r[k] = r[k - 1] \div Base
  BY <1>6 DEF Rests
<1>8. \A k \in 1 .. n : s[k] \in Byte
  BY <1>1
<1>9. ASSUME NEW k \in 1 .. n
      PROVE  w[k] \div Base = w[k - 1] /\ w[k] % Base = s[k]
  <2>1. PICK x, b : x = w[k - 1] /\ b = s[k] /\ x \in Nat /\ b \in Byte
    BY <1>1, <1>4, <1>8
  <2>2. w[k] = Base * x + b
    BY <1>4, <2>1
  <2>3. (Base * x + b) \div Base = x /\ (Base * x + b) % Base = b
    BY <2>1, DivisionIs
  <2> QED
    BY <2>1, <2>2, <2>3
<1> DEFINE S == {k \in Nat : k <= n => r[k] = w[n - k]}
<1>10. 0 \in S
  BY <1>1, <1>3, <1>7
<1>11. ASSUME NEW k \in Nat, k \in S PROVE k + 1 \in S
  <2>1. CASE k + 1 <= n
    <3>1. r[k] = w[n - k] /\ k + 1 \in 1 .. n /\ (k + 1) - 1 = k
      BY <1>1, <1>11, <2>1
    <3>2. r[k + 1] = w[n - k] \div Base
      <4>1. r[k + 1] = r[(k + 1) - 1] \div Base
        BY <1>7, <3>1
      <4> QED
        BY <3>1, <4>1
    <3>3. n - k \in 1 .. n /\ (n - k) - 1 = n - (k + 1)
      BY <1>1, <2>1
    <3>4. w[n - k] \div Base = w[(n - k) - 1]
      BY <1>9, <3>3
    <3> QED
      BY <3>2, <3>3, <3>4
  <2> QED
    BY <2>1
<1> HIDE DEF S
<1>12. \A k \in Nat : k \in S
  BY <1>10, <1>11, SetInduction
<1>13. ASSUME NEW i \in 1 .. n PROVE r[n - i] % Base = s[i]
  <2>1. n - i \in Nat /\ n - i <= n /\ n - (n - i) = i
    BY <1>1
  <2>2. r[n - i] = w[i]
    BY <1>12, <2>1 DEF S
  <2> QED
    BY <1>9, <2>2
<1>14. BigEndian(u, n) = [i \in 1 .. n |-> s[i]]
  BY <1>6, <1>13
<1>15. BigEndian(u, n) = s
  BY <1>1, <1>14
<1> QED
  BY <1>1, <1>2, <1>5, <1>15

LEMMA ReverseTwice ==
    ASSUME NEW C, NEW s \in Seq(C)
    PROVE  Reverse(Reverse(s)) = s
<1>1. PICK n : n = Len(s) /\ n \in Nat
  OBVIOUS
<1>2. PICK t : t = Reverse(s)
  OBVIOUS
<1>3. t \in Seq(C) /\ Len(t) = n /\ \A j \in 1 .. n : t[j] = s[n + 1 - j]
  BY <1>1, <1>2, ReverseIs
<1>4. PICK v : v = Reverse(t)
  OBVIOUS
<1>5. v \in Seq(C) /\ Len(v) = n /\ \A j \in 1 .. n : v[j] = t[n + 1 - j]
  BY <1>3, <1>4, ReverseIs
<1>6. ASSUME NEW j \in 1 .. n PROVE v[j] = s[j]
  <2>1. n + 1 - j \in 1 .. n /\ n + 1 - (n + 1 - j) = j
    BY <1>1
  <2> QED
    BY <1>3, <1>5, <2>1
<1>7. v = s
  BY <1>1, <1>5, <1>6, SeqEqual
<1> QED
  BY <1>2, <1>4, <1>7

LEMMA ReverseOne ==
    ASSUME NEW C, NEW s \in Seq(C), Len(s) = 1
    PROVE  Reverse(s) = s
<1>1. PICK t : t = Reverse(s)
  OBVIOUS
<1>2. t \in Seq(C) /\ Len(t) = 1 /\ t[1] = s[1 + 1 - 1]
  BY <1>1, ReverseIs
<1>3. t[1] = s[1]
  BY <1>2
<1>4. \A i \in 1 .. Len(t) : t[i] = s[i]
  BY <1>2, <1>3
<1> QED
  BY <1>1, <1>2, <1>4, SeqEqual

\* The signed numbers of n bytes.
SignedRange(n) == -(Values(n) \div 2) .. Values(n) \div 2 - 1

LEMMA SignIs ==
    ASSUME NEW n \in Nat \ {0}
    PROVE  /\ \A u \in Nat : u < Values(n) => /\ Unsigned(u, n) = u /\ Signed(u, n) \in SignedRange(n)
                                              /\ Unsigned(Signed(u, n), n) = u
           /\ \A x \in SignedRange(n) : /\ x \in Int /\ Unsigned(x, n) \in Nat /\ Unsigned(x, n) < Values(n)
                                   /\ Signed(Unsigned(x, n), n) = x
<1>1. PICK v : Powers(v, n) /\ Values(n) = v[n]
  BY ValuesIs
<1>2. PICK V, h : V = Values(n) /\ h \in Nat /\ h # 0 /\ V = 2 * h
  <2>1. v[n] = Base * v[n - 1] /\ v[n - 1] \in Nat /\ v[n - 1] # 0
    BY <1>1 DEF Powers
  <2>2. PICK c \in Nat : Base = 2 * c /\ c # 0
    BY BaseIs
  <2>3. PICK p : p = v[n - 1] /\ p \in Nat /\ p # 0
    BY <2>1
  <2>4. (2 * c) * p = 2 * (c * p) /\ c * p \in Nat /\ c * p # 0
    BY <2>3, <2>2
  <2> QED
    BY <1>1, <2>1, <2>2, <2>3, <2>4
<1>3. SignedRange(n) = -h .. h - 1
  <2>1. V \div 2 = h
    BY <1>2
  <2> QED
    BY <1>2, <2>1 DEF SignedRange
<1>4. \A x \in Int : x \in 0 .. V - 1 => x % V = x
  <2>1. V \in Nat \ {0}
    BY <1>2
  <2> HIDE <1>2
  <2> QED
    BY <2>1
<1>5. \A x \in Int : x \in -V .. -1 => x % V = x + V
  <2>1. V \in Nat \ {0}
    BY <1>2
  <2> HIDE <1>2
  <2> QED
    BY <2>1
<1>6. ASSUME NEW u \in Nat, u < V
      PROVE  Unsigned(u, n) = u /\ Signed(u, n) \in SignedRange(n) /\ Unsigned(Signed(u, n), n) = u
  <2>1. Unsigned(u, n) = u
    BY <1>2, <1>4, <1>6 DEF Unsigned
  <2>2. CASE 2 * u >= V
    <3>1. Signed(u, n) = u - V /\ u - V \in -h .. -1 /\ u - V \in -V .. -1
      BY <1>2, <1>6, <2>2 DEF Signed
    <3>2. (u - V) % V = (u - V) + V
      BY <1>2, <1>5, <3>1
    <3>3. (u - V) + V = u
      BY <1>2
    <3> QED
      BY <1>2, <1>3, <2>1, <3>1, <3>2, <3>3 DEF Unsigned
  <2>3. CASE ~(2 * u >= V)
    <3>1. Signed(u, n) = u /\ u \in 0 .. h - 1
      BY <1>2, <2>3 DEF Signed
    <3> QED
      BY <1>2, <1>3, <2>1, <3>1
  <2> QED
    BY <2>2, <2>3
<1>7. ASSUME NEW x \in SignedRange(n)
      PROVE  /\ x \in Int /\ Unsigned(x, n) \in Nat /\ Unsigned(x, n) < V
             /\ Signed(Unsigned(x, n), n) = x
  <2>1. x \in -h .. h - 1 /\ x \in Int
    BY <1>2, <1>3
  <2>2. CASE x < 0
    <3>1. Unsigned(x, n) = x + V
      BY <1>2, <1>5, <2>1, <2>2 DEF Unsigned
    <3>2. x + V \in Nat /\ x + V < V /\ 2 * (x + V) >= V /\ (x + V) - V = x
      BY <1>2, <2>1, <2>2
    <3> QED
      BY <1>2, <2>1, <3>1, <3>2 DEF Signed
  <2>3. CASE ~(x < 0)
    <3>1. Unsigned(x, n) = x
      BY <1>2, <1>4, <2>1, <2>3 DEF Unsigned
    <3>2. x \in Nat /\ x < V /\ ~(2 * x >= V)
      BY <1>2, <2>1, <2>3
    <3> QED
      BY <1>2, <2>1, <3>1, <3>2 DEF Signed
  <2> QED
    BY <2>2, <2>3
<1> QED
  BY <1>2, <1>6, <1>7

-------------------------------------------------------------------------------
\* A number that is put into a Buffer, and read again.

LEMMA LittleIs ==
    ASSUME NEW s
    PROVE  Value(s, "little") = Value(Reverse(s), "big")
BY DEF Value

\* What htobe returns: the bytes in the order of the host.
LEMMA HtobeIs ==
    ASSUME NEW n \in Nat, NEW u \in Nat, u < Values(n), NEW host \in Orders
    PROVE  \E m \in Nat : /\ htobe(u, n, host) = m /\ m < Values(n)
                          /\ BigEndian(m, n) = IF host = "big" THEN BigEndian(u, n)
                                               ELSE Reverse(BigEndian(u, n))
<1>1. PICK s : s = BigEndian(u, n)
  OBVIOUS
<1>2. s \in Seq(Byte) /\ Len(s) = n /\ Value(s, "big") = u
  BY <1>1, BytesOf
<1>3. CASE host = "big"
  BY <1>1, <1>2, <1>3 DEF htobe
<1>4. CASE host # "big"
  <2>1. host = "little"
    BY <1>4 DEF Orders
  <2>2. PICK t : t = Reverse(s)
    OBVIOUS
  <2>3. t \in Seq(Byte) /\ Len(t) = n
    BY <1>2, <2>2, ReverseIs
  <2>4. PICK m : m = Value(t, "big")
    OBVIOUS
  <2>5. m \in Nat /\ m < Values(n) /\ BigEndian(m, n) = t
    BY <2>3, <2>4, BytesAgain
  <2>6. htobe(u, n, host) = m
    BY <1>1, <2>1, <2>2, <2>4, LittleIs DEF htobe
  <2> QED
    BY <1>1, <1>4, <2>2, <2>5, <2>6
<1> QED
  BY <1>3, <1>4

\* The bytes of a number in a Buffer are those of network byte order, whatever the host's.
LEMMA EncodedIs ==
    ASSUME NEW n \in Nat \ {0}, NEW x \in SignedRange(n), NEW host \in Orders
    PROVE  Encoded(x, n, host) = BigEndian(Unsigned(x, n), n)
<1>1. PICK u : u = Unsigned(x, n)
  OBVIOUS
<1>2. u \in Nat /\ u < Values(n) /\ Signed(u, n) = x
  BY <1>1, SignIs
<1>3. PICK s : s = BigEndian(u, n)
  OBVIOUS
<1>4. s \in Seq(Byte) /\ Len(s) = n
  BY <1>2, <1>3, BytesOf
<1>5. PICK m \in Nat : /\ htobe(u, n, host) = m /\ m < Values(n)
                       /\ BigEndian(m, n) = IF host = "big" THEN s ELSE Reverse(s)
  BY <1>2, <1>3, HtobeIs
<1>6. Unsigned(Signed(m, n), n) = m
  BY <1>5, SignIs
<1>7. CASE n = 1
  <2>1. Reverse(s) = s
    BY <1>4, <1>7, ReverseOne
  <2> QED
    BY <1>1, <1>3, <1>7, <2>1 DEF Encoded, Memory
<1>8. CASE n # 1
  <2>1. Encoded(x, n, host) = Memory(Signed(m, n), n, host)
    BY <1>1, <1>5, <1>8 DEF Encoded
  <2>2. CASE host = "big"
    BY <1>1, <1>3, <1>5, <1>6, <2>1, <2>2 DEF Memory
  <2>3. CASE host # "big"
    <3>1. Encoded(x, n, host) = Reverse(Reverse(s))
      BY <1>5, <1>6, <2>1, <2>3 DEF Memory
    <3> QED
      BY <1>1, <1>3, <1>4, <3>1, ReverseTwice
  <2> QED
    BY <2>2, <2>3
<1> QED
  BY <1>7, <1>8

\* And what peekInt makes of them is the number, whatever the reader's host.
LEMMA PeekIs ==
    ASSUME NEW n \in Nat \ {0}, NEW x \in SignedRange(n), NEW host \in Orders, NEW b,
           SubSeq(b, 1, n) = BigEndian(Unsigned(x, n), n)
    PROVE  peekInt(b, n, host) = x
<1>1. PICK u : u = Unsigned(x, n)
  OBVIOUS
<1>2. u \in Nat /\ u < Values(n) /\ Signed(u, n) = x
  BY <1>1, SignIs
<1>3. PICK s : s = BigEndian(u, n)
  OBVIOUS
<1>4. s \in Seq(Byte) /\ Len(s) = n /\ Value(s, "big") = u
  BY <1>2, <1>3, BytesOf
<1>5. SubSeq(b, 1, n) = s
  BY <1>1, <1>3
<1>6. PICK m : m = Value(s, host)
  OBVIOUS
<1>7. /\ m \in Nat /\ m < Values(n)
      /\ n = 1 => m = u
      /\ htobe(m, n, host) = u
  <2>1. CASE host = "big"
    BY <1>2, <1>3, <1>4, <1>6, <2>1 DEF htobe
  <2>2. CASE host # "big"
    <3>1. host = "little"
      BY <2>2 DEF Orders
    <3>2. PICK t : t = Reverse(s)
      OBVIOUS
    <3>3. t \in Seq(Byte) /\ Len(t) = n
      BY <1>4, <3>2, ReverseIs
    <3>4. m = Value(t, "big")
      BY <1>6, <3>1, <3>2, LittleIs
    <3>5. m \in Nat /\ m < Values(n) /\ BigEndian(m, n) = t
      BY <3>3, <3>4, BytesAgain
    <3>6. n = 1 => t = s
      BY <1>4, <3>2, ReverseOne
    <3>7. Reverse(t) = s
      BY <1>4, <3>2, ReverseTwice
    <3>8. htobe(m, n, host) = Value(s, "big")
      BY <3>1, <3>5, <3>7, LittleIs DEF htobe
    <3> QED
      BY <1>4, <3>4, <3>5, <3>6, <3>8
  <2> QED
    BY <2>1, <2>2
<1>8. Unsigned(Signed(m, n), n) = m
  BY <1>7, SignIs
<1>9. peekInt(b, n, host) = IF n = 1 THEN Signed(m, n) ELSE Signed(htobe(m, n, host), n)
  BY <1>5, <1>6, <1>8 DEF peekInt
<1> QED
  BY <1>2, <1>7, <1>9

-------------------------------------------------------------------------------
\* Items in a stream.

\* The bytes of an item in the stream.
Enc(item) ==
    IF item.is = "int" THEN BigEndian(Unsigned(item.value, item.size), item.size)
    ELSE item.text \o (IF item.is = "EOL" THEN <<LF>> ELSE <<CR, LF>>)

LEMMA IntIs ==
    ASSUME NEW item \in Items, item.is = "int"
    PROVE  \E n \in Widths : \E x \in SignedRange(n) :
               item = [is |-> "int", size |-> n, value |-> x]
<1>1. item \notin Lines
  BY DEF Lines
<1>2. PICK n \in Widths : item \in Ints(n)
  BY <1>1 DEF Items
<1> QED
  BY <1>2 DEF Ints, SignedRange

LEMMA EndedIs ==
    ASSUME NEW item \in Items, item.is # "int"
    PROVE  \E end \in {"EOL", "CRLF"} : \E text \in Texts : item = [is |-> end, text |-> text]
<1>1. \A n \in Widths : item \notin Ints(n)
  BY DEF Ints
<1>2. item \in Lines
  BY <1>1 DEF Items
<1>3. /\ item.is \in {"EOL", "CRLF"} /\ item.text \in Texts
      /\ item = [is |-> item.is, text |-> item.text]
  BY <1>2 DEF Lines
<1> QED
  BY <1>3

LEMMA EncIs ==
    ASSUME NEW item \in Items
    PROVE  Enc(item) \in Bytes
<1>1. CASE item.is = "int"
  <2>0. PICK n \in Widths :
            \E x \in SignedRange(n) : item = [is |-> "int", size |-> n, value |-> x]
    BY <1>1, IntIs
  <2>1. PICK x \in SignedRange(n) : item = [is |-> "int", size |-> n, value |-> x]
    BY <2>0
  <2>2. n \in Nat \ {0}
    BY BytesAssumption
  <2>3. PICK u : u = Unsigned(x, n) /\ u \in Nat /\ u < Values(n)
    BY <2>2, SignIs
  <2>4. BigEndian(u, n) \in Seq(Byte)
    BY <2>2, <2>3, BytesOf
  <2> QED
    BY <1>1, <2>1, <2>3, <2>4 DEF Enc, Bytes, Byte
<1>2. CASE item.is # "int"
  <2>1. PICK end \in {"EOL", "CRLF"}, text \in Texts : item = [is |-> end, text |-> text]
    BY <1>2, EndedIs
  <2>2. PICK C : C = 0 .. Base - 1
    OBVIOUS
  <2>3. text \in Seq(C) /\ CR \in C /\ LF \in C
    BY <2>1, <2>2, BytesAssumption
  <2>4. <<LF>> \in Seq(C) /\ <<CR, LF>> \in Seq(C)
    BY <2>3
  <2>5. text \o <<LF>> \in Seq(C) /\ text \o <<CR, LF>> \in Seq(C)
    BY <2>3, <2>4
  <2>6. Enc(item) = text \o <<LF>> \/ Enc(item) = text \o <<CR, LF>>
    BY <1>2, <2>1 DEF Enc
  <2> QED
    BY <2>2, <2>5, <2>6 DEF Bytes
<1> QED
  BY <1>1, <1>2

\* What is left of s behind each of the items.
Carries(s, items) ==
    \E t : /\ t[0] = s /\ t[Len(items)] = <<>>
           /\ \A k \in 0 .. Len(items) : t[k] \in Bytes
           /\ \A k \in 1 .. Len(items) : t[k - 1] = Enc(items[k]) \o t[k]

LEMMA NothingCarried == Carries(<<>>, <<>>)
<1> DEFINE t == [k \in 0 .. 0 |-> <<>>]
<1>1. t[0] = <<>> /\ t[Len(<<>>)] = <<>> /\ <<>> \in Bytes
  BY DEF Bytes
<1>2. \A k \in 0 .. Len(<<>>) : t[k] \in Bytes
  BY <1>1
<1>3. \A k \in 1 .. Len(<<>>) : t[k - 1] = Enc(<<>>[k]) \o t[k]
  OBVIOUS
<1> HIDE DEF t
<1> QED
  BY <1>1, <1>2, <1>3 DEF Carries

LEMMA OneCarried ==
    ASSUME NEW item \in Items
    PROVE  Carries(Enc(item), <<item>>)
<1>1. PICK e : e = Enc(item)
  OBVIOUS
<1>2. e \in Bytes /\ <<>> \in Bytes /\ e \o <<>> = e
  BY <1>1, EncIs DEF Bytes
<1>3. PICK items : items = <<item>>
  OBVIOUS
<1>4. Len(items) = 1 /\ Enc(items[1]) = e
  BY <1>1, <1>3
<1> DEFINE t == [k \in 0 .. 1 |-> IF k = 0 THEN e ELSE <<>>]
<1>5. t[0] = e /\ t[1] = <<>>
  OBVIOUS
<1> HIDE DEF t
<1>6. /\ \A k \in 0 .. 1 : t[k] \in Bytes
      /\ \A k \in 1 .. 1 : t[k - 1] = Enc(items[k]) \o t[k]
  <2>1. \A k \in 0 .. 1 : k = 0 \/ k = 1
    OBVIOUS
  <2>2. 1 - 1 = 0 /\ \A k \in 1 .. 1 : k = 1
    OBVIOUS
  <2> QED
    BY <1>2, <1>4, <1>5, <2>1, <2>2
<1>7. Carries(e, items)
  BY <1>4, <1>5, <1>6 DEF Carries
<1> QED
  BY <1>1, <1>3, <1>7

LEMMA LengthIs ==
    ASSUME NEW C, NEW s \in Seq(C)
    PROVE  \E n \in Nat : n = Len(s)
OBVIOUS

Three(C, a, b, c, d) ==
    a \in Seq(C) /\ b \in Seq(C) /\ c \in Seq(C) /\ d = a \o b

LEMMA Associated ==
    ASSUME NEW C, NEW a, NEW b, NEW c, NEW d, Three(C, a, b, c, d)
    PROVE  d \o c = a \o (b \o c)
BY ConcatAssociative DEF Three

LEMMA BothCarried ==
    ASSUME NEW s1 \in Bytes, NEW s2 \in Bytes, NEW i1 \in Seq(Items), NEW i2 \in Seq(Items),
           Carries(s1, i1), Carries(s2, i2)
    PROVE  Carries(s1 \o s2, i1 \o i2)
<1>0. PICK m : m = Len(i1) /\ m \in Nat
  OBVIOUS
<1>1. PICK n : m = Len(i1) /\ n = Len(i2) /\ m \in Nat /\ n \in Nat
  BY <1>0
<1>2. PICK t : /\ t[0] = s1 /\ t[m] = <<>> /\ \A k \in 0 .. m : t[k] \in Bytes
               /\ \A k \in 1 .. m : t[k - 1] = Enc(i1[k]) \o t[k]
  BY <1>1 DEF Carries
<1>3. PICK u : /\ u[0] = s2 /\ u[n] = <<>> /\ \A k \in 0 .. n : u[k] \in Bytes
               /\ \A k \in 1 .. n : u[k - 1] = Enc(i2[k]) \o u[k]
  BY <1>1 DEF Carries
<1>4. PICK items : items = i1 \o i2
  OBVIOUS
<1>5. /\ items \in Seq(Items) /\ Len(items) = m + n
      /\ \A k \in 1 .. m : items[k] = i1[k]
      /\ \A k \in m + 1 .. m + n : items[k] = i2[k - m]
  <2>1. /\ items \in Seq(Items) /\ Len(items) = m + n
        /\ \A k \in 1 .. m + n : items[k] = IF k <= m THEN i1[k] ELSE i2[k - m]
    BY <1>1, <1>4, ConcatProperties
  <2> QED
    BY <1>1, <2>1
<1>6. PICK C : C = 0 .. Base - 1 /\ Bytes = Seq(C)
  BY DEF Bytes
<1>7. \A k \in 1 .. m + n : items[k] \in Items /\ Enc(items[k]) \in Seq(C)
  <2>1. \A k \in 1 .. m + n : items[k] \in Items
    BY <1>1, <1>5
  <2> QED
    BY <1>6, <2>1, EncIs
<1> DEFINE v == [k \in 0 .. m + n |-> IF k <= m THEN t[k] \o s2 ELSE u[k - m]]
<1>8. /\ \A k \in 0 .. m : v[k] = t[k] \o s2
      /\ \A k \in m .. m + n : v[k] = u[k - m]
  <2>1. \A k \in 0 .. m : v[k] = t[k] \o s2
    BY <1>1
  <2>2. v[m] = u[m - m]
    <3>1. m \in 0 .. m /\ m - m = 0 /\ <<>> \o s2 = s2
      BY <1>1, <1>6
    <3> QED
      BY <1>2, <1>3, <2>1, <3>1
  <2>3. \A k \in m .. m + n : v[k] = u[k - m]
    <3>1. \A k \in m .. m + n : k = m \/ (k \in 0 .. m + n /\ ~(k <= m))
      BY <1>1
    <3> QED
      BY <2>2, <3>1
  <2> QED
    BY <2>1, <2>3
<1> HIDE DEF v
<1>9. v[0] = s1 \o s2
  <2>1. 0 \in 0 .. m
    BY <1>1
  <2> QED
    BY <1>2, <1>8, <2>1
<1>10. v[m + n] = <<>>
  <2>1. m + n \in m .. m + n /\ (m + n) - m = n
    BY <1>1
  <2> QED
    BY <1>3, <1>8, <2>1
<1>11. ASSUME NEW k \in 0 .. m + n PROVE v[k] \in Bytes
  <2>1. CASE k <= m
    <3>1. k \in 0 .. m
      BY <1>1, <2>1
    <3>2. t[k] \in Seq(C) /\ s2 \in Seq(C)
      BY <1>2, <1>6, <3>1
    <3>3. t[k] \o s2 \in Seq(C)
      BY <3>2
    <3> QED
      BY <1>6, <1>8, <3>1, <3>3
  <2>2. CASE ~(k <= m)
    <3>1. k \in m .. m + n /\ k - m \in 0 .. n
      BY <1>1, <2>2
    <3> QED
      BY <1>3, <1>8, <3>1
  <2> QED
    BY <2>1, <2>2
<1>12. ASSUME NEW k \in 1 .. m + n PROVE v[k - 1] = Enc(items[k]) \o v[k]
  <2>1. CASE k <= m
    <3>1. k \in 1 .. m /\ k \in 0 .. m /\ k - 1 \in 0 .. m
      BY <1>1, <2>1
    <3>2. v[k - 1] = t[k - 1] \o s2 /\ v[k] = t[k] \o s2
      BY <1>8, <3>1
    <3>3. t[k - 1] = Enc(items[k]) \o t[k]
      BY <1>2, <1>5, <3>1
    <3>4. PICK e, w : e = Enc(items[k]) /\ w = t[k] /\ e \in Seq(C) /\ w \in Seq(C)
      BY <1>2, <1>6, <1>7, <3>1
    <3>5. s2 \in Seq(C)
      BY <1>6
    <3>a. PICK d : d = t[k - 1]
      OBVIOUS
    <3>6. d \o s2 = e \o (w \o s2)
      <4>1. e \in Seq(C) /\ w \in Seq(C)
        BY <3>4
      <4>2. d = e \o w
        BY <3>3, <3>4, <3>a
      <4>3. Three(C, e, w, s2, d)
        BY <3>5, <4>1, <4>2 DEF Three
      <4> QED
        BY <4>3, Associated, SMTT(30)
    <3> QED
      BY <3>2, <3>3, <3>4, <3>a, <3>6
  <2>2. CASE ~(k <= m)
    <3>1. k \in m + 1 .. m + n /\ k \in m .. m + n /\ k - 1 \in m .. m + n
          /\ k - m \in 1 .. n /\ (k - 1) - m = (k - m) - 1
      BY <1>1, <2>2
    <3>2. v[k - 1] = u[(k - m) - 1] /\ v[k] = u[k - m]
      BY <1>8, <3>1
    <3> QED
      BY <1>3, <1>5, <3>1, <3>2
  <2> QED
    BY <2>1, <2>2
<1>13. Carries(s1 \o s2, items)
  BY <1>5, <1>9, <1>10, <1>11, <1>12 DEF Carries
<1> QED
  BY <1>4, <1>13

LEMMA HeadCarried ==
    ASSUME NEW s \in Bytes, NEW items \in Seq(Items), items # <<>>, Carries(s, items)
    PROVE  \E rest \in Bytes : s = Enc(Head(items)) \o rest /\ Carries(rest, Tail(items))
<1>1. PICK n : n = Len(items) /\ n \in Nat /\ n >= 1
  OBVIOUS
<1>2. PICK t : /\ t[0] = s /\ t[n] = <<>> /\ \A k \in 0 .. n : t[k] \in Bytes
               /\ \A k \in 1 .. n : t[k - 1] = Enc(items[k]) \o t[k]
  BY <1>1 DEF Carries
<1>3. PICK others : others = Tail(items)
  OBVIOUS
<1>4. Len(others) = n - 1 /\ \A k \in 1 .. n - 1 : others[k] = items[k + 1]
  BY <1>1, <1>3, HeadTailProperties
<1>5. Head(items) = items[1]
  OBVIOUS
<1>6. s = Enc(items[1]) \o t[1] /\ t[1] \in Bytes
  <2>1. 1 \in 1 .. n /\ 1 \in 0 .. n /\ 1 - 1 = 0
    BY <1>1
  <2> QED
    BY <1>2, <2>1
<1> DEFINE u == [k \in 0 .. n - 1 |-> t[k + 1]]
<1>7. \A k \in 0 .. n - 1 : u[k] = t[k + 1] /\ k + 1 \in 1 .. n /\ k + 1 \in 0 .. n
  BY <1>1
<1> HIDE DEF u
<1>8. u[0] = t[1] /\ u[n - 1] = <<>>
  <2>1. 0 \in 0 .. n - 1 /\ 0 + 1 = 1 /\ n - 1 \in 0 .. n - 1 /\ (n - 1) + 1 = n
    BY <1>1
  <2> QED
    BY <1>2, <1>7, <2>1
<1>9. \A k \in 0 .. n - 1 : u[k] \in Bytes
  BY <1>2, <1>7
<1>10. ASSUME NEW k \in 1 .. n - 1 PROVE u[k - 1] = Enc(others[k]) \o u[k]
  <2>1. k \in 0 .. n - 1 /\ k - 1 \in 0 .. n - 1 /\ (k - 1) + 1 = k /\ k + 1 \in 1 .. n
        /\ (k + 1) - 1 = k
    BY <1>1
  <2>2. u[k - 1] = t[k] /\ u[k] = t[k + 1]
    BY <1>7, <2>1
  <2>3. t[k] = Enc(items[k + 1]) \o t[k + 1]
    BY <1>2, <2>1
  <2> QED
    BY <1>4, <2>2, <2>3
<1>11. Carries(t[1], others)
  BY <1>4, <1>8, <1>9, <1>10 DEF Carries
<1> QED
  BY <1>3, <1>5, <1>6, <1>11

\* What a leads with, when b follows it.
Divided(C, a, b, e, t) ==
    /\ a \in Seq(C) /\ b \in Seq(C) /\ e \in Seq(C) /\ t \in Seq(C)
    /\ a \o b = e \o t /\ Len(e) <= Len(a)

LEMMA CutOff ==
    ASSUME NEW C, NEW a, NEW b, NEW e, NEW t, Divided(C, a, b, e, t)
    PROVE  /\ SubSeq(a, 1, Len(e)) = e
           /\ SubSeq(a, Len(e) + 1, Len(a)) \in Seq(C)
           /\ SubSeq(a, Len(e) + 1, Len(a)) \o b = t
<1>0. /\ a \in Seq(C) /\ b \in Seq(C) /\ e \in Seq(C) /\ t \in Seq(C)
      /\ a \o b = e \o t /\ Len(e) <= Len(a)
  BY DEF Divided
<1>a. PICK l \in Nat : l = Len(a)
  BY <1>0, LengthIs, Zenon
<1>b. PICK m \in Nat : m = Len(b)
  BY <1>0, LengthIs, Zenon
<1>e. PICK n \in Nat : n = Len(e)
  BY <1>0, LengthIs, Zenon
<1>t. PICK p \in Nat : p = Len(t)
  BY <1>0, LengthIs, Zenon
<1>1. /\ l = Len(a) /\ m = Len(b) /\ n = Len(e) /\ p = Len(t)
      /\ l \in Nat /\ m \in Nat /\ n \in Nat /\ p \in Nat
  BY <1>0, <1>a, <1>b, <1>e, <1>t
<1>2. PICK s : s = a \o b
  OBVIOUS
<1>3. /\ Len(s) = l + m
      /\ \A i \in 1 .. l + m : s[i] = IF i <= l THEN a[i] ELSE b[i - l]
  BY <1>0, <1>1, <1>2, ConcatProperties
<1>4. /\ Len(s) = n + p
      /\ \A i \in 1 .. n + p : s[i] = IF i <= n THEN e[i] ELSE t[i - n]
  BY <1>0, <1>1, <1>2, ConcatProperties
<1>5. l + m = n + p /\ n <= l
  BY <1>0, <1>1, <1>3, <1>4
<1>6. SubSeq(a, 1, n) = e
  <2>1. PICK x : x = SubSeq(a, 1, n)
    OBVIOUS
  <2>2. \A i \in 1 .. n : a[i] \in C
    BY <1>0, <1>1, <1>5
  <2>3. x \in Seq(C) /\ Len(x) = n /\ \A i \in 1 .. n : x[i] = a[i]
    BY <1>0, <1>1, <1>5, <2>1, <2>2
  <2>4. \A i \in 1 .. n : x[i] = e[i]
    BY <1>0, <1>1, <1>3, <1>4, <1>5, <2>3
  <2>5. x = e
    BY <1>0, <1>1, <2>3, <2>4, SeqEqual
  <2> QED
    BY <2>1, <2>5
<1>7. PICK y : y = SubSeq(a, n + 1, l)
  OBVIOUS
<1>8. y \in Seq(C) /\ Len(y) = l - n /\ \A i \in 1 .. l - n : y[i] = a[n + i]
  <2>1. \A i \in n + 1 .. l : a[i] \in C
    BY <1>0, <1>1, <1>5
  <2>2. /\ y \in Seq(C) /\ Len(y) = IF n + 1 <= l THEN l - (n + 1) + 1 ELSE 0
        /\ \A i \in 1 .. l - (n + 1) + 1 : y[i] = a[n + 1 + i - 1]
    BY <1>0, <1>1, <1>7, <2>1, SubSeqProperties
  <2>3. \A i \in 1 .. l - n : i \in 1 .. l - (n + 1) + 1 /\ n + 1 + i - 1 = n + i
    BY <1>0, <1>1
  <2>4. \A i \in 1 .. l - n : y[i] = a[n + i]
    BY <2>2, <2>3
  <2>5. Len(y) = l - n
    BY <1>0, <1>1, <1>5, <2>2
  <2> QED
    BY <2>2, <2>4, <2>5
<1>9. y \o b = t
  <2>1. PICK z : z = y \o b
    OBVIOUS
  <2>2. PICK q : q = l - n /\ q \in Nat
    BY <1>0, <1>1, <1>5
  <2>a. y \in Seq(C) /\ Len(y) = q
    BY <1>0, <1>8, <2>2
  <2>b. /\ z \in Seq(C) /\ Len(z) = Len(y) + Len(b)
        /\ \A i \in 1 .. Len(y) + Len(b) : z[i] = IF i <= Len(y) THEN y[i] ELSE b[i - Len(y)]
    BY <1>0, <2>1, <2>a, ConcatProperties, Zenon
  <2>3. /\ z \in Seq(C) /\ Len(z) = q + m
        /\ \A i \in 1 .. q + m : z[i] = IF i <= q THEN y[i] ELSE b[i - q]
    BY <1>0, <1>1, <2>a, <2>b
  <2>4. p = q + m /\ l = n + q
    BY <1>0, <1>1, <1>5, <2>2
  <2>5. ASSUME NEW i \in 1 .. p PROVE z[i] = t[i]
    <3>1. n + i \in 1 .. n + p /\ ~(n + i <= n) /\ (n + i) - n = i /\ n + i \in 1 .. l + m
      BY <1>0, <1>1, <1>5
    <3>2. t[i] = s[n + i]
      BY <1>0, <1>4, <3>1
    <3>3. CASE i <= q
      <4>1. n + i <= l /\ i \in 1 .. q
        BY <1>0, <1>1, <2>2, <2>4, <3>3
      <4>2. s[n + i] = a[n + i] /\ y[i] = a[n + i]
        BY <1>0, <1>3, <1>8, <2>2, <3>1, <4>1
      <4> QED
        BY <2>3, <2>4, <3>2, <3>3, <4>2
    <3>4. CASE ~(i <= q)
      <4>1. ~(n + i <= l) /\ (n + i) - l = i - q
        BY <1>0, <1>1, <2>2, <2>4, <3>4
      <4>2. s[n + i] = b[i - q]
        BY <1>0, <1>3, <3>1, <4>1
      <4> QED
        BY <2>3, <2>4, <3>2, <3>4, <4>2
    <3> QED
      BY <3>3, <3>4
  <2>6. z = t
    BY <1>0, <1>1, <2>3, <2>4, <2>5, SeqEqual
  <2> QED
    BY <2>1, <2>6
<1> QED
  BY <1>0, <1>1, <1>6, <1>7, <1>8, <1>9

-------------------------------------------------------------------------------
\* Ends of lines.

\* Where the end of a line is found first, or that it is not there.
FirstAt(b, start, end, n, f) ==
    /\ Before(b, start, end) = f /\ f \in start .. Len(b) - n
    /\ SubSeq(b, f + 1, f + n) = end
    /\ \A i \in start .. f - 1 : SubSeq(b, i + 1, i + n) # end

Nowhere(b, start, end, n) ==
    /\ Before(b, start, end) = -1
    /\ \A i \in start .. Len(b) - n : SubSeq(b, i + 1, i + n) # end

LEMMA BeforeIs ==
    ASSUME NEW C, NEW b \in Seq(C), NEW start \in Nat, NEW end, NEW n \in Nat, n = Len(end)
    PROVE  Nowhere(b, start, end, n) \/ \E f : FirstAt(b, start, end, n, f)
<1>1. PICK l \in Nat : l = Len(b)
  BY LengthIs, Zenon
<1>2. PICK T : T = {i \in start .. l - n : SubSeq(b, i + 1, i + n) = end}
  OBVIOUS
<1>3. Before(b, start, end) = IF T = {} THEN -1 ELSE CHOOSE i \in T : \A j \in T : i <= j
  BY <1>1, <1>2 DEF Before
<1>4. CASE T = {}
  BY <1>1, <1>2, <1>3, <1>4 DEF Nowhere
<1>5. CASE T # {}
  <2>1. T \subseteq Nat
    BY <1>1, <1>2
  <2>2. PICK f \in T : \A y \in T : ~(y < f)
    BY <1>5, <2>1, Least, Zenon
  <2>3. f \in Nat /\ \A j \in T : f <= j
    BY <2>1, <2>2
  <2>4. Before(b, start, end) = f
    <3>1. PICK g : g = CHOOSE i \in T : \A j \in T : i <= j
      OBVIOUS
    <3>2. g \in T /\ \A j \in T : g <= j
      BY <2>2, <2>3, <3>1, Zenon
    <3>3. g \in Nat /\ g <= f /\ f <= g
      BY <2>1, <2>2, <2>3, <3>2
    <3>4. g = f
      BY <2>3, <3>3
    <3> QED
      BY <1>3, <1>5, <3>1, <3>4
  <2>5. \A i \in start .. f - 1 : i \notin T
    BY <2>3
  <2>6. f \in start .. l - n /\ SubSeq(b, f + 1, f + n) = end
    BY <1>2, <2>2
  <2>7. \A i \in start .. f - 1 : i \in start .. l - n
    BY <1>1, <2>3, <2>6
  <2>8. \A i \in start .. f - 1 : SubSeq(b, i + 1, i + n) # end
    BY <1>2, <2>5, <2>7
  <2> QED
    BY <1>1, <2>4, <2>6, <2>8 DEF FirstAt
<1> QED
  BY <1>4, <1>5

LEMMA PieceIs ==
    ASSUME NEW C, NEW b \in Seq(C), NEW i \in 1 .. Len(b)
    PROVE  /\ SubSeq(b, i, i) = <<b[i]>>
           /\ i + 1 \in 1 .. Len(b) => SubSeq(b, i, i + 1) = <<b[i], b[i + 1]>>
<1>1. PICK l \in Nat : l = Len(b)
  BY LengthIs, Zenon
<1>2. \A j \in 1 .. l : b[j] \in C
  BY <1>1
<1>3. i \in 1 .. l /\ i \in Int /\ i + 1 \in Int
  BY <1>1
<1>4. SubSeq(b, i, i) = <<b[i]>>
  <2>1. PICK s : s = SubSeq(b, i, i)
    OBVIOUS
  <2>2. \A j \in i .. i : b[j] \in C
    BY <1>2, <1>3
  <2>a. Len(s) = IF i <= i THEN i - i + 1 ELSE 0
    BY <1>3, <2>1, <2>2, SubSeqProperties
  <2>b. s \in Seq(C) /\ \A j \in 1 .. i - i + 1 : s[j] = b[i + j - 1]
    BY <1>3, <2>1, <2>2, SubSeqProperties
  <2>c. i - i + 1 = 1 /\ i + 1 - 1 = i
    BY <1>3
  <2>3. s \in Seq(C) /\ Len(s) = 1 /\ s[1] = b[i]
    BY <1>3, <2>a, <2>b, <2>c
  <2>4. s = <<s[1]>>
    BY <2>3
  <2> QED
    BY <2>1, <2>3, <2>4
<1>5. ASSUME i + 1 \in 1 .. l PROVE SubSeq(b, i, i + 1) = <<b[i], b[i + 1]>>
  <2>1. PICK s : s = SubSeq(b, i, i + 1)
    OBVIOUS
  <2>2. \A j \in i .. i + 1 : b[j] \in C
    BY <1>1, <1>2, <1>3, <1>5
  <2>a. PICK k : k = i + 1 /\ k \in Int
    BY <1>3
  <2>b. \A j \in i .. k : b[j] \in C
    BY <2>2, <2>a
  <2>c. s \in Seq(C) /\ Len(s) = IF i <= k THEN k - i + 1 ELSE 0
    BY <1>3, <2>1, <2>a, <2>b, SubSeqProperties
  <2>d. \A j \in 1 .. k - i + 1 : s[j] = b[i + j - 1]
    BY <1>3, <2>1, <2>a, <2>b, SubSeqProperties
  <2>3. /\ s \in Seq(C) /\ Len(s) = IF i <= i + 1 THEN (i + 1) - i + 1 ELSE 0
        /\ \A j \in 1 .. (i + 1) - i + 1 : s[j] = b[i + j - 1]
    BY <2>a, <2>c, <2>d
  <2>4. Len(s) = 2
    BY <1>3, <2>3
  <2>5. s[1] = b[i] /\ s[2] = b[i + 1]
    <3>1. 1 \in 1 .. (i + 1) - i + 1 /\ 2 \in 1 .. (i + 1) - i + 1
          /\ i + 1 - 1 = i /\ i + 2 - 1 = i + 1
      BY <1>3
    <3> QED
      BY <2>3, <3>1
  <2>6. s = <<s[1], s[2]>>
    BY <2>3, <2>4
  <2> QED
    BY <2>1, <2>5, <2>6
<1> QED
  BY <1>1, <1>4, <1>5

LEMMA EOLIs ==
    ASSUME NEW C, NEW b \in Seq(C), NEW start \in 0 .. Len(b),
           \A i \in 1 .. start : b[i] # LF
    PROVE  \/ findEOL(b, start) = -1 /\ \A i \in 1 .. Len(b) : b[i] # LF
           \/ \E f \in 0 .. Len(b) - 1 : /\ findEOL(b, start) = f /\ b[f + 1] = LF
                                         /\ \A i \in 1 .. f : b[i] # LF
<1>1. PICK l \in Nat : l = Len(b)
  BY LengthIs, Zenon
<1>2. PICK end : end = <<LF>>
  OBVIOUS
<1>3. Len(end) = 1 /\ start \in Nat
  BY <1>1, <1>2
<1>4. ASSUME NEW i \in start .. l - 1
      PROVE  (SubSeq(b, i + 1, i + 1) = end <=> b[i + 1] = LF) /\ i + 1 \in 1 .. l
  <2>1. i + 1 \in 1 .. l /\ i + 1 \in Int
    BY <1>1, <1>3
  <2>2. SubSeq(b, i + 1, i + 1) = <<b[i + 1]>>
    BY <1>1, <2>1, PieceIs
  <2> QED
    BY <1>2, <2>1, <2>2
<1>5. \/ /\ Before(b, start, end) = -1
         /\ \A i \in start .. l - 1 : SubSeq(b, i + 1, i + 1) # end
      \/ \E f \in start .. l - 1 :
           /\ Before(b, start, end) = f /\ SubSeq(b, f + 1, f + 1) = end
           /\ \A i \in start .. f - 1 : SubSeq(b, i + 1, i + 1) # end
  <2>1. Nowhere(b, start, end, 1) \/ \E f : FirstAt(b, start, end, 1, f)
    BY <1>3, BeforeIs
  <2> QED
    BY <1>1, <2>1 DEF Nowhere, FirstAt
<1>6. findEOL(b, start) = Before(b, start, end)
  BY <1>2 DEF findEOL
<1>7. CASE Before(b, start, end) = -1 /\ \A i \in start .. l - 1 : SubSeq(b, i + 1, i + 1) # end
  <2>1. ASSUME NEW i \in 1 .. l PROVE b[i] # LF
    <3>1. CASE i <= start
      BY <1>3, <3>1
    <3>2. CASE ~(i <= start)
      <4>1. i - 1 \in start .. l - 1 /\ (i - 1) + 1 = i
        BY <1>1, <1>3, <3>2
      <4>2. SubSeq(b, (i - 1) + 1, (i - 1) + 1) # end
        BY <1>7, <4>1
      <4> QED
        BY <1>4, <4>1, <4>2
    <3> QED
      BY <3>1, <3>2
  <2> QED
    BY <1>1, <1>6, <1>7, <2>1
<1>8. ASSUME NEW f \in start .. l - 1,
             Before(b, start, end) = f /\ SubSeq(b, f + 1, f + 1) = end,
             \A i \in start .. f - 1 : SubSeq(b, i + 1, i + 1) # end
      PROVE  f \in 0 .. l - 1 /\ findEOL(b, start) = f /\ b[f + 1] = LF
             /\ \A i \in 1 .. f : b[i] # LF
  <2>1. f \in 0 .. l - 1 /\ findEOL(b, start) = f /\ b[f + 1] = LF
    BY <1>1, <1>3, <1>4, <1>6, <1>8
  <2>2. ASSUME NEW i \in 1 .. f PROVE b[i] # LF
    <3>1. CASE i <= start
      BY <1>3, <3>1
    <3>2. CASE ~(i <= start)
      <4>1. i - 1 \in start .. f - 1 /\ i - 1 \in start .. l - 1 /\ (i - 1) + 1 = i
        BY <1>1, <1>3, <3>2
      <4>2. SubSeq(b, (i - 1) + 1, (i - 1) + 1) # end
        BY <1>8, <4>1
      <4> QED
        BY <1>4, <4>1, <4>2
    <3> QED
      BY <3>1, <3>2
  <2> QED
    BY <2>1, <2>2
<1> QED
  BY <1>1, <1>5, <1>7, <1>8

LEMMA CRLFIs ==
    ASSUME NEW C, NEW b \in Seq(C), findCRLF(b) >= 0
    PROVE  \E f \in 0 .. Len(b) - 2 :
               /\ findCRLF(b) = f /\ b[f + 1] = CR /\ b[f + 2] = LF
               /\ \A i \in 0 .. f - 1 : ~(b[i + 1] = CR /\ b[i + 2] = LF)
<1>1. PICK l \in Nat : l = Len(b)
  BY LengthIs, Zenon
<1>2. PICK end : end = <<CR, LF>>
  OBVIOUS
<1>3. Len(end) = 2
  BY <1>2
<1>4. ASSUME NEW i \in 0 .. l - 2
      PROVE  SubSeq(b, i + 1, i + 2) = end <=> b[i + 1] = CR /\ b[i + 2] = LF
  <2>1. PICK j : j = i + 1 /\ j \in 1 .. l /\ j + 1 \in 1 .. l /\ j + 1 = i + 2
    BY <1>1
  <2>2. SubSeq(b, j, j + 1) = <<b[j], b[j + 1]>>
    BY <1>1, <2>1, PieceIs
  <2>3. SubSeq(b, i + 1, i + 2) = <<b[i + 1], b[i + 2]>>
    BY <2>1, <2>2
  <2> QED
    BY <1>2, <2>3
<1>5. findCRLF(b) = Before(b, 0, end)
  BY <1>2 DEF findCRLF
<1>6. PICK f \in 0 .. l - 2 :
           /\ Before(b, 0, end) = f /\ SubSeq(b, f + 1, f + 2) = end
           /\ \A i \in 0 .. f - 1 : SubSeq(b, i + 1, i + 2) # end
  <2>1. Nowhere(b, 0, end, 2) \/ \E f : FirstAt(b, 0, end, 2, f)
    BY <1>3, BeforeIs
  <2>2. ~Nowhere(b, 0, end, 2)
    BY <1>5 DEF Nowhere
  <2> QED
    BY <1>1, <2>1, <2>2 DEF FirstAt
<1>7. \A i \in 0 .. f - 1 : i \in 0 .. l - 2
  BY <1>1
<1> QED
  BY <1>1, <1>4, <1>5, <1>6, <1>7

\* The bytes a leads with are those of e, as far as both go.
Leads(C, a, b, e, t) ==
    /\ a \in Seq(C) /\ b \in Seq(C) /\ e \in Seq(C) /\ t \in Seq(C)
    /\ a \o b = e \o t

LEMMA LeadsWith ==
    ASSUME NEW C, NEW a, NEW b, NEW e, NEW t, Leads(C, a, b, e, t)
    PROVE  \A i \in Nat \ {0} : i <= Len(a) /\ i <= Len(e) => a[i] = e[i]
<1>0. /\ a \in Seq(C) /\ b \in Seq(C) /\ e \in Seq(C) /\ t \in Seq(C)
      /\ a \o b = e \o t
  BY DEF Leads
<1>a. PICK l \in Nat : l = Len(a)
  BY <1>0, LengthIs, Zenon
<1>b. PICK m \in Nat : m = Len(b)
  BY <1>0, LengthIs, Zenon
<1>e. PICK n \in Nat : n = Len(e)
  BY <1>0, LengthIs, Zenon
<1>t. PICK p \in Nat : p = Len(t)
  BY <1>0, LengthIs, Zenon
<1>2. PICK s : s = a \o b
  OBVIOUS
<1>3. \A i \in 1 .. l + m : s[i] = IF i <= l THEN a[i] ELSE b[i - l]
  BY <1>0, <1>a, <1>b, <1>2, ConcatProperties
<1>4. \A i \in 1 .. n + p : s[i] = IF i <= n THEN e[i] ELSE t[i - n]
  BY <1>0, <1>e, <1>t, <1>2, ConcatProperties
<1>5. ASSUME NEW i \in Nat \ {0}, i <= l, i <= n PROVE a[i] = e[i]
  <2>1. i \in 1 .. l + m /\ i \in 1 .. n + p
    BY <1>5
  <2> QED
    BY <1>3, <1>4, <1>5, <2>1
<1> QED
  BY <1>5, <1>a, <1>e

\* A line and its end are taken off in two steps.
LineAhead(C, a, b, text, end, t) ==
    /\ a \in Seq(C) /\ b \in Seq(C) /\ text \in Seq(C) /\ end \in Seq(C) /\ t \in Seq(C)
    /\ a \o b = (text \o end) \o t /\ Len(text) + Len(end) <= Len(a)

LEMMA LineOff ==
    ASSUME NEW C, NEW a, NEW b, NEW text, NEW end, NEW t, LineAhead(C, a, b, text, end, t)
    PROVE  /\ SubSeq(a, 1, Len(text)) = text
           /\ retrieveBytes(retrieveBytes(a, Len(text)), Len(end)) \in Seq(C)
           /\ retrieveBytes(retrieveBytes(a, Len(text)), Len(end)) \o b = t
<1>0. /\ a \in Seq(C) /\ b \in Seq(C) /\ text \in Seq(C) /\ end \in Seq(C) /\ t \in Seq(C)
      /\ a \o b = (text \o end) \o t /\ Len(text) + Len(end) <= Len(a)
  BY DEF LineAhead
<1>1. PICK n \in Nat : n = Len(text)
  BY <1>0, LengthIs, Zenon
<1>2. PICK q \in Nat : q = Len(end)
  BY <1>0, LengthIs, Zenon
<1>3. PICK l \in Nat : l = Len(a)
  BY <1>0, LengthIs, Zenon
<1>4. PICK u : u = end \o t
  OBVIOUS
<1>5. u \in Seq(C)
  BY <1>0, <1>4, ConcatProperties
<1>6. a \o b = text \o u
  <2>1. PICK d : d = text \o end
    OBVIOUS
  <2>2. Three(C, text, end, t, d)
    BY <1>0, <2>1 DEF Three
  <2>3. PICK w : w = a \o b
    OBVIOUS
  <2>4. w = d \o t
    BY <1>0, <2>1, <2>3, Zenon
  <2>5. d \o t = text \o u
    BY <1>4, <2>2, Associated
  <2> QED
    BY <2>3, <2>4, <2>5
<1>7. Len(text) <= Len(a)
  BY <1>0, <1>1, <1>2, <1>3
<1>8. PICK y : y = retrieveBytes(a, Len(text))
  OBVIOUS
<1>9. SubSeq(a, 1, Len(text)) = text /\ y \in Seq(C) /\ y \o b = u
  <2>1. y = SubSeq(a, Len(text) + 1, Len(a))
    BY <1>0, <1>8 DEF retrieveBytes
  <2>2. /\ SubSeq(a, 1, Len(text)) = text
        /\ SubSeq(a, Len(text) + 1, Len(a)) \in Seq(C)
        /\ SubSeq(a, Len(text) + 1, Len(a)) \o b = u
    <3>1. Divided(C, a, b, text, u)
      BY <1>0, <1>5, <1>6, <1>7 DEF Divided
    <3> QED
      BY <3>1, CutOff
  <2> QED
    BY <2>1, <2>2
<1>10. Len(end) <= Len(y)
  <2>1. \A i \in n + 1 .. l : a[i] \in C
    BY <1>0, <1>1, <1>3
  <2>2. Len(y) = IF n + 1 <= l THEN l - (n + 1) + 1 ELSE 0
    BY <1>0, <1>1, <1>3, <1>8, <2>1, SubSeqProperties DEF retrieveBytes
  <2> QED
    BY <1>0, <1>1, <1>2, <1>3, <2>2
<1>11. /\ SubSeq(y, Len(end) + 1, Len(y)) \in Seq(C)
       /\ SubSeq(y, Len(end) + 1, Len(y)) \o b = t
  <2>1. Divided(C, y, b, end, t)
    BY <1>0, <1>4, <1>9, <1>10 DEF Divided
  <2> QED
    BY <2>1, CutOff
<1> QED
  BY <1>0, <1>8, <1>9, <1>11 DEF retrieveBytes

-------------------------------------------------------------------------------
\* The invariant.

\* What has been sent and not taken is what is in the input and on the wire.
StreamIsWhole ==
    \E rest \in Seq(Items) : put = taken \o rest /\ Carries(input \o wire, rest)

NumbersInv ==
    /\ NumbersTypeOK
    /\ Carries(draft, drafted)
    /\ StreamIsWhole
    /\ \A i \in 1 .. looked : input[i] # LF

LEMMA NumbersInitInv == NumbersInit => NumbersInv
<1> SUFFICES ASSUME NumbersInit PROVE NumbersInv
  OBVIOUS
<1>1. PICK B : B = Bytes
  OBVIOUS
<1>2. PICK I : I = Items
  OBVIOUS
<1>3. <<>> \in Bytes /\ <<>> \in Seq(Items)
  <2>1. <<>> \in Bytes
    BY DEF Bytes
  <2>2. <<>> \in Seq(I)
    OBVIOUS
  <2> QED
    BY <1>2, <2>1, <2>2
<1>4. NumbersTypeOK
  <2>1. Len(<<>>) = 0 /\ 0 \in 0 .. 0
    OBVIOUS
  <2> QED
    BY <1>3, <2>1 DEF NumbersInit, NumbersTypeOK
<1>5. put = taken \o <<>> /\ input \o wire = <<>>
  BY DEF NumbersInit
<1>6. StreamIsWhole
  BY <1>3, <1>5, NothingCarried DEF StreamIsWhole
<1>7. Carries(draft, drafted) /\ \A i \in 1 .. looked : input[i] # LF
  BY NothingCarried DEF NumbersInit
<1> QED
  BY <1>4, <1>6, <1>7 DEF NumbersInv

\* Sequences of bytes, of items.
LEMMA BytesTogether ==
    ASSUME NEW a \in Bytes, NEW b \in Bytes
    PROVE  a \o b \in Bytes
<1>1. PICK C : Bytes = Seq(C)
  BY DEF Bytes
<1>2. a \in Seq(C) /\ b \in Seq(C)
  BY <1>1
<1>3. a \o b \in Seq(C)
  BY <1>2, ConcatProperties
<1> QED
  BY <1>1, <1>3

LEMMA BytesApart ==
    ASSUME NEW a \in Bytes, NEW n \in 0 .. Len(a)
    PROVE  /\ SubSeq(a, 1, n) \in Bytes /\ SubSeq(a, n + 1, Len(a)) \in Bytes
           /\ SubSeq(a, 1, n) \o SubSeq(a, n + 1, Len(a)) = a
<1>1. PICK C : Bytes = Seq(C)
  BY DEF Bytes
<1>2. a \in Seq(C)
  BY <1>1
<1>3. PICK l \in Nat : l = Len(a)
  BY <1>2, LengthIs, Zenon
<1>4. \A i \in 1 .. l : a[i] \in C
  BY <1>2, <1>3
<1>5. n \in Nat /\ n <= l
  BY <1>3
<1>6. PICK s : s = SubSeq(a, 1, n)
  OBVIOUS
<1>7. s \in Seq(C) /\ Len(s) = n /\ \A i \in 1 .. n : s[i] = a[i]
  <2>1. \A i \in 1 .. n : a[i] \in C
    BY <1>4, <1>5
  <2> QED
    BY <1>2, <1>5, <1>6, <2>1
<1>8. PICK t : t = SubSeq(a, n + 1, l)
  OBVIOUS
<1>9. t \in Seq(C) /\ Len(t) = l - n /\ \A i \in 1 .. l - n : t[i] = a[n + i]
  <2>1. \A i \in n + 1 .. l : a[i] \in C
    BY <1>4, <1>5
  <2>2. /\ t \in Seq(C) /\ Len(t) = IF n + 1 <= l THEN l - (n + 1) + 1 ELSE 0
        /\ \A i \in 1 .. l - (n + 1) + 1 : t[i] = a[n + 1 + i - 1]
    BY <1>5, <1>8, <2>1, SubSeqProperties
  <2>3. \A i \in 1 .. l - n : i \in 1 .. l - (n + 1) + 1 /\ n + 1 + i - 1 = n + i
    BY <1>5
  <2>4. \A i \in 1 .. l - n : t[i] = a[n + i]
    BY <2>2, <2>3
  <2>5. Len(t) = l - n
    BY <1>5, <2>2
  <2> QED
    BY <2>2, <2>4, <2>5
<1>10. s \o t = a
  <2>1. PICK u : u = s \o t
    OBVIOUS
  <2>2. /\ u \in Seq(C) /\ Len(u) = Len(s) + Len(t)
        /\ \A i \in 1 .. Len(s) + Len(t) : u[i] = IF i <= Len(s) THEN s[i] ELSE t[i - Len(s)]
    BY <1>7, <1>9, <2>1, ConcatProperties
  <2>3. /\ Len(u) = l
        /\ \A i \in 1 .. l : u[i] = IF i <= n THEN s[i] ELSE t[i - n]
    BY <1>5, <1>7, <1>9, <2>2
  <2>4. ASSUME NEW i \in 1 .. l PROVE u[i] = a[i]
    <3>1. CASE i <= n
      BY <1>5, <1>7, <2>3, <3>1
    <3>2. CASE ~(i <= n)
      <4>1. i - n \in 1 .. l - n /\ n + (i - n) = i
        BY <1>5, <3>2
      <4> QED
        BY <1>9, <2>3, <3>2, <4>1
    <3> QED
      BY <3>1, <3>2
  <2>5. u = a
    BY <1>2, <1>3, <2>2, <2>3, <2>4, SeqEqual
  <2> QED
    BY <2>1, <2>5
<1> QED
  BY <1>1, <1>3, <1>6, <1>7, <1>8, <1>9, <1>10

-------------------------------------------------------------------------------
\* What the bytes of an item are, put behind or in front of the others.
LEMMA IntEncoded ==
    ASSUME NEW n \in Widths, NEW item \in Ints(n), NEW host \in Orders
    PROVE  item \in Items /\ Encoded(item.value, item.size, host) = Enc(item)
<1>1. n \in Nat \ {0}
  BY BytesAssumption
<1>2. item.is = "int" /\ item.size = n /\ item.value \in SignedRange(n)
  BY DEF Ints, SignedRange
<1>3. item \in Items
  BY DEF Items
<1>4. Encoded(item.value, n, host) = BigEndian(Unsigned(item.value, n), n)
  BY <1>1, <1>2, EncodedIs
<1> QED
  BY <1>2, <1>3, <1>4 DEF Enc

LEMMA DraftGrows ==
    ASSUME NumbersInv, NEW item \in Items,
           \/ draft' = draft \o Enc(item) /\ drafted' = Append(drafted, item)
           \/ draft' = Enc(item) \o draft /\ drafted' = <<item>> \o drafted,
           UNCHANGED <<order, wire, input, looked, put, taken>>
    PROVE  NumbersInv'
<1>1. /\ draft \in Bytes /\ drafted \in Seq(Items) /\ Carries(draft, drafted)
  BY DEF NumbersInv, NumbersTypeOK
<1>2. PICK e : e = Enc(item) /\ e \in Bytes
  BY EncIs
<1>3. PICK one : one = <<item>> /\ one \in Seq(Items)
  <2>1. PICK I : I = Items
    OBVIOUS
  <2>2. item \in I
    BY <2>1
  <2>3. <<item>> \in Seq(I)
    BY <2>2
  <2> QED
    BY <2>1, <2>3
<1>4. Carries(e, one)
  BY <1>2, <1>3, OneCarried
<1>5. Append(drafted, item) = drafted \o one
  BY <1>1, <1>3, AppendIsConcat
<1>6. draft' \in Bytes /\ drafted' \in Seq(Items) /\ Carries(draft', drafted')
  <2>1. CASE draft' = draft \o Enc(item) /\ drafted' = Append(drafted, item)
    <3>1. draft \o e \in Bytes /\ drafted \o one \in Seq(Items)
      BY <1>1, <1>2, <1>3, BytesTogether, ConcatProperties
    <3>2. Carries(draft \o e, drafted \o one)
      BY <1>1, <1>2, <1>3, <1>4, BothCarried
    <3> QED
      BY <1>2, <1>5, <2>1, <3>1, <3>2
  <2>2. CASE draft' = Enc(item) \o draft /\ drafted' = <<item>> \o drafted
    <3>1. e \o draft \in Bytes /\ one \o drafted \in Seq(Items)
      BY <1>1, <1>2, <1>3, BytesTogether, ConcatProperties
    <3>2. Carries(e \o draft, one \o drafted)
      BY <1>1, <1>2, <1>3, <1>4, BothCarried
    <3> QED
      BY <1>2, <1>3, <2>2, <3>1, <3>2
  <2> QED
    BY <2>1, <2>2
<1>7. NumbersTypeOK'
  BY <1>6 DEF NumbersInv, NumbersTypeOK
<1>8. StreamIsWhole' /\ (\A i \in 1 .. looked : input[i] # LF)'
  BY DEF NumbersInv, StreamIsWhole
<1> QED
  BY <1>6, <1>7, <1>8 DEF NumbersInv

LEMMA IntsDrafted ==
    ASSUME NumbersInv, NEW n \in Widths, NEW item \in Ints(n), AppendInt(item) \/ PrependInt(item)
    PROVE  NumbersInv'
<1>1. order.writer \in Orders
  BY DEF NumbersInv, NumbersTypeOK
<1>2. item \in Items /\ Encoded(item.value, item.size, order.writer) = Enc(item)
  BY <1>1, IntEncoded
<1>3. UNCHANGED <<order, wire, input, looked, put, taken>>
  BY DEF AppendInt, PrependInt
<1>4. \/ draft' = draft \o Enc(item) /\ drafted' = Append(drafted, item)
      \/ draft' = Enc(item) \o draft /\ drafted' = <<item>> \o drafted
  BY <1>2 DEF AppendInt, PrependInt, appendInt, prependInt
<1> QED
  BY <1>2, <1>3, <1>4, DraftGrows

LEMMA LineDrafted ==
    ASSUME NumbersInv, NEW item \in Lines, AppendLine(item)
    PROVE  NumbersInv'
<1>1. item \in Items /\ item.is # "int" /\ item.text \in Texts
  BY DEF Items, Lines
<1>2. PICK end : end = IF item.is = "EOL" THEN <<LF>> ELSE <<CR, LF>>
  OBVIOUS
<1>3. draft' = (draft \o item.text) \o end /\ Enc(item) = item.text \o end
  BY <1>1, <1>2 DEF AppendLine, Enc
<1>4. draft' = draft \o Enc(item)
  <2>1. PICK C : C = 0 .. Base - 1 /\ Bytes = Seq(C)
    BY DEF Bytes
  <2>2. draft \in Seq(C) /\ item.text \in Seq(C) /\ CR \in C /\ LF \in C
    BY <1>1, <2>1, BytesAssumption DEF NumbersInv, NumbersTypeOK
  <2>3. end \in Seq(C)
    BY <1>2, <2>2
  <2>4. PICK text : text = item.text
    OBVIOUS
  <2>5. text \in Seq(C) /\ draft \in Seq(C) /\ end \in Seq(C)
    BY <2>2, <2>3, <2>4
  <2>6. (draft \o text) \o end = draft \o (text \o end)
    BY <2>5, ConcatAssociative
  <2> QED
    BY <1>3, <2>4, <2>6
<1>5. drafted' = Append(drafted, item) /\ UNCHANGED <<order, wire, input, looked, put, taken>>
  BY DEF AppendLine
<1> QED
  BY <1>1, <1>4, <1>5, DraftGrows

LEMMA SendKeeps ==
    ASSUME NumbersInv, Send
    PROVE  NumbersInv'
<1>1. /\ draft \in Bytes /\ wire \in Bytes /\ input \in Bytes
      /\ drafted \in Seq(Items) /\ put \in Seq(Items) /\ taken \in Seq(Items)
      /\ Carries(draft, drafted)
  BY DEF NumbersInv, NumbersTypeOK
<1>2. PICK rest \in Seq(Items) : put = taken \o rest /\ Carries(input \o wire, rest)
  BY DEF NumbersInv, StreamIsWhole
<1>3. PICK s : s = input \o wire /\ s \in Bytes
  BY <1>1, BytesTogether
<1>4. Carries(s \o draft, rest \o drafted)
  BY <1>1, <1>2, <1>3, BothCarried
<1>5. wire' = wire \o draft /\ put' = put \o drafted
  BY DEF Send
<1>6. input \o wire' = s \o draft
  <2>1. PICK C : Bytes = Seq(C)
    BY DEF Bytes
  <2>2. input \in Seq(C) /\ wire \in Seq(C) /\ draft \in Seq(C)
    BY <1>1, <2>1
  <2>3. (input \o wire) \o draft = input \o (wire \o draft)
    BY <2>2, ConcatAssociative
  <2> QED
    BY <1>3, <1>5, <2>3
<1>7. put' = taken \o (rest \o drafted) /\ rest \o drafted \in Seq(Items) /\ put' \in Seq(Items)
  <2>1. (taken \o rest) \o drafted = taken \o (rest \o drafted)
    BY <1>1, ConcatAssociative
  <2>2. rest \o drafted \in Seq(Items) /\ put \o drafted \in Seq(Items)
    BY <1>1, ConcatProperties
  <2> QED
    BY <1>2, <1>5, <2>1, <2>2
<1>8. input' = input /\ taken' = taken /\ looked' = looked /\ order' = order
  BY DEF Send
<1>9. StreamIsWhole'
  <2>1. Carries((input \o wire)', rest \o drafted)
    BY <1>4, <1>6, <1>8
  <2> QED
    BY <1>7, <1>8, <2>1 DEF StreamIsWhole
<1>10. draft' = <<>> /\ drafted' = <<>> /\ draft' \in Bytes /\ drafted' \in Seq(Items)
  BY DEF Send, Bytes
<1>11. Carries(draft', drafted')
  BY <1>10, NothingCarried
<1>12. wire' \in Bytes
  BY <1>1, <1>5, BytesTogether
<1>13. NumbersTypeOK'
  BY <1>7, <1>8, <1>10, <1>12 DEF NumbersInv, NumbersTypeOK
<1> QED
  BY <1>8, <1>9, <1>11, <1>13 DEF NumbersInv

LEMMA ArriveKeeps ==
    ASSUME NumbersInv, NEW n \in 1 .. Len(wire), Arrive(n)
    PROVE  NumbersInv'
<1>1. /\ wire \in Bytes /\ input \in Bytes /\ looked \in 0 .. Len(input)
  BY DEF NumbersInv, NumbersTypeOK
<1>2. PICK C : Bytes = Seq(C)
  BY DEF Bytes
<1>3. PICK l \in Nat : l = Len(wire)
  BY <1>1, <1>2, LengthIs, Zenon
<1>4. n \in 0 .. Len(wire)
  BY <1>3
<1>5. PICK a, b : a = SubSeq(wire, 1, n) /\ b = SubSeq(wire, n + 1, Len(wire))
  OBVIOUS
<1>6. a \in Bytes /\ b \in Bytes /\ a \o b = wire
  BY <1>1, <1>4, <1>5, BytesApart
<1>7. input' = input \o a /\ wire' = b
  BY <1>5 DEF Arrive
<1>8. input' \o wire' = input \o wire
  <2>1. input \in Seq(C) /\ a \in Seq(C) /\ b \in Seq(C)
    BY <1>1, <1>2, <1>6
  <2>2. (input \o a) \o b = input \o (a \o b)
    BY <2>1, ConcatAssociative
  <2> QED
    BY <1>6, <1>7, <2>2
<1>9. UNCHANGED <<order, draft, looked, drafted, put, taken>>
  BY DEF Arrive
<1>10. input' \in Bytes /\ wire' \in Bytes
  BY <1>1, <1>6, <1>7, BytesTogether
<1>11. StreamIsWhole'
  BY <1>8, <1>9 DEF NumbersInv, StreamIsWhole
<1>12. looked' \in 0 .. Len(input') /\ \A i \in 1 .. looked' : input'[i] # LF
  <2>1. input \in Seq(C) /\ a \in Seq(C)
    BY <1>1, <1>2, <1>6
  <2>2. PICK m \in Nat : m = Len(input)
    BY <2>1, LengthIs, Zenon
  <2>3. PICK k \in Nat : k = Len(a)
    BY <2>1, LengthIs, Zenon
  <2>4. /\ Len(input') = m + k
        /\ \A i \in 1 .. m + k : input'[i] = IF i <= m THEN input[i] ELSE a[i - m]
    BY <1>7, <2>1, <2>2, <2>3, ConcatProperties
  <2>5. looked \in Nat /\ looked <= m
    BY <1>1, <2>2
  <2>6. \A i \in 1 .. looked : input[i] # LF
    BY DEF NumbersInv
  <2>7. \A i \in 1 .. looked : i \in 1 .. m + k /\ i <= m
    BY <2>2, <2>3, <2>5
  <2>8. looked \in 0 .. m + k
    BY <2>2, <2>3, <2>5
  <2> QED
    BY <1>9, <2>4, <2>6, <2>7, <2>8
<1>13. NumbersTypeOK'
  BY <1>9, <1>10, <1>12 DEF NumbersInv, NumbersTypeOK
<1>14. Carries(draft, drafted)'
  BY <1>9 DEF NumbersInv
<1> QED
  BY <1>11, <1>12, <1>13, <1>14 DEF NumbersInv

-------------------------------------------------------------------------------
\* Reading.

\* What the reader expects is what the stream goes on with.
Ahead(rest, t) ==
    /\ rest \in Seq(Items) /\ t \in Bytes
    /\ Expected \in Items /\ Append(taken, Expected) \in Seq(Items)
    /\ put = Append(taken, Expected) \o rest
    /\ Enc(Expected) \in Bytes /\ input \o wire = Enc(Expected) \o t
    /\ Carries(t, rest)

LEMMA ExpectedIsNext ==
    ASSUME NumbersInv, Len(taken) < Len(put)
    PROVE  \E rest, t : Ahead(rest, t)
<1>1. /\ wire \in Bytes /\ input \in Bytes /\ put \in Seq(Items) /\ taken \in Seq(Items)
  BY DEF NumbersInv, NumbersTypeOK
<1>2. PICK all \in Seq(Items) : put = taken \o all /\ Carries(input \o wire, all)
  BY DEF NumbersInv, StreamIsWhole
<1>3. PICK I : I = Items
  OBVIOUS
<1>4. taken \in Seq(I) /\ all \in Seq(I)
  BY <1>1, <1>3
<1>5. PICK m \in Nat : m = Len(taken)
  BY <1>4, LengthIs, Zenon
<1>6. PICK n \in Nat : n = Len(all)
  BY <1>4, LengthIs, Zenon
<1>7. /\ Len(put) = m + n
      /\ \A i \in 1 .. m + n : put[i] = IF i <= m THEN taken[i] ELSE all[i - m]
  BY <1>2, <1>4, <1>5, <1>6, ConcatProperties
<1>8. n >= 1
  BY <1>5, <1>6, <1>7
<1>9. all # <<>>
  BY <1>6, <1>8
<1>10. PICK item, rest : item = Head(all) /\ rest = Tail(all)
  OBVIOUS
<1>11. item \in I /\ rest \in Seq(I) /\ item = all[1] /\ all = <<item>> \o rest
  BY <1>4, <1>6, <1>8, <1>9, <1>10
<1>12. Expected = item
  <2>1. m + 1 \in 1 .. m + n /\ ~(m + 1 <= m) /\ (m + 1) - m = 1
    BY <1>5, <1>6, <1>8
  <2>2. put[m + 1] = all[1]
    BY <1>7, <2>1
  <2> QED
    BY <1>5, <1>11, <2>2 DEF Expected
<1>13. PICK one : one = <<item>> /\ one \in Seq(I)
  <2>1. item \in I
    BY <1>11
  <2>2. <<item>> \in Seq(I)
    BY <2>1
  <2> QED
    BY <2>2
<1>14. Append(taken, item) = taken \o one /\ taken \o one \in Seq(I)
  BY <1>4, <1>11, <1>13, AppendIsConcat, ConcatProperties
<1>15. put = (taken \o one) \o rest
  <2>1. (taken \o one) \o rest = taken \o (one \o rest)
    BY <1>4, <1>11, <1>13, ConcatAssociative
  <2> QED
    BY <1>2, <1>11, <1>13, <2>1
<1>16. PICK s : s = input \o wire /\ s \in Bytes
  BY <1>1, BytesTogether
<1>17. PICK t \in Bytes : s = Enc(item) \o t /\ Carries(t, rest)
  BY <1>2, <1>9, <1>10, <1>16, HeadCarried
<1>18. Enc(item) \in Bytes
  BY <1>3, <1>11, EncIs
<1>19. Ahead(rest, t)
  BY <1>3, <1>11, <1>12, <1>14, <1>15, <1>16, <1>17, <1>18 DEF Ahead
<1> QED
  BY <1>19

\* Taking it leaves the rest.
LEMMA TakenKeeps ==
    ASSUME NumbersInv, NEW rest, NEW t, Ahead(rest, t),
           taken' = Append(taken, Expected), input' \in Bytes, input' \o wire = t, looked' = 0,
           UNCHANGED <<order, draft, wire, drafted, put>>
    PROVE  NumbersInv'
<1>1. PICK C : Bytes = Seq(C)
  BY DEF Bytes
<1>2. 0 \in 0 .. Len(input')
  <2>1. PICK l \in Nat : l = Len(input')
    BY <1>1, LengthIs, Zenon
  <2> QED
    BY <2>1
<1>3. taken' \in Seq(Items)
  BY DEF Ahead
<1>4. NumbersTypeOK'
  BY <1>2, <1>3 DEF NumbersInv, NumbersTypeOK
<1>5. StreamIsWhole'
  BY DEF Ahead, StreamIsWhole
<1>6. (\A i \in 1 .. looked : input[i] # LF)'
  OBVIOUS
<1>7. Carries(draft, drafted)'
  BY DEF NumbersInv
<1> QED
  BY <1>4, <1>5, <1>6, <1>7 DEF NumbersInv

LEMMA ReadIntKeeps ==
    ASSUME NumbersInv, ReadInt
    PROVE  NumbersInv'
<1>1. Len(taken) < Len(put) /\ Expected.is = "int" /\ Len(input) >= Expected.size
  BY DEF ReadInt, Expects
<1>2. PICK rest, t : Ahead(rest, t)
  BY <1>1, ExpectedIsNext
<1>3. PICK item : item = Expected
  OBVIOUS
<1>4. item \in Items /\ item.is = "int"
  BY <1>1, <1>2, <1>3 DEF Ahead
<1>5. PICK n \in Widths : \E x \in SignedRange(n) : item = [is |-> "int", size |-> n, value |-> x]
  BY <1>4, IntIs
<1>6. PICK x \in SignedRange(n) : item = [is |-> "int", size |-> n, value |-> x]
  BY <1>5
<1>7. n \in Nat \ {0}
  BY BytesAssumption
<1>8. item.size = n /\ item.value = x
  BY <1>6
<1>9. PICK e : e = BigEndian(Unsigned(x, n), n)
  OBVIOUS
<1>10. Len(e) = n /\ e \in Bytes
  <2>1. Unsigned(x, n) \in Nat /\ Unsigned(x, n) < Values(n)
    BY <1>7, SignIs
  <2> QED
    BY <1>7, <1>9, <2>1, BytesOf DEF Bytes, Byte
<1>11. input \o wire = e \o t /\ t \in Bytes
  BY <1>2, <1>3, <1>4, <1>8, <1>9 DEF Ahead, Enc
<1>12. PICK C : Bytes = Seq(C)
  BY DEF Bytes
<1>13. Divided(C, input, wire, e, t)
  <2>1. input \in Bytes /\ wire \in Bytes
    BY DEF NumbersInv, NumbersTypeOK
  <2>2. Len(e) <= Len(input)
    <3>1. PICK l \in Nat : l = Len(input)
      BY <1>12, <2>1, LengthIs, Zenon
    <3> QED
      BY <1>1, <1>3, <1>7, <1>8, <1>10, <3>1
  <2> QED
    BY <1>10, <1>11, <1>12, <2>1, <2>2 DEF Divided
<1>14. /\ SubSeq(input, 1, n) = e
       /\ SubSeq(input, n + 1, Len(input)) \in Bytes
       /\ SubSeq(input, n + 1, Len(input)) \o wire = t
  <2>1. /\ SubSeq(input, 1, Len(e)) = e
        /\ SubSeq(input, Len(e) + 1, Len(input)) \in Seq(C)
        /\ SubSeq(input, Len(e) + 1, Len(input)) \o wire = t
    BY <1>13, CutOff
  <2> QED
    BY <1>10, <1>12, <2>1
<1>15. order.reader \in Orders
  BY DEF NumbersInv, NumbersTypeOK
<1>16. peekInt(input, n, order.reader) = x
  BY <1>7, <1>9, <1>14, <1>15, PeekIs
<1>17. taken' = Append(taken, Expected)
  <2>1. taken' = Append(taken, [item EXCEPT !.value = x])
    BY <1>3, <1>8, <1>16 DEF ReadInt
  <2>2. [item EXCEPT !.value = x] = item
    BY <1>6
  <2> QED
    BY <1>3, <2>1, <2>2
<1>18. input' \in Bytes /\ input' \o wire = t
  <2>1. input' = SubSeq(input, n + 1, Len(input))
    BY <1>3, <1>8 DEF ReadInt, retrieveBytes
  <2> QED
    BY <1>14, <2>1
<1>19. looked' = 0 /\ UNCHANGED <<order, draft, wire, drafted, put>>
  BY DEF ReadInt
<1> QED
  BY <1>2, <1>17, <1>18, <1>19, TakenKeeps

\* A line is taken where its end is.
LEMMA LineTaken ==
    ASSUME NumbersInv, NEW rest, NEW t, Ahead(rest, t),
           NEW kind, NEW text \in Texts, NEW end \in Bytes, NEW found, NEW size,
           Expected = [is |-> kind, text |-> text], Enc(Expected) = text \o end,
           found = Len(text), size = Len(end), found + size <= Len(input),
           TakeLine(kind, found, size)
    PROVE  NumbersInv'
<1>1. PICK C : C = 0 .. Base - 1 /\ Bytes = Seq(C)
  BY DEF Bytes
<1>2. input \in Seq(C) /\ wire \in Seq(C) /\ text \in Seq(C) /\ end \in Seq(C) /\ t \in Seq(C)
  BY <1>1, BytesAssumption DEF NumbersInv, NumbersTypeOK, Ahead
<1>3. input \o wire = (text \o end) \o t
  BY DEF Ahead
<1>4. PICK left : left = retrieveBytes(retrieveBytes(input, Len(text)), Len(end))
  OBVIOUS
<1>5. SubSeq(input, 1, Len(text)) = text /\ left \in Seq(C) /\ left \o wire = t
  <2>1. Len(text) + Len(end) <= Len(input)
    OBVIOUS
  <2>2. LineAhead(C, input, wire, text, end, t)
    BY <1>2, <1>3, <2>1 DEF LineAhead
  <2>3. /\ SubSeq(input, 1, Len(text)) = text
        /\ retrieveBytes(retrieveBytes(input, Len(text)), Len(end)) \in Seq(C)
        /\ retrieveBytes(retrieveBytes(input, Len(text)), Len(end)) \o wire = t
    BY <2>2, LineOff
  <2> QED
    BY <1>4, <2>3
<1>6. taken' = Append(taken, Expected)
  BY <1>5 DEF TakeLine
<1>7. input' \in Bytes /\ input' \o wire = t
  BY <1>1, <1>4, <1>5 DEF TakeLine
<1>8. looked' = 0 /\ UNCHANGED <<order, draft, wire, drafted, put>>
  BY DEF TakeLine
<1> QED
  BY <1>6, <1>7, <1>8, TakenKeeps

\* The text of a line has no LF in it, so that its end is the first one.
LEMMA TextInFront ==
    ASSUME NEW rest, NEW t, Ahead(rest, t), input \in Bytes, wire \in Bytes,
           NEW text \in Texts, NEW end \in Bytes, Enc(Expected) = text \o end
    PROVE  \E n, q, l \in Nat :
             /\ n = Len(text) /\ q = Len(end) /\ l = Len(input)
             /\ \A i \in 1 .. n : i <= l => input[i] # LF
             /\ \A i \in 1 .. q : n + i <= l => input[n + i] = end[i]
<1>1. PICK C : C = 0 .. Base - 1 /\ Bytes = Seq(C)
  BY DEF Bytes
<1>2. input \in Seq(C) /\ wire \in Seq(C) /\ text \in Seq(C) /\ end \in Seq(C) /\ t \in Seq(C)
  BY <1>1, BytesAssumption DEF Ahead
<1>3. PICK n \in Nat : n = Len(text)
  BY <1>2, LengthIs, Zenon
<1>4. PICK q \in Nat : q = Len(end)
  BY <1>2, LengthIs, Zenon
<1>5. PICK l \in Nat : l = Len(input)
  BY <1>2, LengthIs, Zenon
<1>6. PICK e : e = text \o end
  OBVIOUS
<1>7. /\ e \in Seq(C) /\ Len(e) = n + q
      /\ \A i \in 1 .. n + q : e[i] = IF i <= n THEN text[i] ELSE end[i - n]
  BY <1>2, <1>3, <1>4, <1>6, ConcatProperties
<1>8. input \o wire = e \o t
  BY <1>6 DEF Ahead
<1>9. \A i \in Nat \ {0} : i <= Len(input) /\ i <= Len(e) => input[i] = e[i]
  <2>1. Leads(C, input, wire, e, t)
    BY <1>2, <1>7, <1>8 DEF Leads
  <2> QED
    BY <2>1, LeadsWith
<1>10. ASSUME NEW i \in 1 .. n, i <= l PROVE input[i] # LF
  <2>1. i \in Nat \ {0} /\ i <= n + q /\ i \in 1 .. n + q /\ i <= n
    BY <1>3, <1>4
  <2>2. input[i] = text[i]
    BY <1>5, <1>7, <1>9, <1>10, <2>1
  <2>3. text[i] \in ToSet(text)
    <3>1. DOMAIN text = 1 .. n
      BY <1>2, <1>3
    <3> QED
      BY <3>1 DEF ToSet
  <2> QED
    BY <2>2, <2>3, BytesAssumption
<1>11. ASSUME NEW i \in 1 .. q, n + i <= l PROVE input[n + i] = end[i]
  <2>1. n + i \in Nat \ {0} /\ n + i <= n + q /\ n + i \in 1 .. n + q /\ ~(n + i <= n)
        /\ (n + i) - n = i
    BY <1>3, <1>4
  <2> QED
    BY <1>5, <1>7, <1>9, <1>11, <2>1
<1> QED
  BY <1>3, <1>4, <1>5, <1>10, <1>11

LEMMA ReadLineKeeps ==
    ASSUME NumbersInv, ReadLine
    PROVE  NumbersInv'
<1>1. Len(taken) < Len(put) /\ Expected.is = "EOL"
  BY DEF ReadLine, Expects
<1>2. /\ input \in Bytes /\ wire \in Bytes /\ looked \in 0 .. Len(input)
      /\ \A i \in 1 .. looked : input[i] # LF
  BY DEF NumbersInv, NumbersTypeOK
<1>3. PICK C : C = 0 .. Base - 1 /\ Bytes = Seq(C)
  BY DEF Bytes
<1>4. input \in Seq(C)
  BY <1>2, <1>3
<1>5. PICK found : found = findEOL(input, looked)
  OBVIOUS
<1>6. \/ found = -1 /\ \A i \in 1 .. Len(input) : input[i] # LF
      \/ \E f \in 0 .. Len(input) - 1 : /\ found = f /\ input[f + 1] = LF
                                        /\ \A i \in 1 .. f : input[i] # LF
  BY <1>2, <1>4, <1>5, EOLIs
<1>7. CASE found = -1 /\ \A i \in 1 .. Len(input) : input[i] # LF
  <2>1. looked' = Len(input) /\ UNCHANGED <<order, draft, wire, input, drafted, put, taken>>
    BY <1>5, <1>7 DEF ReadLine
  <2>2. PICK l \in Nat : l = Len(input)
    BY <1>4, LengthIs, Zenon
  <2>3. looked' \in 0 .. Len(input') /\ \A i \in 1 .. looked' : input'[i] # LF
    BY <1>7, <2>1, <2>2
  <2>4. NumbersTypeOK'
    BY <2>1, <2>3 DEF NumbersInv, NumbersTypeOK
  <2>5. StreamIsWhole' /\ Carries(draft, drafted)'
    BY <2>1 DEF NumbersInv, StreamIsWhole
  <2> QED
    BY <2>3, <2>4, <2>5 DEF NumbersInv
<1>8. ASSUME NEW f \in 0 .. Len(input) - 1, found = f, input[f + 1] = LF,
             \A i \in 1 .. f : input[i] # LF
      PROVE  NumbersInv'
  <2>1. PICK rest, t : Ahead(rest, t)
    BY <1>1, ExpectedIsNext
  <2>2. Expected \in Items /\ Expected.is # "int"
    BY <1>1, <2>1 DEF Ahead
  <2>3. PICK kind \in {"EOL", "CRLF"} :
            \E text \in Texts : Expected = [is |-> kind, text |-> text]
    BY <2>2, EndedIs
  <2>4. PICK text \in Texts : Expected = [is |-> kind, text |-> text]
    BY <2>3
  <2>5. kind = "EOL"
    BY <1>1, <2>4
  <2>6. PICK end : end = <<LF>>
    OBVIOUS
  <2>7. Enc(Expected) = text \o end
    BY <2>4, <2>5, <2>6 DEF Enc
  <2>8. end \in Bytes /\ Len(end) = 1 /\ end[1] = LF
    <3>1. LF \in C
      BY <1>3, BytesAssumption
    <3> QED
      BY <1>3, <2>6, <3>1
  <2>9. PICK n \in Nat, q \in Nat, l \in Nat :
             /\ n = Len(text) /\ q = Len(end) /\ l = Len(input)
             /\ \A i \in 1 .. n : i <= l => input[i] # LF
             /\ \A i \in 1 .. q : n + i <= l => input[n + i] = end[i]
    BY <1>2, <2>1, <2>7, <2>8, TextInFront
  <2>10. f \in Nat /\ f + 1 <= l /\ f + 1 \in Nat
    BY <1>8, <2>9
  <2>11. f = n
    <3>1. ~(f < n)
      <4>1. f < n => f + 1 \in 1 .. n
        BY <2>9, <2>10
      <4> QED
        BY <1>8, <2>9, <2>10, <4>1
    <3>2. ~(n < f)
      <4>1. n < f => n + 1 \in 1 .. f /\ n + 1 <= l
        BY <2>9, <2>10
      <4>2. n + 1 <= l => input[n + 1] = LF
        BY <2>8, <2>9
      <4> QED
        BY <1>8, <4>1, <4>2
    <3> QED
      BY <2>9, <2>10, <3>1, <3>2
  <2>12. TakeLine("EOL", found, 1)
    <3>1. ~(found < 0)
      BY <1>8, <2>10
    <3> QED
      BY <1>5, <3>1 DEF ReadLine
  <2>13. found = Len(text) /\ 1 = Len(end) /\ found + 1 <= Len(input)
    BY <1>8, <2>8, <2>9, <2>10, <2>11
  <2> QED
    BY <2>1, <2>4, <2>5, <2>7, <2>8, <2>12, <2>13, LineTaken
<1> QED
  BY <1>6, <1>7, <1>8

LEMMA ReadCRLFKeeps ==
    ASSUME NumbersInv, ReadCRLF
    PROVE  NumbersInv'
<1>1. Len(taken) < Len(put) /\ Expected.is = "CRLF" /\ findCRLF(input) >= 0
  BY DEF ReadCRLF, Expects
<1>2. input \in Bytes /\ wire \in Bytes
  BY DEF NumbersInv, NumbersTypeOK
<1>3. PICK C : C = 0 .. Base - 1 /\ Bytes = Seq(C)
  BY DEF Bytes
<1>4. input \in Seq(C)
  BY <1>2, <1>3
<1>5. PICK f \in 0 .. Len(input) - 2 :
           /\ findCRLF(input) = f /\ input[f + 1] = CR /\ input[f + 2] = LF
           /\ \A i \in 0 .. f - 1 : ~(input[i + 1] = CR /\ input[i + 2] = LF)
  BY <1>1, <1>4, CRLFIs
<1>6. PICK rest, t : Ahead(rest, t)
  BY <1>1, ExpectedIsNext
<1>7. Expected \in Items /\ Expected.is # "int"
  BY <1>1, <1>6 DEF Ahead
<1>8. PICK kind \in {"EOL", "CRLF"} :
          \E text \in Texts : Expected = [is |-> kind, text |-> text]
  BY <1>7, EndedIs
<1>9. PICK text \in Texts : Expected = [is |-> kind, text |-> text]
  BY <1>8
<1>10. kind = "CRLF"
  BY <1>1, <1>9
<1>11. PICK end : end = <<CR, LF>>
  OBVIOUS
<1>12. Enc(Expected) = text \o end
  BY <1>9, <1>10, <1>11 DEF Enc
<1>13. end \in Bytes /\ Len(end) = 2 /\ end[1] = CR /\ end[2] = LF
  <2>1. CR \in C /\ LF \in C
    BY <1>3, BytesAssumption
  <2> QED
    BY <1>3, <1>11, <2>1
<1>14. PICK n \in Nat, q \in Nat, l \in Nat :
             /\ n = Len(text) /\ q = Len(end) /\ l = Len(input)
             /\ \A i \in 1 .. n : i <= l => input[i] # LF
             /\ \A i \in 1 .. q : n + i <= l => input[n + i] = end[i]
  BY <1>2, <1>6, <1>12, <1>13, TextInFront
<1>15. f \in Nat /\ f + 2 <= l
  BY <1>14
<1>16. f = n
  <2>1. ~(f < n)
    <3>1. SUFFICES ASSUME f < n PROVE FALSE
      OBVIOUS
    <3>2. CASE f + 2 <= n
      <4>1. f + 2 \in 1 .. n
        BY <1>14, <1>15, <3>2
      <4> QED
        BY <1>5, <1>14, <1>15, <4>1
    <3>3. CASE ~(f + 2 <= n)
      <4>1. f + 2 = n + 1 /\ n + 1 <= l
        BY <1>14, <1>15, <3>1, <3>3
      <4>2. input[n + 1] = CR
        BY <1>13, <1>14, <4>1
      <4> QED
        BY <1>5, <4>1, <4>2, BytesAssumption
    <3> QED
      BY <3>2, <3>3
  <2>2. ~(n < f)
    <3>1. SUFFICES ASSUME n < f PROVE FALSE
      OBVIOUS
    <3>2. n + 1 <= l /\ n + 2 <= l /\ n \in 0 .. f - 1
      BY <1>14, <1>15, <3>1
    <3>3. input[n + 1] = CR /\ input[n + 2] = LF
      BY <1>13, <1>14, <3>2
    <3> QED
      BY <1>5, <3>2, <3>3
  <2> QED
    BY <1>14, <1>15, <2>1, <2>2
<1>17. TakeLine("CRLF", f, 2)
  BY <1>5 DEF ReadCRLF
<1>18. f = Len(text) /\ 2 = Len(end) /\ f + 2 <= Len(input)
  BY <1>13, <1>14, <1>15, <1>16
<1> QED
  BY <1>6, <1>9, <1>10, <1>12, <1>13, <1>17, <1>18, LineTaken

LEMMA NumbersStep == NumbersInv /\ [NumbersNext]_numberVars => NumbersInv'
<1> SUFFICES ASSUME NumbersInv, [NumbersNext]_numberVars PROVE NumbersInv'
  OBVIOUS
<1>1. ASSUME NEW n \in Widths, NEW item \in Ints(n), AppendInt(item) \/ PrependInt(item)
      PROVE  NumbersInv'
  BY <1>1, IntsDrafted
<1>2. ASSUME NEW item \in Lines, AppendLine(item) PROVE NumbersInv'
  BY <1>2, LineDrafted
<1>3. CASE Send
  BY <1>3, SendKeeps
<1>4. ASSUME NEW n \in 1 .. Len(wire), Arrive(n) PROVE NumbersInv'
  BY <1>4, ArriveKeeps
<1>5. CASE ReadInt
  BY <1>5, ReadIntKeeps
<1>6. CASE ReadLine
  BY <1>6, ReadLineKeeps
<1>7. CASE ReadCRLF
  BY <1>7, ReadCRLFKeeps
<1>8. CASE UNCHANGED numberVars
  BY <1>8 DEF numberVars, NumbersInv, NumbersTypeOK, StreamIsWhole
<1> QED
  BY <1>1, <1>2, <1>3, <1>4, <1>5, <1>6, <1>7, <1>8 DEF NumbersNext

LEMMA NumbersInvArrive == NumbersInv => ValuesArrive
<1> SUFFICES ASSUME NumbersInv PROVE ValuesArrive
  OBVIOUS
<1>1. NumbersTypeOK
  BY DEF NumbersInv
<1>2. /\ put \in Seq(Items) /\ taken \in Seq(Items) /\ input \in Bytes /\ wire \in Bytes
  BY <1>1 DEF NumbersTypeOK
<1>3. PICK rest \in Seq(Items) : put = taken \o rest /\ Carries(input \o wire, rest)
  BY DEF NumbersInv, StreamIsWhole
<1>4. PICK I : I = Items
  OBVIOUS
<1>5. taken \in Seq(I) /\ rest \in Seq(I) /\ put \in Seq(I)
  BY <1>2, <1>4
<1>6. PICK m \in Nat : m = Len(taken)
  BY <1>5, LengthIs, Zenon
<1>7. PICK n \in Nat : n = Len(rest)
  BY <1>5, LengthIs, Zenon
<1>8. /\ Len(put) = m + n
      /\ \A i \in 1 .. m + n : put[i] = IF i <= m THEN taken[i] ELSE rest[i - m]
  BY <1>3, <1>5, <1>6, <1>7, ConcatProperties
<1>9. IsPrefix(taken, put)
  <2>1. Len(taken) <= Len(put)
    BY <1>6, <1>7, <1>8
  <2>2. PICK s : s = SubSeq(taken, 1, m)
    OBVIOUS
  <2>3. s = taken
    BY <1>5, <1>6, <2>2, SubSeqFull
  <2>4. PICK u : u = SubSeq(put, 1, m)
    OBVIOUS
  <2>5. u \in Seq(I) /\ Len(u) = m /\ \A i \in 1 .. m : u[i] = put[i]
    <3>1. \A i \in 1 .. m : put[i] \in I
      BY <1>5, <1>6, <1>7, <1>8
    <3> QED
      BY <1>5, <1>6, <1>7, <1>8, <2>4, <3>1
  <2>6. \A i \in 1 .. m : u[i] = taken[i]
    <3>1. \A i \in 1 .. m : i \in 1 .. m + n /\ i <= m
      BY <1>6, <1>7
    <3> QED
      BY <1>8, <2>5, <3>1
  <2>7. u = taken
    BY <1>5, <1>6, <2>5, <2>6, SeqEqual
  <2> QED
    BY <1>6, <2>1, <2>2, <2>3, <2>4, <2>7 DEF IsPrefix
<1>10. ASSUME Len(taken) = Len(put) PROVE input = <<>> /\ wire = <<>>
  <2>1. n = 0
    BY <1>6, <1>7, <1>8, <1>10
  <2>2. input \o wire = <<>>
    BY <1>3, <1>7, <2>1 DEF Carries
  <2>3. PICK C : Bytes = Seq(C)
    BY DEF Bytes
  <2>4. input \in Seq(C) /\ wire \in Seq(C)
    BY <1>2, <2>3
  <2> QED
    BY <2>2, <2>4, ConcatEqualIffEmpty
<1> QED
  BY <1>1, <1>9, <1>10 DEF ValuesArrive

\* Whatever the byte orders of the two hosts, the values of a byte, the sizes of the integers
\* and the lines, and however the stream is cut: the reader takes out what was put in.
THEOREM StreamIsRead == NumbersSpec => []ValuesArrive
<1>1. NumbersSpec => []NumbersInv
  BY NumbersInitInv, NumbersStep, PTL DEF NumbersSpec
<1> QED
  BY <1>1, NumbersInvArrive, PTL
===============================================================================
