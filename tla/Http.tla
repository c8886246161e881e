--------------------------------- MODULE Http ---------------------------------
(***************************************************************************)
(* The HTTP parser of a connection (HttpContext and the request it fills)  *)
(* and the answer.  The bytes of a request are cells: the text of a line,  *)
(* or the CRLF that ends it; a line can be cut anywhere between two cells. *)
(* The classes below are the texts the parser tells apart.                 *)
(***************************************************************************)
EXTENDS Integers, Sequences

CRLF == "crlf"

\* "get":     a known method, a path and HTTP/1.1
\* "cut":     a known method, and then no HTTP/1.1
\* "unknown": a space, but no known method before it
\* "junk":    neither a space nor a colon
\* "host", "close": a field and a value; the second is Connection: close
Field      == {"host", "close"}
HasSpace   == {"get", "cut", "unknown"} \union Field
HasMethod  == {"get", "cut"}
Texts      == HasSpace \union {"junk"}

-------------------------------------------------------------------------------
ParseState == {"kExpectRequestLine", "kExpectHeader", "kGotAll"}

NoRequest == [method_ |-> "kInvalid", headers_ |-> {}]

NewContext == [state_ |-> "kExpectRequestLine", request_ |-> NoRequest]

Contexts == [state_   : ParseState,
             request_ : [method_ : {"kInvalid", "kGet"}, headers_ : SUBSET Field]]

gotAll(context) == context.state_ = "kGotAll"

\* Mutant: the request of the last message stays.
ResetKeepsRequest(context) == [context EXCEPT !.state_ = "kExpectRequestLine"]

reset(context) == NewContext

\* The index of the first CRLF, or 0.
findCRLF(buf) ==
    IF \E i \in 1 .. Len(buf) : buf[i] = CRLF
    THEN CHOOSE i \in 1 .. Len(buf) : buf[i] = CRLF /\ \A j \in 1 .. i - 1 : buf[j] # CRLF
    ELSE 0

setMethod(request, text) ==
    [request EXCEPT !.method_ = IF text \in HasMethod THEN "kGet" ELSE "kInvalid"]

\* A parse in progress: `ok` and `more` are the locals of parseRequest, `aborted` is
\* that the assertion of setMethod, method_ == kInvalid, has failed.
processRequestLine(p, text) ==
    IF text \notin HasSpace
    THEN [p EXCEPT !.ok = FALSE]
    ELSE [p EXCEPT !.ok = (text = "get"),
                   !.aborted = (p.context.request_.method_ # "kInvalid"),
                   !.context.request_ = setMethod(@, text)]

addHeader(request, text) == [request EXCEPT !.headers_ = @ \union {text}]

\* The branch of the loop of parseRequest for kExpectRequestLine, with a whole line.
\* A line that is refused stays in the buffer.
ParseRequestLine(p, text, rest) ==
    LET q == processRequestLine(p, text)
    IN IF q.ok THEN [q EXCEPT !.buf = rest, !.context.state_ = "kExpectHeader"]
               ELSE [q EXCEPT !.more = FALSE]

\* For kExpectHeader.  Any line without a colon ends the headers.
ParseHeader(p, text, rest) ==
    IF text \in Field
    THEN [p EXCEPT !.buf = rest, !.context.request_ = addHeader(@, text)]
    ELSE [p EXCEPT !.buf = rest, !.context.state_ = "kGotAll", !.more = FALSE]

\* One turn of the loop.  It has no branch for kGotAll, and would turn for ever.
ParseTurn(p) ==
    LET end  == findCRLF(p.buf)
        text == IF end = 1 THEN "" ELSE p.buf[1]
        rest == SubSeq(p.buf, end + 1, Len(p.buf))
    IN CASE ~p.more \/ p.aborted -> p
         [] p.context.state_ = "kGotAll" -> p
         [] OTHER ->
              IF end = 0 THEN [p EXCEPT !.more = FALSE]
              ELSE IF p.context.state_ = "kExpectRequestLine"
                   THEN ParseRequestLine(p, text, rest)
                   ELSE ParseHeader(p, text, rest)

\* Each turn but the last takes a line: there are no more turns than cells.  (The
\* set with one element makes TLC evaluate each turn once.)
parseRequest(context, buf) ==
    LET turn[n \in 0 .. Len(buf) + 1] ==
            IF n = 0
            THEN [context |-> context, buf |-> buf, ok |-> TRUE, more |-> TRUE,
                  aborted |-> FALSE]
            ELSE CHOOSE q \in {ParseTurn(p) : p \in {turn[n - 1]}} : TRUE
    IN turn[Len(buf) + 1]

-------------------------------------------------------------------------------
\* The answer to request n, in two cells; 0 stands for the 400.
appendToBuffer(n) == <<[request |-> n, part |-> "head"], [request |-> n, part |-> "body"]>>

wantsClose(request) == "close" \in request.headers_
===============================================================================
