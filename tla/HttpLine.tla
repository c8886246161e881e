------------------------------- MODULE HttpLine -------------------------------
(***************************************************************************)
(* What the parser makes of one line: HttpContext::processRequestLine with   *)
(* the setters of HttpRequest, and addHeader with getHeader.  A line is a    *)
(* sequence of tokens, the words and separators that the code tells apart;   *)
(* positions count from 1, and the line ends behind its last token.          *)
(***************************************************************************)
EXTENDS Integers, Sequences, SequencesExt, FiniteSetsExt

CONSTANTS Starts,     \* how the first line may begin
          MaxTokens   \* bounds the tokens that follow, of all lines together

\* "GET" stands for the five methods, "version" for the eight bytes HTTP/1.1, "word" for any
\* other; the separators are ' ', '?' and ':', and "ws" is white space that is not a space.
Token == {"GET", "version", "word", "space", "ws", "question", "colon"}

ASSUME StartsAssumption == Starts \subseteq Seq(Token)

VARIABLES line,      \* the line so far
          headers,   \* headers_
          received   \* how many tokens followed so far

lineVars == <<line, headers, received>>

LineInit == line \in Starts /\ headers = [field \in {} |-> << >>] /\ received = 0

-------------------------------------------------------------------------------
\* std::find in line[start .. end - 1]: the first position, or the end.
find(s, start, end, token) ==
    LET hits == {i \in start .. end - 1 : s[i] = token}
    IN  IF hits = {} THEN end ELSE CHOOSE i \in hits : \A j \in hits : i <= j

\* The text from start up to end, in which a pointer may have run past the end.
Text(s, start, end) == SubSeq(s, start, end - 1)

setMethodText(s) == s = <<"GET">>

NoLine == [ok |-> FALSE, method |-> FALSE, path |-> << >>, query |-> << >>]

\* Mutant: the version is compared without a look at its length.
VersionStarts(s, start, end) == start < end /\ s[start] = "version"

VersionIs(s, start, end) == Text(s, start, end) = <<"version">>

\* Without a second space it starts behind the end, and nothing is 8 bytes long there.
processRequestText(s) ==
    LET end   == Len(s) + 1
        space == find(s, 1, end, "space")
        second   == find(s, space + 1, end, "space")
        question == find(s, space + 1, second, "question")
        target   == second # end
    IN  IF space = end \/ ~setMethodText(Text(s, 1, space)) THEN NoLine
        ELSE [ok |-> VersionIs(s, second + 1, end),
              method |-> TRUE,
              path |-> IF target THEN Text(s, space + 1, question) ELSE << >>,
              query |-> IF target THEN Text(s, question, second) ELSE << >>]

-------------------------------------------------------------------------------
Space == {"space", "ws"}

\* The two loops of addHeader go on to the first token that is kept, and back to the last.
Kept(s) == {i \in 1 .. Len(s) : s[i] \notin Space}

TrimFront(s) == IF Kept(s) = {} THEN << >> ELSE SubSeq(s, Min(Kept(s)), Len(s))
TrimBack(s)  == IF Kept(s) = {} THEN << >> ELSE SubSeq(s, 1, Max(Kept(s)))

\* A later line with the same field replaces the value.
addHeaderText(s) ==
    LET colon == find(s, 1, Len(s) + 1, "colon")
        field == Text(s, 1, colon)
        value == TrimBack(TrimFront(Text(s, colon + 1, Len(s) + 1)))
    IN  [f \in DOMAIN headers \union {field} |-> IF f = field THEN value ELSE headers[f]]

getHeader(field) == IF field \in DOMAIN headers THEN headers[field] ELSE << >>

-------------------------------------------------------------------------------
\* Another token of the line arrives.
Arrives(token) ==
    /\ received < MaxTokens
    /\ received' = received + 1
    /\ line' = Append(line, token)
    /\ UNCHANGED headers

\* The line is whole, and it is a header.
HeaderEnds ==
    /\ "colon" \in ToSet(line)
    /\ headers' = addHeaderText(line)
    /\ line' = << >>
    /\ UNCHANGED received

LineNext == (\E token \in Token : Arrives(token)) \/ HeaderEnds

LineSpec == LineInit /\ [][LineNext]_lineVars

-------------------------------------------------------------------------------
\* The grammar of a request line: method SP target SP version, no further space; the query
\* begins with its question mark.
IsRequestLine(s, path, query) ==
    /\ s = <<"GET", "space">> \o path \o query \o <<"space", "version">>
    /\ "space" \notin ToSet(path) /\ "question" \notin ToSet(path)
    /\ query # << >> => query[1] = "question"
    /\ "space" \notin ToSet(query)

\* A line is taken for a request exactly if the grammar allows it, with the path and the
\* query the grammar gives; and a value, once stored, neither begins nor ends with white
\* space and is found under its field, which has no colon.
LinesAreUnderstood ==
    /\ LET made == processRequestText(line)
       IN  made.ok <=> \E i \in 2 .. Len(line) :
                          /\ made.path = SubSeq(line, 3, i)
                          /\ made.query = SubSeq(line, i + 1, Len(line) - 2)
                          /\ IsRequestLine(line, made.path, made.query)
    /\ \A field \in DOMAIN headers :
          /\ "colon" \notin ToSet(field)
          /\ getHeader(field) # << >> =>
                Head(getHeader(field)) \notin Space /\ Last(getHeader(field)) \notin Space
===============================================================================
