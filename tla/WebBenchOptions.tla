--------------------------- MODULE WebBenchOptions ---------------------------
(***************************************************************************)
(* WebBench/webbench.c before the benchmark: main() reads the options, in   *)
(* any order, a later one over an earlier one, and build_request makes the  *)
(* request of them and of the URL.  The request is its parts: method,       *)
(* target, version and the names of its headers.                            *)
(***************************************************************************)
EXTENDS Integers, Sequences, SequencesExt

CONSTANTS MaxOptions,    \* bounds the options of a command line
          Given          \* what atoi() makes of the numbers on it: any integer, 0 of a text

ASSUME MaxOptionsAssumption == MaxOptions \in Nat
ASSUME GivenAssumption == Given \subseteq Int

VARIABLES
    command,    \* at: what main() does; url: its argument; left: options still to come
    globals,    \* the variables that the options set
    request     \* what build_request makes

optionVars == <<command, globals, request>>

Methods == {"GET", "HEAD", "OPTIONS", "TRACE"}

\* scheme: what is before ://, if there is one; slash: whether the host ends with one;
\* port: what follows the host, if a port does.
Urls == [scheme : {"none", "http", "other"}, tooLong : BOOLEAN, slash : BOOLEAN,
         port : {<< >>} \union {<<n>> : n \in Given}]

\* proxyhost: whether it is set; proxyport: the port of whom bench() connects to.
Globals == [method : Methods, http10 : 0 .. 2, force : BOOLEAN, force_reload : BOOLEAN,
            proxyhost : BOOLEAN, proxyport : Int, clients : Int, benchtime : Int,
            keep_alive : BOOLEAN]

NoRequest == [method |-> "GET", target |-> "none", version |-> 0, headers |-> << >>]

OptionsTypeOK ==
    /\ command \in [at : {"options", "bench", "exit"}, url : Urls, left : 0 .. MaxOptions]
    /\ globals \in Globals
    /\ request.method \in Methods /\ request.version \in 0 .. 2

OptionsInit ==
    /\ command \in [at : {"options"}, url : Urls, left : {MaxOptions}]
    /\ globals = [method |-> "GET", http10 |-> 1, force |-> FALSE, force_reload |-> FALSE,
                  proxyhost |-> FALSE, proxyport |-> 80, clients |-> 1, benchtime |-> 30,
                  keep_alive |-> TRUE]
    /\ request = NoRequest

-------------------------------------------------------------------------------
\* The loop of getopt_long.
Set(g) ==
    /\ command.at = "options"
    /\ command.left > 0
    /\ command' = [command EXCEPT !.left = @ - 1]
    /\ globals' = g
    /\ UNCHANGED request

Exit == command' = [command EXCEPT !.at = "exit"] /\ UNCHANGED <<globals, request>>

ParseOption ==
    \/ Set([globals EXCEPT !.force = TRUE])
    \/ Set([globals EXCEPT !.force_reload = TRUE])
    \/ \E v \in 0 .. 2 : Set([globals EXCEPT !.http10 = v])
    \/ \E m \in Methods : Set([globals EXCEPT !.method = m])
    \/ Set([globals EXCEPT !.keep_alive = TRUE])
    \/ \E n \in Given : Set([globals EXCEPT !.clients = n]) \/ Set([globals EXCEPT !.benchtime = n])

\* server, or server:port; without one of the two main() returns.
ParseProxy ==
    \/ Set([globals EXCEPT !.proxyhost = TRUE])
    \/ \E n \in Given : Set([globals EXCEPT !.proxyhost = TRUE, !.proxyport = n])

\* --help, --version, a bad option or no URL.
GiveUp == command.at = "options" /\ Exit

-------------------------------------------------------------------------------
\* Mutant: a reload through a proxy may stay at HTTP/0.9.
VersionForMethod(g) ==
    IF g.method \in {"OPTIONS", "TRACE"} THEN 2
    ELSE IF g.method = "HEAD" /\ g.http10 < 1 THEN 1
    ELSE g.http10

\* The lowest version that has what is asked for.
Version(g) ==
    IF g.method \in {"OPTIONS", "TRACE"} THEN 2
    ELSE IF (g.method = "HEAD" \/ (g.force_reload /\ g.proxyhost)) /\ g.http10 < 1 THEN 1
    ELSE g.http10

\* The checks of the URL, each with its own message.
Refused(url) == url.scheme # "http" \/ url.tooLong \/ ~url.slash

\* Without a proxy the port is the one in the URL; one that is 0 or no number is 80.
PortOf(url, g) ==
    IF g.proxyhost \/ url.port = << >> THEN g.proxyport
    ELSE IF url.port[1] = 0 THEN 80 ELSE url.port[1]

\* The names of the lines that follow; a blank one ends them.
Headers(g) ==
    LET version == Version(g)
        Line(given, name) == IF given THEN <<name>> ELSE << >>
    IN  Line(version > 0, "User-Agent")
        \o Line(~g.proxyhost /\ version > 0, "Host")
        \o Line(g.force_reload /\ g.proxyhost, "Pragma")
        \o Line(version > 1, IF g.keep_alive THEN "Keep-Alive" ELSE "close")
        \o Line(version > 0, "blank")

\* The end of main(), with build_request.
Build ==
    /\ command.at = "options"
    /\ ~Refused(command.url)
    /\ command' = [command EXCEPT !.at = "bench"]
    /\ globals' = [globals EXCEPT !.clients = IF @ = 0 THEN 1 ELSE @,
                                  !.benchtime = IF @ = 0 THEN 30 ELSE @,
                                  !.http10 = Version(globals),
                                  !.proxyport = PortOf(command.url, globals)]
    /\ request' = [method |-> globals.method, target |-> IF globals.proxyhost THEN "url" ELSE "path",
                   version |-> Version(globals), headers |-> Headers(globals)]

Refuse == command.at = "options" /\ Refused(command.url) /\ Exit

OptionsNext == ParseOption \/ ParseProxy \/ GiveUp \/ Build \/ Refuse

OptionsSpec == OptionsInit /\ [][OptionsNext]_optionVars

-------------------------------------------------------------------------------
\* Whatever the options and their order, the request is one that a server understands: in
\* HTTP/0.9 it is a GET of one line; later it has its headers and an empty line at the
\* end; one for OPTIONS or TRACE is HTTP/1.1.  A proxy gets the whole URL and no Host, a
\* server its path and its name, on the port of its URL, or 80: whatever ports the options
\* gave for proxies.  The numbers of clients and of seconds are not 0.  (A negative number
\* passes, and so does any port of a proxy.)
RequestIsWellFormed ==
    /\ OptionsTypeOK
    /\ command.at = "bench" =>
          /\ IF request.version = 0
             THEN request.method = "GET" /\ request.headers = << >>
             ELSE /\ Last(request.headers) = "blank"
                  /\ ToSet(Front(request.headers)) \cap {"blank"} = {}
                  /\ "Host" \in ToSet(request.headers) <=> request.target = "path"
          /\ request.method \in {"OPTIONS", "TRACE"} => request.version = 2
          /\ request.target = IF globals.proxyhost THEN "url" ELSE "path"
          /\ request.target = "path" =>
                globals.proxyport = IF command.url.port \in {<< >>, <<0>>}
                                    THEN 80 ELSE Head(command.url.port)
          /\ globals.clients # 0 /\ globals.benchtime # 0
===============================================================================
