------------------------------ MODULE WebBench ------------------------------
(***************************************************************************)
(* WebBench/webbench.c: a parent forks clients that send requests until a  *)
(* signal of alarm(2), write their counts to a pipe and exit; the parent   *)
(* adds them up.  The signal interrupts what blocks, and the count of       *)
(* failures is corrected for that.                                          *)
(***************************************************************************)
EXTENDS Naturals, Sequences, SequencesExt, FiniteSetsExt

CONSTANTS Clients,       \* -c
          MaxRequests,   \* bounds the requests of a child
          MaxErrors      \* bounds the errors of a child that no signal causes

ASSUME ClientsAssumption   == Clients \in Nat \ {0}

Kid == 1 .. Clients

VARIABLES
    bench,    \* the parent: option -k, where it is, clients to hear of, and its sums
    kid,      \* the children, see BenchTypeOK
    mypipe    \* what was written to it, as pairs of speed and failed

benchVars == <<bench, kid, mypipe>>

\* errors: how many requests did not succeed, and not because of the signal.
BenchTypeOK ==
    /\ bench \in [keep_alive : BOOLEAN,
                  at : {"probing", "forking", "reading", "printed", "gone"},
                  forked : 0 .. Clients, clients : 0 .. Clients,
                  speed : Nat, failed : Nat]
    /\ kid \in [Kid -> [at : {"none", "top", "connect", "reconnect", "write", "read", "report",
                              "gone"},
                        socket : BOOLEAN, timerexpired : BOOLEAN,
                        speed : 0 .. MaxRequests, failed : Nat, errors : Nat]]

BenchInit ==
    /\ \E keep_alive \in BOOLEAN :
          bench = [keep_alive |-> keep_alive, at |-> "probing", forked |-> 0, clients |-> Clients,
                   speed |-> 0, failed |-> 0]
    /\ kid = [i \in Kid |-> [at |-> "none", socket |-> FALSE, timerexpired |-> FALSE,
                             speed |-> 0, failed |-> 0, errors |-> 0]]
    /\ mypipe = << >>

-------------------------------------------------------------------------------
\* bench(): is there a server?
Probe ==
    /\ bench.at = "probing"
    /\ \E there \in BOOLEAN : bench' = [bench EXCEPT !.at = IF there THEN "forking" ELSE "gone"]
    /\ UNCHANGED <<kid, mypipe>>

\* fork(2); when it fails the parent returns, and the children go on.
ForkKid ==
    /\ bench.at = "forking"
    /\ \/ /\ bench' = [bench EXCEPT !.at = "gone"]
          /\ UNCHANGED kid
       \/ LET i == bench.forked + 1
          IN /\ bench' = [bench EXCEPT !.forked = i, !.at = IF i = Clients THEN "reading" ELSE @]
             /\ kid' = [kid EXCEPT ![i].at = IF bench.keep_alive THEN "reconnect" ELSE "top"]
    /\ UNCHANGED mypipe

\* The parent reads a line.
Read ==
    /\ bench.at = "reading"
    /\ mypipe # << >>
    /\ bench' = [bench EXCEPT !.speed = @ + Head(mypipe).speed,
                              !.failed = @ + Head(mypipe).failed,
                              !.clients = @ - 1,
                              !.at = IF bench.clients = 1 THEN "printed" ELSE @]
    /\ mypipe' = Tail(mypipe)
    /\ UNCHANGED kid

-------------------------------------------------------------------------------
\* benchcore() in a child.

Requests(r) == r.speed + r.errors

\* A request that did not succeed: back to the top, or, with keep_alive when write
\* fails, to the loop that connects again.
Failed(r) ==
    [r EXCEPT !.failed = @ + 1, !.socket = FALSE,
              !.at = IF bench.keep_alive /\ r.at = "write" THEN "reconnect" ELSE "top"]

Error(r) == [Failed(r) EXCEPT !.errors = @ + 1]

\* Mutant: the count is not corrected.
ExpiredAsIs(r) == [r EXCEPT !.at = "report"]

\* The signal came, and with it perhaps an error that was none.
Expired(r) == [r EXCEPT !.failed = IF @ > 0 THEN @ - 1 ELSE 0, !.at = "report"]

\* Mutant: the loop does not look at timerexpired.
TopForever(i) ==
    /\ kid[i].at = "top"
    /\ Requests(kid[i]) < MaxRequests
    /\ kid' = [kid EXCEPT ![i].at = IF bench.keep_alive THEN "write" ELSE "connect"]
    /\ UNCHANGED <<bench, mypipe>>

Top(i) ==
    /\ kid[i].at = "top"
    /\ IF kid[i].timerexpired THEN kid' = [kid EXCEPT ![i] = Expired(@)]
       ELSE /\ Requests(kid[i]) < MaxRequests
            /\ kid' = [kid EXCEPT ![i].at = IF bench.keep_alive THEN "write" ELSE "connect"]
    /\ UNCHANGED <<bench, mypipe>>

Connected(i) ==
    /\ kid[i].at \in {"connect", "reconnect"}
    /\ kid' = [kid EXCEPT ![i].socket = TRUE,
                          ![i].at = IF kid[i].at = "connect" THEN "write" ELSE "top"]
    /\ UNCHANGED <<bench, mypipe>>

Written(i) ==
    /\ kid[i].at = "write"
    /\ kid[i].socket
    /\ kid' = [kid EXCEPT ![i].at = "read"]
    /\ UNCHANGED <<bench, mypipe>>

\* All that was asked for is read, or the rest is left since the time is over.
Answered(i) ==
    /\ kid[i].at = "read"
    /\ kid' = [kid EXCEPT ![i].speed = @ + 1, ![i].socket = bench.keep_alive, ![i].at = "top"]
    /\ UNCHANGED <<bench, mypipe>>

\* connect, write or read fails; write always does after a read failed with keep_alive.
RequestFails(i) ==
    /\ kid[i].at \in {"connect", "write", "read"}
    /\ kid[i].errors < MaxErrors \/ (kid[i].at = "write" /\ ~kid[i].socket)
    /\ kid' = [kid EXCEPT ![i] = Error(@)]
    /\ UNCHANGED <<bench, mypipe>>

\* alarm_handler; the call that blocks may be interrupted and fail.  The loop that
\* connects again does not count that, and does not look at timerexpired.
Alarm(i) ==
    /\ kid[i].at \notin {"none", "gone"}
    /\ ~kid[i].timerexpired
    /\ LET r == [kid[i] EXCEPT !.timerexpired = TRUE]
       IN \/ kid' = [kid EXCEPT ![i] = r]
          \/ /\ kid[i].at \in {"connect", "write", "read"}
             /\ kid[i].at = "connect" \/ kid[i].socket
             /\ kid' = [kid EXCEPT ![i] = Failed(r)]
    /\ UNCHANGED <<bench, mypipe>>

Report(i) ==
    /\ kid[i].at = "report"
    /\ kid' = [kid EXCEPT ![i].at = "gone"]
    /\ mypipe' = Append(mypipe, [speed |-> kid[i].speed, failed |-> kid[i].failed])
    /\ UNCHANGED bench

KidStep(i) == Top(i) \/ Connected(i) \/ Written(i) \/ Answered(i) \/ RequestFails(i) \/ Report(i)

ParentStep == ForkKid \/ Read

BenchNext == Probe \/ ParentStep \/ \E i \in Kid : KidStep(i) \/ Alarm(i)

-------------------------------------------------------------------------------
\* The correction is right up to one, whenever the signal comes and whether or not it
\* interrupts a call: a child never reports a failure that the signal caused, and hides
\* one real failure at most.
FailuresAreReal ==
    /\ BenchTypeOK
    /\ \A i \in Kid :
          kid[i].at \in {"report", "gone"} =>
            kid[i].failed <= kid[i].errors /\ kid[i].errors <= kid[i].failed + 1

\* A bench that has all its children and whose server answers prints its sums: they are
\* those of all children, whose failures are real.
BenchPrints ==
    (bench.at = "reading") ~>
        /\ bench.at = "printed" /\ FailuresAreReal
        /\ bench.speed = MapThenSumSet(LAMBDA i : kid[i].speed, Kid)
        /\ bench.failed = MapThenSumSet(LAMBDA i : kid[i].failed, Kid)
===============================================================================
