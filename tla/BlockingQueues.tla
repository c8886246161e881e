---------------------------- MODULE BlockingQueues ----------------------------
(***************************************************************************)
(* multiThread/base: BlockingQueue, BoundedBlockingQueue with its           *)
(* circular_buffer, and CountDownLatch, in one use of all: producers put    *)
(* elements into a queue and count a latch down, consumers take, and        *)
(* somebody waits for the latch.  A step that holds the mutex is one step.  *)
(*                                                                         *)
(* push_back makes room when it fills the buffer, so put() never finds it   *)
(* full and never waits: what has no room is the oldest element.  The       *)
(* buffer allocates `capacity' cells and uses capacity + 2: what is stored  *)
(* outside may be read again or be Lost.                                    *)
(***************************************************************************)
EXTENDS Integers, Sequences, FiniteSets

CONSTANTS Producer, Consumer,
          Capacity,    \* the argument of the constructor, and so of circular_buffer
          MaxPuts      \* bounds the calls of put() of a producer

ASSUME CapacityAssumption == Capacity \in Nat \ {0}
ASSUME MaxPutsAssumption  == MaxPuts \in Nat
ASSUME ProducerAssumption == IsFiniteSet(Producer)

\* The elements are numbered from 1 as they enter the queue.
Lost == 0

VARIABLES
    bounded,       \* is the queue a BoundedBlockingQueue?
    circle,        \* its circular_buffer
    deque,         \* the queue_ of a BlockingQueue
    producer,
    consumer,
    count_, waiter,   \* the latch, and the thread that waits for it
    entered,       \* history: elements put
    fetched        \* history: the last one taken

queueVars == <<bounded, circle, deque, producer, consumer, count_, waiter, entered, fetched>>

-------------------------------------------------------------------------------
\* circular_buffer.
Cells == Capacity + 2

Circle == [front_ : 0 .. Cells - 1, rear_ : 0 .. Cells - 1, data_ : [0 .. Cells - 1 -> Nat]]

NewCircle == [front_ |-> 0, rear_ |-> 0, data_ |-> [i \in 0 .. Cells - 1 |-> Lost]]

After(i) == (i + 1) % Cells

\* Mutant: full with one element less.
FullOneEarlier(c) == c.front_ = After(After(c.rear_))

size(c)  == IF c.rear_ > c.front_ THEN c.rear_ - c.front_ ELSE Cells - (c.front_ - c.rear_)
full(c)  == c.front_ = After(c.rear_)
empty(c) == c.front_ = c.rear_
front(c) == c.data_[c.front_]

pop_front(c) == [c EXCEPT !.front_ = After(@)]

\* What a store leaves in the cell.
Stored(i, x) == IF i < Capacity THEN {x} ELSE {x, Lost}

\* With the element the buffer may be full, and then it forgets its oldest element.
push_back(c, x) ==
    {LET d == [c EXCEPT !.data_[c.rear_] = y, !.rear_ = After(@)]
     IN  IF full(d) THEN pop_front(d) ELSE d : y \in Stored(c.rear_, x)}

-------------------------------------------------------------------------------
\* at: "put" is before the mutex; left: how many calls it has still to make.
Producers == [at : {"free", "put", "gone"}, left : 0 .. MaxPuts]

QueueTypeOK ==
    /\ bounded \in BOOLEAN
    /\ circle \in Circle
    /\ deque \in Seq(Nat)
    /\ producer \in [Producer -> Producers]
    /\ consumer \in [Consumer -> {"take", "waiting"}]
    /\ count_ \in 0 .. Cardinality(Producer)
    /\ waiter \in {"new", "waiting", "woken", "passed"}
    /\ entered \in Nat
    /\ fetched \in Nat

QueueInit ==
    /\ bounded \in BOOLEAN
    /\ circle = NewCircle
    /\ deque = << >>
    /\ producer = [p \in Producer |-> [at |-> "free", left |-> MaxPuts]]
    /\ consumer = [c \in Consumer |-> "take"]
    /\ count_ = Cardinality(Producer)
    /\ waiter = "new"
    /\ entered = 0
    /\ fetched = 0

\* notify() of notEmpty_ wakes a consumer, who goes for the mutex again.
OnNotEmpty == {c \in Consumer : consumer[c] = "waiting"}
WokenByPut      == IF OnNotEmpty = {} THEN {consumer} ELSE {[consumer EXCEPT ![c] = "take"] : c \in OnNotEmpty}

-------------------------------------------------------------------------------
CallPut(p) ==
    /\ producer[p].at = "free"
    /\ producer[p].left > 0
    /\ producer' = [producer EXCEPT ![p] = [at |-> "put", left |-> @.left - 1]]
    /\ UNCHANGED <<bounded, circle, deque, consumer, count_, waiter, entered, fetched>>

\* The overloads of put() differ in how they would wait.
put(p) ==
    /\ producer[p].at = "put"
    /\ IF bounded THEN ~full(circle) /\ circle' \in push_back(circle, entered + 1) /\ UNCHANGED deque
                  ELSE deque' = Append(deque, entered + 1) /\ UNCHANGED circle
    /\ entered' = entered + 1
    /\ consumer' \in WokenByPut
    /\ producer' = [producer EXCEPT ![p].at = "free"]
    /\ UNCHANGED <<bounded, count_, waiter, fetched>>

NoElements == IF bounded THEN empty(circle) ELSE deque = << >>

\* take(): there is an element, or the consumer sleeps.
take(c) ==
    /\ consumer[c] = "take"
    /\ ~NoElements
    /\ IF bounded THEN circle' = pop_front(circle) /\ UNCHANGED deque
                  ELSE deque' = Tail(deque) /\ UNCHANGED circle
    /\ fetched' = IF bounded THEN front(circle) ELSE Head(deque)
    /\ UNCHANGED <<bounded, producer, consumer, count_, waiter, entered>>

TakeWaits(c) ==
    /\ consumer[c] = "take"
    /\ NoElements
    /\ consumer' = [consumer EXCEPT ![c] = "waiting"]
    /\ UNCHANGED <<bounded, circle, deque, producer, count_, waiter, entered, fetched>>

\* wait() may return for no reason.
Spurious(c) ==
    /\ consumer[c] = "waiting"
    /\ consumer' = [consumer EXCEPT ![c] = "take"]
    /\ UNCHANGED <<bounded, circle, deque, producer, count_, waiter, entered, fetched>>

-------------------------------------------------------------------------------
\* CountDownLatch.
CountDown(p) ==
    /\ producer[p].at = "free"
    /\ producer[p].left = 0
    /\ producer' = [producer EXCEPT ![p].at = "gone"]
    /\ count_' = count_ - 1
    /\ waiter' = IF count_' = 0 /\ waiter = "waiting" THEN "woken" ELSE waiter
    /\ UNCHANGED <<bounded, circle, deque, consumer, entered, fetched>>

WaitForLatch ==
    /\ waiter \in {"new", "woken"}
    /\ waiter' = IF count_ > 0 THEN "waiting" ELSE "passed"
    /\ UNCHANGED <<bounded, circle, deque, producer, consumer, count_, entered, fetched>>

-------------------------------------------------------------------------------
ProducerStep(p) == put(p) \/ CountDown(p)
ConsumerStep(c) == TakeWaits(c) \/ take(c)

QueueNext ==
    \/ \E p \in Producer : CallPut(p) \/ ProducerStep(p)
    \/ \E c \in Consumer : ConsumerStep(c) \/ Spurious(c)
    \/ WaitForLatch

QueueSpec == QueueInit /\ [][QueueNext]_queueVars

-------------------------------------------------------------------------------
\* How many elements the circular buffer holds.
Held == (circle.rear_ - circle.front_) % Cells

Spoiled(i) == i >= Capacity /\ circle.data_[i] = Lost

\* The queue holds the last elements that entered, in their order, and what was taken is
\* older, over every wrap of the two indexes; in the bounded queue an element is spoiled only
\* if its cell lies outside of the array.
Fifo ==
    IF bounded
    THEN /\ Held <= Capacity
         /\ Held > 0 => size(circle) = Held
         /\ \A k \in 0 .. Held - 1 :
               LET i == (circle.front_ + k) % Cells
               IN  circle.data_[i] = entered - Held + 1 + k \/ Spoiled(i)
         /\ fetched <= entered - Held
    ELSE /\ deque = [k \in 1 .. Len(deque) |-> fetched + k]
         /\ fetched + Len(deque) = entered

\* Of the bounded queue: a put adds an element, and forgets the oldest one exactly if it finds
\* `capacity' others; a take takes the oldest one, and nothing else; no other step changes it.
PutOne ==
    /\ entered' = entered + 1
    /\ fetched' = fetched
    /\ Held' = IF Held < Capacity THEN Held + 1 ELSE Capacity

TakeOne ==
    /\ entered' = entered
    /\ Held' = Held - 1
    /\ fetched' = entered - Held + 1 \/ (fetched' = Lost /\ Spoiled(circle.front_))

OneByOne == bounded => PutOne \/ TakeOne \/ UNCHANGED <<circle, entered, fetched>>

\* The queue keeps its elements in order and loses none but the oldest when it is full, and
\* nobody sleeps for ever while there is work: what is in it is taken, and whoever waits for
\* the latch goes on when all have counted it down, and not before.
QueueServes ==
    /\ [](QueueTypeOK /\ Fifo)
    /\ [][OneByOne]_queueVars
    /\ [](waiter = "passed" => \A p \in Producer : producer[p].at = "gone")
    /\ ~NoElements ~> NoElements
    /\ (count_ = 0) ~> (waiter = "passed")

\* What the comment in put() of BoundedBlockingQueue says, that it waits until the queue is
\* not full: an element that enters finds room beside all that are there.
PutWaitsForRoom == [][bounded /\ entered' # entered => Held' = Held + 1]_queueVars
===============================================================================
