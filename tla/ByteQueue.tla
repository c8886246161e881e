------------------------------ MODULE ByteQueue ------------------------------
(***************************************************************************)
(* What a Buffer promises to those who use it: a queue of bytes, to which  *)
(* bytes are added at either end and from which they are taken at the      *)
(* front, or all at once.                                                  *)
(***************************************************************************)
EXTENDS Integers, Sequences

CONSTANT Chunk    \* what is added in one step, a set of sequences

VARIABLE bytes

Init == bytes = << >>

PutBack == \E s \in Chunk : bytes' = bytes \o s

PutFront == \E s \in Chunk : bytes' = s \o bytes

Take == \E n \in 0 .. Len(bytes) : bytes' = SubSeq(bytes, n + 1, Len(bytes))

Next == PutBack \/ PutFront \/ Take

Spec == Init /\ [][Next]_bytes
==============================================================================
