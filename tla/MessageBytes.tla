---------------------------- MODULE MessageBytes ----------------------------
(***************************************************************************)
(* Streams of messages as sequences of bytes.  A byte knows its place in   *)
(* its message, so that a stream tells whether its messages are whole.     *)
(***************************************************************************)
EXTENDS Naturals, Sequences

Bytes(kind, size) == [i \in 1..size |-> [kind |-> kind, at |-> i, of |-> size]]

\* The last byte of a stream that has none.
NoByte == [kind |-> "none", at |-> 0, of |-> 0]

\* May byte b follow byte a in a stream of whole messages?
Follows(a, b) ==
    IF a.at = a.of THEN b.at = 1
    ELSE b.at = a.at + 1 /\ b.kind = a.kind /\ b.of = a.of

\* Does the run of bytes continue, behind byte a, a stream of whole messages?
Continues(a, bytes) ==
    /\ Follows(a, bytes[1])
    /\ \A i \in 1..Len(bytes) - 1 : Follows(bytes[i], bytes[i + 1])
=============================================================================
