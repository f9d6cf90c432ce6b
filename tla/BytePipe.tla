------------------------------ MODULE BytePipe ------------------------------
(***************************************************************************)
(* What one direction of a proxied connection promises.  The stream is     *)
(* everything the receiving peer is to see, in order; delivered is what it *)
(* has read so far.  Bytes enter at the end of the stream, leave it in     *)
(* order, and are never changed, repeated or reordered.  A direction that  *)
(* may discard can take back bytes from the end of the stream, but never a *)
(* byte that the peer has already read.                                    *)
(***************************************************************************)
EXTENDS Naturals, Sequences

CONSTANT MayDiscard    \* may bytes that entered be taken back undelivered?

VARIABLES stream, delivered

pipe == <<stream, delivered>>

\* s is an initial segment of t.
StartsWith(t, s) == Len(s) <= Len(t) /\ SubSeq(t, 1, Len(s)) = s

PipeInit == stream = <<>> /\ delivered = <<>>

\* Bytes enter the stream at its end.
Enter == /\ StartsWith(stream', stream)
         /\ UNCHANGED delivered

\* The peer reads the next bytes of the stream.
Deliver == /\ StartsWith(delivered', delivered)
           /\ StartsWith(stream, delivered')
           /\ UNCHANGED stream

\* Bytes no peer has read are taken back.
Discard == /\ MayDiscard
           /\ StartsWith(stream, stream')
           /\ StartsWith(stream', delivered)
           /\ UNCHANGED delivered

PipeNext == Enter \/ Deliver \/ Discard

PipeSpec == PipeInit /\ [][PipeNext]_pipe
=============================================================================
