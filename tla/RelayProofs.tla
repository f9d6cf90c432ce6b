---------------------------- MODULE RelayProofs -----------------------------
(***************************************************************************)
(* Proofs about Relay: no byte is lost, repeated or overtaken in the       *)
(* buffers of a connection, the writer events are registered exactly when  *)
(* there is something to write, and each direction implements BytePipe,    *)
(* for every protocol, kernel buffer size and bound.                       *)
(***************************************************************************)
EXTENDS Relay, SequenceTheorems, TLAPS

-----------------------------------------------------------------------------
(* Sequences.                                                              *)

LEMMA TakeDrop ==
    ASSUME NEW S, NEW s \in Seq(S), NEW n \in 0..Len(s)
    PROVE  /\ Take(s, n) \in Seq(S) /\ Len(Take(s, n)) = n
           /\ Drop(s, n) \in Seq(S) /\ Len(Drop(s, n)) = Len(s) - n
           /\ Take(s, n) \o Drop(s, n) = s
<1>1. Len(s) \in Nat
  BY LenProperties
<1>2. \A i \in 1..Len(s) : s[i] \in S
  BY ElementOfSeq
<1>3. Take(s, n) \in Seq(S) /\ Len(Take(s, n)) = n
  BY <1>1, <1>2, SubSeqProperties DEF Take
<1>4. Drop(s, n) \in Seq(S) /\ Len(Drop(s, n)) = Len(s) - n
  BY <1>1, <1>2, SubSeqProperties DEF Drop
<1>5. SubSeq(s, 1, n) \o SubSeq(s, n + 1, Len(s)) = SubSeq(s, 1, Len(s))
  <2>1. /\ 1 \in 1..Len(s)+1
        /\ n \in 1-1..Len(s)
        /\ Len(s) \in n..Len(s)
    BY <1>1
  <2>2. QED
    BY <2>1, ConcatAdjacentSubSeq
<1>6. QED
  BY <1>3, <1>4, <1>5, SubSeqFull DEF Take, Drop

\* A prefix of t moved to the end of s leaves their concatenation as it is.
LEMMA MovePrefix ==
    ASSUME NEW S, NEW s \in Seq(S), NEW t \in Seq(S), NEW n \in 0..Len(t)
    PROVE  /\ s \o Take(t, n) \in Seq(S)
           /\ Len(s \o Take(t, n)) = Len(s) + n
           /\ (s \o Take(t, n)) \o Drop(t, n) = s \o t
<1>1. /\ Take(t, n) \in Seq(S) /\ Len(Take(t, n)) = n
      /\ Drop(t, n) \in Seq(S)
      /\ Take(t, n) \o Drop(t, n) = t
  BY TakeDrop
<1>2. /\ s \o Take(t, n) \in Seq(S)
      /\ Len(s \o Take(t, n)) = Len(s) + n
  BY <1>1, ConcatProperties
<1>3. \A p, q \in Seq(S) : (s \o p) \o q = s \o (p \o q)
  BY ConcatAssociative
<1>4. (s \o Take(t, n)) \o Drop(t, n) = s \o (Take(t, n) \o Drop(t, n))
  BY <1>1, <1>3
<1>5. s \o (Take(t, n) \o Drop(t, n)) = s \o t
  BY <1>1
<1>6. QED
  BY <1>2, <1>4, <1>5

LEMMA BytesAssociative ==
    \A s, t, u \in Seq(Byte) : (s \o t) \o u = s \o (t \o u)
BY ConcatAssociative

LEMMA TakeConcat ==
    ASSUME NEW S, NEW p \in Seq(S), NEW q \in Seq(S)
    PROVE  /\ Take(p \o q, Len(p)) = p
           /\ Len(p \o q) - Len(q) = Len(p)
<1>1. Len(p) \in Nat /\ Len(q) \in Nat
  BY LenProperties
<1>2. /\ p \o q \in Seq(S)
      /\ Len(p \o q) = Len(p) + Len(q)
      /\ \A i \in 1..Len(p) + Len(q) :
           (p \o q)[i] = IF i <= Len(p) THEN p[i] ELSE q[i - Len(p)]
  BY ConcatProperties
<1>3. Take(p \o q, Len(p)) \in Seq(S) /\ Len(Take(p \o q, Len(p))) = Len(p)
  <2>1. Len(p) \in 0..Len(p \o q)
    BY <1>1, <1>2
  <2>2. QED
    BY <1>2, <2>1, TakeDrop
<1>4. ASSUME NEW i \in 1..Len(p) PROVE Take(p \o q, Len(p))[i] = p[i]
  <2>1. \A j \in 1..Len(p) : (p \o q)[j] \in S
    BY <1>1, <1>2, ElementOfSeq
  <2>2. \A j \in 1..Len(p)-1+1 : SubSeq(p \o q, 1, Len(p))[j] = (p \o q)[1+j-1]
    BY <1>1, <2>1, SubSeqProperties
  <2>3. i \in 1..Len(p)-1+1 /\ 1+i-1 = i /\ i \in 1..Len(p) + Len(q) /\ i <= Len(p)
    BY <1>1
  <2>4. QED
    BY <1>2, <2>2, <2>3 DEF Take
<1>5. Take(p \o q, Len(p)) = p
  BY <1>3, <1>4, SeqEqual
<1>6. QED
  BY <1>1, <1>2, <1>5

\* Chunks of a peer's stream and made-up replies are sequences of bytes.
LEMMA ChunkTypes ==
    ASSUME NEW n \in Nat, NEW k \in Nat
    PROVE  /\ ChunkAfter(n, k) \in Seq(Byte) /\ Len(ChunkAfter(n, k)) = k
           /\ Replies(k) \in Seq(Byte) /\ Len(Replies(k)) = k
<1>1. ChunkAfter(n, k) \in [1..k -> Byte] /\ Replies(k) \in [1..k -> Byte]
  BY DEF ChunkAfter, Replies, Reply, Byte
<1>2. QED
  BY <1>1 DEF ChunkAfter, Replies, Reply, Byte

-----------------------------------------------------------------------------
(* The writes.                                                             *)

LEMMA ProxyWriteEffect ==
    ASSUME TypeOK, NEW out \in Seq(Byte), ProxyWrite(out)
    PROVE  /\ responseOut' \in Seq(Byte)
           /\ clientSock' \in Seq(Byte) /\ Len(clientSock') <= SockCap
           /\ proxyWriter' \in BOOLEAN
           /\ clientSock' \o responseOut' = clientSock \o out
           /\ ~ProxyWriteFails(out) => (proxyWriter' <=> responseOut' # <<>>)
           /\ ProxyWriteFails(out) =>
                /\ responseOut' = out
                /\ proxyWriter' = proxyWriter
                /\ clientLink = "broken"
<1>1. CASE ProxyWriteFails(out)
  BY <1>1 DEF ProxyWrite, ProxyWriteFails, TypeOK
<1>2. CASE ~ProxyWriteFails(out)
  <2>1. PICK n \in Sendable(clientLink, clientSock, out) :
          /\ clientSock' = clientSock \o Take(out, n)
          /\ responseOut' = Drop(out, n)
          /\ proxyWriter' = (n < Len(out))
    BY <1>2 DEF ProxyWrite
  <2>2. /\ n \in 0..Len(out)
        /\ n > 0 => Len(clientSock) + n <= SockCap
    BY <2>1 DEF Sendable
  <2>3. /\ Take(out, n) \in Seq(Byte) /\ Len(Take(out, n)) = n
        /\ Drop(out, n) \in Seq(Byte) /\ Len(Drop(out, n)) = Len(out) - n
        /\ Take(out, n) \o Drop(out, n) = out
    BY <2>2, TakeDrop
  <2>4. clientSock \in Seq(Byte) /\ Len(clientSock) <= SockCap
    BY DEF TypeOK
  <2>5. /\ clientSock' \in Seq(Byte)
        /\ Len(clientSock') = Len(clientSock) + n
        /\ clientSock' \o responseOut' = clientSock \o out
    BY <2>1, <2>2, <2>4, MovePrefix
  <2>6. Len(clientSock') <= SockCap
    BY <2>2, <2>4, <2>5, LenProperties, RelayAssumption
  <2>7. proxyWriter' <=> responseOut' # <<>>
    <3>1. Len(responseOut') = Len(out) - n
      BY <2>1, <2>3
    <3>2. responseOut' # <<>> <=> Len(responseOut') # 0
      BY <2>1, <2>3, EmptySeq
    <3>3. Len(out) \in Nat
      BY LenProperties
    <3>4. n < Len(out) <=> Len(out) - n # 0
      BY <2>2, <3>3
    <3>5. QED
      BY <2>1, <3>1, <3>2, <3>4
  <2>8. proxyWriter' \in BOOLEAN
    BY <2>1
  <2>9. QED
    BY <1>2, <2>1, <2>3, <2>5, <2>6, <2>7, <2>8
<1>3. QED
  BY <1>1, <1>2

LEMMA BackendWriteEffect ==
    ASSUME TypeOK, NEW out \in Seq(Byte), BackendWrite(out),
           firstResponse' \in BOOLEAN
    PROVE  /\ requestOut' \in Seq(Byte)
           /\ backendSock' \in Seq(Byte) /\ Len(backendSock') <= SockCap
           /\ backendWriter' \in BOOLEAN
           /\ backendSock' \o requestOut' = backendSock \o out
           /\ ~BackendWriteFails(out) => (backendWriter' <=> requestOut' # <<>>)
<1>1. CASE backendLink = "broken" /\ out # <<>>
  BY <1>1 DEF BackendWrite, BackendWriteFails, TypeOK
<1>2. CASE ~(backendLink = "broken" /\ out # <<>>)
  <2>1. PICK n \in Sendable(backendLink, backendSock, out) :
          /\ backendSock' = backendSock \o Take(out, n)
          /\ requestOut' = Drop(out, n)
          /\ backendWriter' = (n < Len(out))
    BY <1>2 DEF BackendWrite
  <2>2. /\ n \in 0..Len(out)
        /\ n > 0 => Len(backendSock) + n <= SockCap
    BY <2>1 DEF Sendable
  <2>3. /\ Take(out, n) \in Seq(Byte) /\ Len(Take(out, n)) = n
        /\ Drop(out, n) \in Seq(Byte) /\ Len(Drop(out, n)) = Len(out) - n
        /\ Take(out, n) \o Drop(out, n) = out
    BY <2>2, TakeDrop
  <2>4. backendSock \in Seq(Byte) /\ Len(backendSock) <= SockCap
    BY DEF TypeOK
  <2>5. /\ backendSock' \in Seq(Byte)
        /\ Len(backendSock') = Len(backendSock) + n
        /\ backendSock' \o requestOut' = backendSock \o out
    BY <2>1, <2>2, <2>4, MovePrefix
  <2>6. Len(backendSock') <= SockCap
    BY <2>2, <2>4, <2>5, LenProperties, RelayAssumption
  <2>7. backendWriter' <=> requestOut' # <<>>
    <3>1. Len(requestOut') = Len(out) - n
      BY <2>1, <2>3
    <3>2. requestOut' # <<>> <=> Len(requestOut') # 0
      BY <2>1, <2>3, EmptySeq
    <3>3. Len(out) \in Nat
      BY LenProperties
    <3>4. n < Len(out) <=> Len(out) - n # 0
      BY <2>2, <3>3
    <3>5. QED
      BY <2>1, <3>1, <3>2, <3>4
  <2>8. backendWriter' \in BOOLEAN
    BY <2>1
  <2>9. QED
    BY <2>1, <2>3, <2>5, <2>6, <2>7, <2>8
<1>3. QED
  BY <1>1, <1>2

-----------------------------------------------------------------------------
(* The handlers built from them.                                           *)

\* What the type invariant says of the response side and of the request side.
ResponseTypes ==
    /\ responseIn \in Seq(Byte) /\ responseOut \in Seq(Byte)
    /\ clientSock \in Seq(Byte) /\ Len(clientSock) <= SockCap
    /\ proxyWriter \in BOOLEAN /\ firstResponse \in BOOLEAN

RequestTypes ==
    /\ requestIn \in Seq(Byte) /\ requestOut \in Seq(Byte)
    /\ backendSock \in Seq(Byte) /\ Len(backendSock) <= SockCap
    /\ backendWriter \in BOOLEAN

\* The bytes on either side of the proxy that its peer has not read yet.
ResponsePending == clientSock \o responseOut \o responseIn
RequestPending  == backendSock \o requestOut \o requestIn

\* The writer invariants without their condition that the connection is open.
ProxyWriterRight ==
    /\ proxyWriter => responseOut # <<>>
    /\ responseOut # <<>> => proxyWriter \/ clientLink = "broken"

BackendWriterRight == backendWriter <=> requestOut # <<>>

LEMMA ProxyWriteRight ==
    ASSUME TypeOK, NEW out \in Seq(Byte), ProxyWrite(out),
           UNCHANGED clientLink, ProxyWriterRight
    PROVE  ProxyWriterRight'
<1>1. CASE ProxyWriteFails(out)
  BY <1>1, ProxyWriteEffect DEF ProxyWriterRight, ProxyWriteFails
<1>2. CASE ~ProxyWriteFails(out)
  BY <1>2, ProxyWriteEffect DEF ProxyWriterRight
<1>3. QED
  BY <1>1, <1>2

LEMMA ServerResponseEffect ==
    ASSUME TypeOK, NEW in \in Seq(Byte), NEW k \in 0..Len(in),
           ServerResponse(in, k), UNCHANGED clientLink
    PROVE  /\ ResponseTypes'
           /\ ResponsePending' = clientSock \o responseOut \o in
           /\ ProxyWriterRight => ProxyWriterRight'
<1>1. /\ firstResponse' \in BOOLEAN
      /\ responseIn' = Drop(in, k)
  BY DEF ServerResponse, TypeOK
<1>2. /\ Take(in, k) \in Seq(Byte) /\ Len(Take(in, k)) = k
      /\ Drop(in, k) \in Seq(Byte) /\ Len(Drop(in, k)) = Len(in) - k
      /\ Take(in, k) \o Drop(in, k) = in
  BY TakeDrop
<1>3. /\ clientSock \in Seq(Byte) /\ responseOut \in Seq(Byte)
      /\ clientSock \o responseOut \in Seq(Byte)
  BY ConcatProperties DEF TypeOK
<1>4. CASE k = 0
  <2>1. UNCHANGED <<responseOut, clientSock, proxyWriter>>
    BY <1>4 DEF ServerResponse
  <2>2. Take(in, k) = <<>>
    BY <1>2, <1>4, EmptySeq
  <2>3. Drop(in, k) = in
    BY <1>2, <2>2, ConcatEmptySeq
  <2>4. ResponsePending' = clientSock \o responseOut \o in
    BY <1>1, <2>1, <2>3 DEF ResponsePending
  <2>5. QED
    BY <1>1, <1>2, <2>1, <2>4 DEF ResponseTypes, TypeOK, ProxyWriterRight
<1>5. CASE k # 0
  <2> DEFINE out == responseOut \o Take(in, k)
  <2>1. out \in Seq(Byte) /\ Len(out) = Len(responseOut) + k
    BY <1>2, <1>3, ConcatProperties
  <2>2. out # <<>>
    BY <1>3, <1>5, <2>1, LenProperties, EmptySeq
  <2>3. ProxyWrite(out)
    BY <1>5 DEF ServerResponse
  <2> HIDE DEF out
  <2>4. /\ responseOut' \in Seq(Byte)
        /\ clientSock' \in Seq(Byte) /\ Len(clientSock') <= SockCap
        /\ proxyWriter' \in BOOLEAN
        /\ clientSock' \o responseOut' = clientSock \o out
    BY <2>1, <2>3, ProxyWriteEffect
  <2>5. clientSock \o out = (clientSock \o responseOut) \o Take(in, k)
    <3>1. ASSUME NEW p \in Seq(Byte)
          PROVE  clientSock \o (responseOut \o p) = (clientSock \o responseOut) \o p
      <4>1. clientSock \in Seq(Byte) /\ responseOut \in Seq(Byte)
        BY <1>3
      <4>2. QED
        BY ONLY <4>1, p \in Seq(Byte), BytesAssociative, ZenonT(60)
    <3>2. QED
      BY <1>2, <3>1 DEF out
  <2>6. ((clientSock \o responseOut) \o Take(in, k)) \o Drop(in, k)
          = (clientSock \o responseOut) \o in
    BY <1>3, MovePrefix
  <2>7. ResponsePending' = clientSock \o responseOut \o in
    BY <1>1, <2>4, <2>5, <2>6 DEF ResponsePending
  <2>8. ProxyWriterRight => ProxyWriterRight'
    BY <2>1, <2>3, ProxyWriteRight
  <2>9. QED
    BY <1>1, <1>2, <2>4, <2>7, <2>8 DEF ResponseTypes
<1>6. QED
  BY <1>4, <1>5

\* The reply part of Forward.
LEMMA QueueRepliesEffect ==
    ASSUME TypeOK, NEW r \in Nat, NEW k \in 0..(Len(responseIn) + r),
           UNCHANGED clientLink, QueueReplies(r, k)
    PROVE  /\ ResponseTypes'
           /\ ResponsePending' = ResponsePending \o Replies(r)
           /\ ProxyWriterRight => ProxyWriterRight'
<1>1. Replies(r) \in Seq(Byte) /\ Len(Replies(r)) = r
  BY ChunkTypes
<1>2. /\ clientSock \in Seq(Byte) /\ responseOut \in Seq(Byte)
      /\ responseIn \in Seq(Byte)
      /\ clientSock \o responseOut \in Seq(Byte)
      /\ ResponsePending \in Seq(Byte)
  BY ConcatProperties DEF TypeOK, ResponsePending
<1>3. \A s, t, u \in Seq(Byte) : (s \o t) \o u = s \o (t \o u)
  BY BytesAssociative
<1>4. ASSUME NEW p \in Seq(Byte)
      PROVE  (clientSock \o responseOut) \o (responseIn \o p)
               = ((clientSock \o responseOut) \o responseIn) \o p
  <2>1. ASSUME NEW q \in Seq(Byte)
        PROVE  q \o (responseIn \o p) = (q \o responseIn) \o p
    BY <1>2, <1>3, ZenonT(60)
  <2>2. QED
    BY <1>2, <2>1
<1>5. ASSUME NEW p \in Seq(Byte)
      PROVE  clientSock \o (responseOut \o p) = (clientSock \o responseOut) \o p
  <2>1. clientSock \in Seq(Byte) /\ responseOut \in Seq(Byte)
    BY <1>2
  <2>2. QED
    BY <2>1, BytesAssociative
<1>6. CASE JoinsResponseIn(r)
  <2> DEFINE in == responseIn \o Replies(r)
  <2>1. in \in Seq(Byte) /\ Len(in) = Len(responseIn) + r
    BY <1>1, <1>2, ConcatProperties
  <2>2. ServerResponse(in, k)
    BY <1>6 DEF QueueReplies
  <2>3. (clientSock \o responseOut) \o in = ResponsePending \o Replies(r)
    BY <1>1, <1>4 DEF ResponsePending
  <2> HIDE DEF in
  <2>4. k \in 0..Len(in)
    BY <2>1
  <2>5. QED
    BY <2>1, <2>2, <2>3, <2>4, ServerResponseEffect
<1>7. CASE ~JoinsResponseIn(r) /\ r = 0
  <2>1. UNCHANGED <<responseIn, firstResponse, responseOut, clientSock, proxyWriter>>
    BY <1>7 DEF QueueReplies
  <2>2. Replies(r) = <<>>
    BY <1>1, <1>7, EmptySeq
  <2>3. ResponsePending \o Replies(r) = ResponsePending
    BY <1>2, <2>2, ConcatEmptySeq
  <2>4. ResponsePending' = ResponsePending
    BY <2>1 DEF ResponsePending
  <2>5. ResponseTypes' /\ (ProxyWriterRight => ProxyWriterRight')
    BY <2>1 DEF ResponseTypes, TypeOK, ProxyWriterRight
  <2>6. QED
    BY <2>3, <2>4, <2>5
<1>8. CASE ~JoinsResponseIn(r) /\ r # 0
  <2> DEFINE out == responseOut \o Replies(r)
  <2>1. out \in Seq(Byte)
    BY <1>1, <1>2, ConcatProperties
  <2>2. /\ responseIn = <<>>
        /\ UNCHANGED <<responseIn, firstResponse>>
        /\ ProxyWrite(out)
    BY <1>8 DEF JoinsResponseIn, QueueReplies
  <2>3. clientSock \o out = (clientSock \o responseOut) \o Replies(r)
    BY <1>1, <1>5
  <2> HIDE DEF out
  <2>4. /\ responseOut' \in Seq(Byte)
        /\ clientSock' \in Seq(Byte) /\ Len(clientSock') <= SockCap
        /\ proxyWriter' \in BOOLEAN
        /\ clientSock' \o responseOut' = clientSock \o out
    BY <2>1, <2>2, ProxyWriteEffect
  <2>5. ResponsePending = clientSock \o responseOut
    BY <1>2, <2>2, ConcatEmptySeq DEF ResponsePending
  <2>6. ResponsePending' = clientSock' \o responseOut'
    <3>1. clientSock' \o responseOut' \in Seq(Byte)
      BY <2>4, ConcatProperties
    <3>2. responseIn' = <<>>
      BY <2>2
    <3>3. QED
      BY <3>1, <3>2, ConcatEmptySeq DEF ResponsePending
  <2>7. ResponsePending' = ResponsePending \o Replies(r)
    BY <2>3, <2>4, <2>5, <2>6
  <2>8. ProxyWriterRight => ProxyWriterRight'
    BY <2>1, <2>2, ProxyWriteRight
  <2>9. ResponseTypes'
    BY <2>2, <2>4 DEF ResponseTypes, TypeOK
  <2>10. QED
    BY <2>7, <2>8, <2>9
<1>9. QED
  BY <1>6, <1>7, <1>8

\* The request part of Forward: in holds request_in with the bytes just read.
LEMMA SendRequestEffect ==
    ASSUME TypeOK, NEW in \in Seq(Byte), NEW t \in 0..Len(in), NEW failed \in BOOLEAN,
           firstResponse' \in BOOLEAN, SendRequest(in, t, failed)
    PROVE  /\ RequestTypes' /\ open' \in BOOLEAN
           /\ RequestPending' = backendSock \o requestOut \o in
           /\ BackendWriterRight /\ open' => BackendWriterRight'
<1> DEFINE out == requestOut \o Take(in, t)
<1>1. /\ Take(in, t) \in Seq(Byte) /\ Len(Take(in, t)) = t
      /\ Drop(in, t) \in Seq(Byte)
      /\ Take(in, t) \o Drop(in, t) = in
  BY TakeDrop
<1>2. /\ backendSock \in Seq(Byte) /\ Len(backendSock) <= SockCap
      /\ requestOut \in Seq(Byte) /\ backendWriter \in BOOLEAN
      /\ backendSock \o requestOut \in Seq(Byte)
  BY ConcatProperties DEF TypeOK
<1>3. out \in Seq(Byte)
  BY <1>1, <1>2, ConcatProperties
<1>4. backendSock \o out = (backendSock \o requestOut) \o Take(in, t)
  <2>1. \A p \in Seq(Byte) :
          backendSock \o (requestOut \o p) = (backendSock \o requestOut) \o p
    BY <1>2, BytesAssociative, ZenonT(60)
  <2>2. QED
    BY <1>1, <2>1
<1>5. ((backendSock \o requestOut) \o Take(in, t)) \o Drop(in, t)
        = (backendSock \o requestOut) \o in
  BY <1>2, MovePrefix, ZenonT(60)
<1>6. t = 0 => out = requestOut
  <2>1. t = 0 => Take(in, t) = <<>>
    BY <1>1, EmptySeq
  <2>2. QED
    BY <1>2, <2>1, ConcatEmptySeq
<1>7. IF t = 0 \/ failed
        THEN /\ requestOut' = out
             /\ UNCHANGED <<backendSock, backendWriter>>
             /\ open' = ~failed
        ELSE /\ BackendWrite(out)
             /\ open' = ~BackendWriteFails(out)
  BY DEF SendRequest
<1>8. requestIn' = Drop(in, t)
  BY DEF SendRequest
<1> HIDE DEF out
<1>9. /\ requestOut' \in Seq(Byte)
      /\ backendSock' \in Seq(Byte) /\ Len(backendSock') <= SockCap
      /\ backendWriter' \in BOOLEAN
      /\ backendSock' \o requestOut' = backendSock \o out
      /\ open' \in BOOLEAN
      /\ BackendWriterRight /\ open' => BackendWriterRight'
  <2>1. CASE t = 0 \/ failed
    BY <1>2, <1>3, <1>6, <1>7, <2>1 DEF BackendWriterRight
  <2>2. CASE ~(t = 0 \/ failed)
    <3>1. BackendWrite(out) /\ open' = ~BackendWriteFails(out)
      BY <1>7, <2>2
    <3>2. BackendWriteFails(out) \in BOOLEAN
      BY DEF BackendWriteFails
    <3>3. QED
      BY <1>3, <3>1, <3>2, BackendWriteEffect DEF BackendWriterRight
  <2>3. QED
    BY <2>1, <2>2
<1>10. RequestPending' = backendSock \o requestOut \o in
  BY <1>4, <1>5, <1>9, <1>8 DEF RequestPending
<1>11. QED
  BY <1>1, <1>9, <1>10, <1>8 DEF RequestTypes

LEMMA ForwardEffect ==
    ASSUME TypeOK, NEW in \in Seq(Byte), NEW t \in 0..Len(in), NEW r \in Nat,
           UNCHANGED clientLink, Forward(in, t, r)
    PROVE  /\ ResponseTypes' /\ RequestTypes' /\ open' \in BOOLEAN
           /\ ResponsePending' = ResponsePending \o Replies(r)
           /\ RequestPending' = backendSock \o requestOut \o in
           /\ ProxyWriterRight => ProxyWriterRight'
           /\ BackendWriterRight /\ open' => BackendWriterRight'
<1>1. PICK k \in 0..(Len(responseIn) + r) :
        /\ QueueReplies(r, k)
        /\ SendRequest(in, t, JoinsResponseIn(r) /\ ServerResponseFails(k))
  BY DEF Forward
<1>2. /\ ResponseTypes'
      /\ ResponsePending' = ResponsePending \o Replies(r)
      /\ ProxyWriterRight => ProxyWriterRight'
  BY <1>1, QueueRepliesEffect
<1>3. (JoinsResponseIn(r) /\ ServerResponseFails(k)) \in BOOLEAN
  BY DEF JoinsResponseIn, ServerResponseFails
<1>4. firstResponse' \in BOOLEAN
  BY <1>2 DEF ResponseTypes
<1>5. /\ RequestTypes' /\ open' \in BOOLEAN
      /\ RequestPending' = backendSock \o requestOut \o in
      /\ BackendWriterRight /\ open' => BackendWriterRight'
  BY <1>1, <1>3, <1>4, SendRequestEffect
<1>6. QED
  BY <1>2, <1>5

-----------------------------------------------------------------------------
(* The inductive invariant.                                                *)

\* What the type invariant says of the rest of the state.
OtherTypes ==
    /\ open \in BOOLEAN
    /\ clientLink \in {"up", "broken"}
    /\ backendLink \in {"connecting", "up", "broken"}
    /\ clientGot \in Seq(Byte) /\ backendGot \in Seq(Byte)
    /\ clientSent \in 0..MaxClient /\ serverSent \in 0..MaxServer
    /\ replies \in 0..MaxReplies
    /\ asked \in Seq(Byte) /\ answered \in Seq(Byte)

LEMMA TypeParts == TypeOK <=> ResponseTypes /\ RequestTypes /\ OtherTypes
BY DEF TypeOK, ResponseTypes, RequestTypes, OtherTypes

\* The streams, with the bytes that are still to be read kept together.
LEMMA StreamParts ==
    ASSUME TypeOK
    PROVE  /\ ResponsePending \in Seq(Byte) /\ RequestPending \in Seq(Byte)
           /\ ResponseStream <=> answered = clientGot \o ResponsePending
           /\ RequestStream <=> asked = backendGot \o RequestPending
<1>1. \A s, t, u \in Seq(Byte) : (s \o t) \o u = s \o (t \o u)
  BY BytesAssociative
<1>2. /\ ResponsePending \in Seq(Byte)
      /\ ((clientGot \o clientSock) \o responseOut) \o responseIn
           = clientGot \o ResponsePending
  <2>1. /\ clientGot \in Seq(Byte) /\ clientSock \in Seq(Byte)
        /\ responseOut \in Seq(Byte)
    BY DEF TypeOK
  <2>2. clientSock \o responseOut \in Seq(Byte) /\ responseIn \in Seq(Byte)
    BY <2>1, ConcatProperties DEF TypeOK
  <2>3. (clientSock \o responseOut) \o responseIn \in Seq(Byte)
    BY <2>2, ConcatProperties
  <2>4. (clientGot \o clientSock) \o responseOut
          = clientGot \o (clientSock \o responseOut)
    BY <1>1, <2>1
  <2>5. (clientGot \o (clientSock \o responseOut)) \o responseIn
          = clientGot \o ((clientSock \o responseOut) \o responseIn)
    BY <1>1, <2>1, <2>2, ZenonT(60)
  <2>6. QED
    BY <2>3, <2>4, <2>5, Zenon DEF ResponsePending
<1>3. /\ RequestPending \in Seq(Byte)
      /\ ((backendGot \o backendSock) \o requestOut) \o requestIn
           = backendGot \o RequestPending
  <2>1. /\ backendGot \in Seq(Byte) /\ backendSock \in Seq(Byte)
        /\ requestOut \in Seq(Byte)
    BY DEF TypeOK
  <2>2. backendSock \o requestOut \in Seq(Byte) /\ requestIn \in Seq(Byte)
    BY <2>1, ConcatProperties DEF TypeOK
  <2>3. (backendSock \o requestOut) \o requestIn \in Seq(Byte)
    BY <2>2, ConcatProperties
  <2>4. (backendGot \o backendSock) \o requestOut
          = backendGot \o (backendSock \o requestOut)
    BY <1>1, <2>1
  <2>5. (backendGot \o (backendSock \o requestOut)) \o requestIn
          = backendGot \o ((backendSock \o requestOut) \o requestIn)
    BY <1>1, <2>1, <2>2, ZenonT(60)
  <2>6. QED
    BY <2>3, <2>4, <2>5, Zenon DEF RequestPending
<1>4. QED
  BY <1>2, <1>3 DEF ResponseStream, RequestStream

\* The invariant: it is inductive as it stands, with the two streams and the two
\* writers together, because a write that moves bytes also arms the writer.
Inv ==
    /\ TypeOK
    /\ RequestStream
    /\ ResponseStream
    /\ BackendWriterArmed
    /\ ProxyWriterArmed

LEMMA InitInv == Init => Inv
<1> SUFFICES ASSUME Init PROVE Inv
  OBVIOUS
<1>1. <<>> \in Seq(Byte) /\ Len(<<>>) = 0
  BY EmptySeq
<1>2. 0 \in 0..MaxClient /\ 0 \in 0..MaxServer /\ 0 \in 0..MaxReplies /\ 0 <= SockCap
  BY RelayAssumption
<1>3. TypeOK
  BY <1>1, <1>2 DEF Init, TypeOK
<1>4. <<>> \o <<>> = <<>>
  BY <1>1, ConcatEmptySeq
<1>5. RequestStream /\ ResponseStream
  BY <1>4 DEF Init, RequestStream, ResponseStream
<1>6. BackendWriterArmed /\ ProxyWriterArmed
  BY DEF Init, BackendWriterArmed, ProxyWriterArmed
<1>7. QED
  BY <1>3, <1>5, <1>6 DEF Inv

\* The invariant in the form in which the steps preserve it.
InvParts ==
    /\ ResponseTypes /\ RequestTypes /\ OtherTypes
    /\ answered = clientGot \o ResponsePending
    /\ asked = backendGot \o RequestPending
    /\ open => BackendWriterRight
    /\ open => ProxyWriterRight

LEMMA InvInParts == Inv <=> InvParts
BY TypeParts, StreamParts
   DEF Inv, InvParts, BackendWriterArmed, ProxyWriterArmed, BackendWriterRight,
       ProxyWriterRight

LEMMA InvInPartsNext == Inv' <=> InvParts'
BY InvInParts, PTL

\* Bytes e that join request_in, or response_in, join the end of what is pending.
LEMMA PendingGrows ==
    ASSUME InvParts, NEW e \in Seq(Byte)
    PROVE  /\ requestIn \o e \in Seq(Byte) /\ responseIn \o e \in Seq(Byte)
           /\ backendSock \o requestOut \o (requestIn \o e) = RequestPending \o e
           /\ clientSock \o responseOut \o (responseIn \o e) = ResponsePending \o e
           /\ asked \o e \in Seq(Byte) /\ answered \o e \in Seq(Byte)
           /\ asked \o e = backendGot \o (RequestPending \o e)
           /\ answered \o e = clientGot \o (ResponsePending \o e)
<1>1. \A s, t, u \in Seq(Byte) : (s \o t) \o u = s \o (t \o u)
  BY BytesAssociative
<1>2. \A s, t \in Seq(Byte) : s \o t \in Seq(Byte)
  BY ConcatProperties
<1>3. /\ requestIn \in Seq(Byte) /\ responseIn \in Seq(Byte)
      /\ backendSock \in Seq(Byte) /\ requestOut \in Seq(Byte)
      /\ clientSock \in Seq(Byte) /\ responseOut \in Seq(Byte)
  BY DEF InvParts, ResponseTypes, RequestTypes
<1>4. /\ asked \in Seq(Byte) /\ answered \in Seq(Byte)
      /\ backendGot \in Seq(Byte) /\ clientGot \in Seq(Byte)
  BY DEF InvParts, OtherTypes
<1>5. backendSock \o requestOut \in Seq(Byte) /\ clientSock \o responseOut \in Seq(Byte)
  BY <1>3, ConcatProperties
<1>6. RequestPending \in Seq(Byte) /\ ResponsePending \in Seq(Byte)
  BY <1>3, <1>5, ConcatProperties DEF RequestPending, ResponsePending
<1>7. backendSock \o requestOut \o (requestIn \o e) = RequestPending \o e
  <2>1. backendSock \o requestOut \in Seq(Byte) /\ requestIn \in Seq(Byte)
    BY <1>3, <1>5
  <2>2. (backendSock \o requestOut) \o (requestIn \o e)
          = ((backendSock \o requestOut) \o requestIn) \o e
    BY <1>1, <2>1
  <2>3. QED
    BY <2>2, Zenon DEF RequestPending
<1>8. clientSock \o responseOut \o (responseIn \o e) = ResponsePending \o e
  <2>1. clientSock \o responseOut \in Seq(Byte) /\ responseIn \in Seq(Byte)
    BY <1>3, <1>5
  <2>2. (clientSock \o responseOut) \o (responseIn \o e)
          = ((clientSock \o responseOut) \o responseIn) \o e
    BY <1>1, <2>1
  <2>3. QED
    BY <2>2, Zenon DEF ResponsePending
<1>9. asked \o e = backendGot \o (RequestPending \o e)
  <2>1. (backendGot \o RequestPending) \o e = backendGot \o (RequestPending \o e)
    BY <1>1, <1>4, <1>6, ZenonT(60)
  <2>2. QED
    BY <2>1, Zenon DEF InvParts
<1>10. answered \o e = clientGot \o (ResponsePending \o e)
  <2>1. (clientGot \o ResponsePending) \o e = clientGot \o (ResponsePending \o e)
    BY <1>1, <1>4, <1>6, ZenonT(60)
  <2>2. QED
    BY <2>1, Zenon DEF InvParts
<1>11. /\ requestIn \o e \in Seq(Byte) /\ responseIn \o e \in Seq(Byte)
       /\ asked \o e \in Seq(Byte) /\ answered \o e \in Seq(Byte)
  BY <1>2, <1>3, <1>4, Zenon
<1>12. QED
  BY <1>7, <1>8, <1>9, <1>10, <1>11

LEMMA ClientReadableInv ==
    ASSUME Inv, InvParts, ClientReadable
    PROVE  InvParts'
<1>1. PICK n \in 1..MaxChunk :
        /\ clientSent + n <= MaxClient
        /\ clientSent' = clientSent + n
        /\ asked' = asked \o ChunkAfter(clientSent, n)
        /\ \/ \E t \in 0..Len(requestIn \o ChunkAfter(clientSent, n)),
                 r \in 0..(MaxReplies - replies) :
                /\ Forward(requestIn \o ChunkAfter(clientSent, n), t, r)
                /\ answered' = answered \o Replies(r)
                /\ replies' = replies + r
           \/ /\ Refuse(requestIn \o ChunkAfter(clientSent, n))
              /\ UNCHANGED <<answered, replies>>
  BY DEF ClientReadable
<1>2. open /\ UNCHANGED <<clientLink, backendLink, clientGot, backendGot, serverSent>>
  BY DEF ClientReadable, links, got
<1>3. clientSent \in Nat /\ n \in Nat
  BY RelayAssumption DEF InvParts, OtherTypes
<1>4. ChunkAfter(clientSent, n) \in Seq(Byte)
  BY <1>3, ChunkTypes
<1> DEFINE chunk == ChunkAfter(clientSent, n)
           in    == requestIn \o chunk
<1>5. /\ in \in Seq(Byte)
      /\ backendSock \o requestOut \o in = RequestPending \o chunk
      /\ asked \o chunk \in Seq(Byte)
      /\ asked \o chunk = backendGot \o (RequestPending \o chunk)
  BY <1>4, PendingGrows
<1>6. clientSent' \in 0..MaxClient /\ TypeOK
  BY <1>1, <1>3, RelayAssumption DEF Inv
<1>7. asked' = asked \o chunk
  BY <1>1
<1>8. \/ \E t \in 0..Len(in), r \in 0..(MaxReplies - replies) :
           /\ Forward(in, t, r)
           /\ answered' = answered \o Replies(r)
           /\ replies' = replies + r
      \/ Refuse(in) /\ UNCHANGED <<answered, replies>>
  BY <1>1
<1> HIDE DEF chunk, in
<1>9. ASSUME NEW t \in 0..Len(in), NEW r \in 0..(MaxReplies - replies),
             Forward(in, t, r), answered' = answered \o Replies(r),
             replies' = replies + r
      PROVE  InvParts'
  <2>1. r \in Nat /\ replies' \in 0..MaxReplies
    BY <1>9, RelayAssumption DEF InvParts, OtherTypes
  <2>2. Replies(r) \in Seq(Byte)
    BY <2>1, ChunkTypes
  <2>3. /\ answered \o Replies(r) \in Seq(Byte)
        /\ answered \o Replies(r) = clientGot \o (ResponsePending \o Replies(r))
    BY <2>2, PendingGrows
  <2>4. /\ ResponseTypes' /\ RequestTypes' /\ open' \in BOOLEAN
        /\ ResponsePending' = ResponsePending \o Replies(r)
        /\ RequestPending' = backendSock \o requestOut \o in
        /\ ProxyWriterRight => ProxyWriterRight'
        /\ BackendWriterRight /\ open' => BackendWriterRight'
    BY <1>2, <1>5, <1>6, <1>9, <2>1, ForwardEffect
  <2>5. OtherTypes'
    BY <1>2, <1>5, <1>6, <1>7, <1>9, <2>1, <2>3, <2>4 DEF InvParts, OtherTypes
  <2>6. answered' = clientGot' \o ResponsePending'
    BY <1>2, <1>9, <2>3, <2>4, Zenon
  <2>7. asked' = backendGot' \o RequestPending'
    BY <1>2, <1>5, <1>7, <2>4, Zenon
  <2>8. (open => BackendWriterRight)' /\ (open => ProxyWriterRight)'
    BY <1>2, <2>4, Zenon DEF InvParts
  <2>9. QED
    BY <2>4, <2>5, <2>6, <2>7, <2>8 DEF InvParts
<1>10. ASSUME Refuse(in), UNCHANGED <<answered, replies>>
       PROVE  InvParts'
  <2>1. /\ requestIn' = in
        /\ open' = FALSE
        /\ UNCHANGED <<requestOut, responseIn, responseOut, firstResponse,
                       proxyWriter, backendWriter, clientSock, backendSock>>
    BY <1>10 DEF Refuse, writers, socks
  <2>2. ResponseTypes' /\ RequestTypes'
    BY <1>5, <2>1 DEF InvParts, ResponseTypes, RequestTypes
  <2>3. OtherTypes'
    BY <1>2, <1>5, <1>6, <1>7, <1>10, <2>1 DEF InvParts, OtherTypes
  <2>4. answered' = clientGot' \o ResponsePending'
    BY <1>2, <1>10, <2>1 DEF InvParts, ResponsePending
  <2>5. RequestPending' = backendSock \o requestOut \o in
    BY <2>1 DEF RequestPending
  <2>6. asked' = backendGot' \o RequestPending'
    BY <1>2, <1>5, <1>7, <2>5, Zenon
  <2>7. QED
    BY <2>1, <2>2, <2>3, <2>4, <2>6 DEF InvParts
<1>11. QED
  BY <1>8, <1>9, <1>10

\* The request buffer is discarded: the stream loses exactly its bytes.
LEMMA ClientReadableDiscardInv ==
    ASSUME Inv, InvParts, ClientReadableDiscard
    PROVE  InvParts'
<1>1. /\ open /\ UNCHANGED <<clientLink, backendLink, clientGot, backendGot, serverSent>>
      /\ Forward(<<>>, 0, 1)
      /\ asked' = Take(asked, Len(asked) - Len(requestIn))
      /\ answered' = answered \o Replies(1)
      /\ replies < MaxReplies /\ replies' = replies + 1
      /\ \E n \in 1..MaxChunk : /\ clientSent + n <= MaxClient
                                /\ clientSent' = clientSent + n
  BY DEF ClientReadableDiscard, links, got
<1>2. Replies(1) \in Seq(Byte) /\ <<>> \in Seq(Byte) /\ Len(<<>>) = 0
  BY ChunkTypes, EmptySeq
<1>3. /\ clientSent' \in 0..MaxClient /\ replies' \in 0..MaxReplies
      /\ TypeOK
  BY <1>1, RelayAssumption DEF InvParts, OtherTypes, Inv
<1>4. /\ ResponseTypes' /\ RequestTypes' /\ open' \in BOOLEAN
      /\ ResponsePending' = ResponsePending \o Replies(1)
      /\ RequestPending' = backendSock \o requestOut \o <<>>
      /\ ProxyWriterRight => ProxyWriterRight'
      /\ BackendWriterRight /\ open' => BackendWriterRight'
  <2>1. 0 \in 0..Len(<<>>) /\ 1 \in Nat
    BY <1>2
  <2>2. QED
    BY <1>1, <1>2, <1>3, <2>1, ForwardEffect
<1>5. /\ answered \o Replies(1) \in Seq(Byte)
      /\ answered \o Replies(1) = clientGot \o (ResponsePending \o Replies(1))
  BY <1>2, PendingGrows
<1>6. /\ backendGot \in Seq(Byte) /\ requestIn \in Seq(Byte)
      /\ backendSock \in Seq(Byte) /\ requestOut \in Seq(Byte)
  BY DEF InvParts, OtherTypes, RequestTypes
<1>7. /\ backendSock \o requestOut \in Seq(Byte)
      /\ backendGot \o (backendSock \o requestOut) \in Seq(Byte)
  BY <1>6, ConcatProperties
<1>8. RequestPending' = backendSock \o requestOut
  BY <1>4, <1>7, ConcatEmptySeq
<1>9. asked = (backendGot \o (backendSock \o requestOut)) \o requestIn
  <2>1. (backendGot \o (backendSock \o requestOut)) \o requestIn
          = backendGot \o ((backendSock \o requestOut) \o requestIn)
    <3>1. \A t, u, v \in Seq(Byte) : (t \o u) \o v = t \o (u \o v)
      BY BytesAssociative
    <3>2. QED
      BY <1>6, <1>7, <3>1, ZenonT(60)
  <2>2. QED
    BY <2>1, Zenon DEF InvParts, RequestPending
<1>10. asked' = backendGot \o (backendSock \o requestOut)
  <2> DEFINE p == backendGot \o (backendSock \o requestOut)
  <2>1. p \in Seq(Byte) /\ asked = p \o requestIn
    BY <1>7, <1>9
  <2> HIDE DEF p
  <2>2. Take(asked, Len(p)) = p /\ Len(asked) - Len(requestIn) = Len(p)
    BY <1>6, <2>1, TakeConcat
  <2>3. asked' = p
    BY <1>1, <2>2
  <2>4. QED
    BY <2>3 DEF p
<1>11. OtherTypes'
  BY <1>1, <1>3, <1>4, <1>5, <1>7, <1>10 DEF InvParts, OtherTypes
<1>12. answered' = clientGot' \o ResponsePending'
  BY <1>1, <1>4, <1>5, Zenon
<1>13. asked' = backendGot' \o RequestPending'
  BY <1>1, <1>8, <1>10, Zenon
<1>14. (open => BackendWriterRight)' /\ (open => ProxyWriterRight)'
  BY <1>1, <1>4, Zenon DEF InvParts
<1>15. QED
  BY <1>4, <1>11, <1>12, <1>13, <1>14 DEF InvParts

\* The steps that move no byte.
LEMMA CloseConnectionInv ==
    ASSUME InvParts, CloseConnection
    PROVE  InvParts'
BY DEF CloseConnection, buffers, writers, links, socks, got, history, InvParts,
       ResponseTypes, RequestTypes, OtherTypes, ResponsePending, RequestPending,
       BackendWriterRight, ProxyWriterRight

LEMMA LinkInv ==
    ASSUME InvParts, ConnectDone \/ ClientBreaks \/ BackendBreaks
    PROVE  InvParts'
<1>1. /\ UNCHANGED <<open, firstResponse, requestIn, requestOut, responseIn,
                     responseOut, proxyWriter, backendWriter, clientSock,
                     backendSock, clientGot, backendGot, clientSent, serverSent,
                     replies, asked, answered>>
      /\ clientLink' \in {clientLink, "broken"}
      /\ backendLink' \in {backendLink, "up", "broken"}
  BY DEF ConnectDone, ClientBreaks, BackendBreaks, buffers, writers, socks, got,
         history
<1>2. ResponseTypes' /\ RequestTypes' /\ OtherTypes'
  BY <1>1 DEF InvParts, ResponseTypes, RequestTypes, OtherTypes
<1>3. UNCHANGED <<ResponsePending, RequestPending>>
  BY <1>1 DEF ResponsePending, RequestPending
<1>4. (open => BackendWriterRight)' /\ (open => ProxyWriterRight)'
  BY <1>1 DEF InvParts, BackendWriterRight, ProxyWriterRight
<1>5. QED
  BY <1>1, <1>2, <1>3, <1>4 DEF InvParts

LEMMA StutterInv ==
    ASSUME InvParts, UNCHANGED vars
    PROVE  InvParts'
BY DEF vars, buffers, writers, links, socks, got, history, InvParts,
       ResponseTypes, RequestTypes, OtherTypes, ResponsePending, RequestPending,
       BackendWriterRight, ProxyWriterRight

\* The steps that move the proxy's bytes to the kernel.
LEMMA ClientWritableInv ==
    ASSUME Inv, InvParts, ClientWritable
    PROVE  InvParts'
<1>1. /\ open /\ ProxyWrite(responseOut)
      /\ open' = ~ProxyWriteFails(responseOut)
      /\ UNCHANGED <<firstResponse, requestIn, requestOut, responseIn,
                     backendWriter, clientLink, backendLink, backendSock,
                     clientGot, backendGot, clientSent, serverSent, replies,
                     asked, answered>>
  BY DEF ClientWritable, links, got, history
<1>2. responseOut \in Seq(Byte) /\ TypeOK
  BY DEF InvParts, ResponseTypes, Inv
<1>3. /\ responseOut' \in Seq(Byte)
      /\ clientSock' \in Seq(Byte) /\ Len(clientSock') <= SockCap
      /\ proxyWriter' \in BOOLEAN
      /\ clientSock' \o responseOut' = clientSock \o responseOut
  BY <1>1, <1>2, ProxyWriteEffect
<1>4. ResponseTypes' /\ RequestTypes' /\ OtherTypes'
  <2>1. ProxyWriteFails(responseOut) \in BOOLEAN
    BY DEF ProxyWriteFails
  <2>2. QED
    BY <1>1, <1>3, <2>1 DEF InvParts, ResponseTypes, RequestTypes, OtherTypes
<1>5. UNCHANGED <<ResponsePending, RequestPending>>
  BY <1>1, <1>3 DEF ResponsePending, RequestPending
<1>6. (open => BackendWriterRight)' /\ (open => ProxyWriterRight)'
  <2>1. BackendWriterRight'
    BY <1>1 DEF InvParts, BackendWriterRight
  <2>2. ProxyWriterRight'
    BY <1>1, <1>2, ProxyWriteRight DEF InvParts
  <2>3. QED
    BY <2>1, <2>2
<1>7. answered' = clientGot' \o ResponsePending' /\ asked' = backendGot' \o RequestPending'
  BY <1>1, <1>5 DEF InvParts
<1>8. QED
  BY <1>4, <1>6, <1>7 DEF InvParts

LEMMA BackendWritableInv ==
    ASSUME Inv, InvParts, BackendWritable
    PROVE  InvParts'
<1>1. /\ open /\ BackendWrite(requestOut)
      /\ open' = ~BackendWriteFails(requestOut)
      /\ UNCHANGED <<firstResponse, requestIn, responseIn, responseOut,
                     proxyWriter, clientLink, backendLink, clientSock,
                     clientGot, backendGot, clientSent, serverSent, replies,
                     asked, answered>>
  BY DEF BackendWritable, links, got, history
<1>2. requestOut \in Seq(Byte) /\ TypeOK /\ firstResponse' \in BOOLEAN
  BY <1>1 DEF InvParts, RequestTypes, ResponseTypes, Inv
<1>3. /\ requestOut' \in Seq(Byte)
      /\ backendSock' \in Seq(Byte) /\ Len(backendSock') <= SockCap
      /\ backendWriter' \in BOOLEAN
      /\ backendSock' \o requestOut' = backendSock \o requestOut
      /\ open' => BackendWriterRight'
  BY <1>1, <1>2, BackendWriteEffect DEF BackendWriterRight
<1>4. ResponseTypes' /\ RequestTypes' /\ OtherTypes'
  <2>1. BackendWriteFails(requestOut) \in BOOLEAN
    BY DEF BackendWriteFails
  <2>2. QED
    BY <1>1, <1>3, <2>1 DEF InvParts, ResponseTypes, RequestTypes, OtherTypes
<1>5. UNCHANGED <<ResponsePending, RequestPending>>
  BY <1>1, <1>3 DEF ResponsePending, RequestPending
<1>6. ProxyWriterRight'
  BY <1>1 DEF InvParts, ProxyWriterRight
<1>7. answered' = clientGot' \o ResponsePending' /\ asked' = backendGot' \o RequestPending'
  BY <1>1, <1>5 DEF InvParts
<1>8. QED
  BY <1>3, <1>4, <1>6, <1>7 DEF InvParts

LEMMA BackendReadableInv ==
    ASSUME Inv, InvParts, BackendReadable
    PROVE  InvParts'
<1>1. PICK n \in 1..MaxChunk :
        /\ serverSent + n <= MaxServer
        /\ serverSent' = serverSent + n
        /\ answered' = answered \o ChunkAfter(serverSent, n)
        /\ \E k \in 0..Len(responseIn \o ChunkAfter(serverSent, n)) :
             /\ ServerResponse(responseIn \o ChunkAfter(serverSent, n), k)
             /\ open' = ~ServerResponseFails(k)
  BY DEF BackendReadable
<1>2. /\ open
      /\ UNCHANGED <<requestIn, requestOut, backendWriter, clientLink, backendLink,
                     backendSock, clientGot, backendGot, clientSent, replies, asked>>
  BY DEF BackendReadable, links, got
<1>3. serverSent \in Nat /\ n \in Nat
  BY RelayAssumption DEF InvParts, OtherTypes
<1> DEFINE chunk == ChunkAfter(serverSent, n)
           in    == responseIn \o chunk
<1>4. chunk \in Seq(Byte)
  BY <1>3, ChunkTypes
<1>5. /\ in \in Seq(Byte)
      /\ clientSock \o responseOut \o in = ResponsePending \o chunk
      /\ answered \o chunk \in Seq(Byte)
      /\ answered \o chunk = clientGot \o (ResponsePending \o chunk)
  BY <1>4, PendingGrows
<1>6. PICK k \in 0..Len(in) : ServerResponse(in, k) /\ open' = ~ServerResponseFails(k)
  BY <1>1
<1>7. answered' = answered \o chunk /\ serverSent' \in 0..MaxServer /\ TypeOK
  BY <1>1, <1>3, RelayAssumption DEF Inv
<1> HIDE DEF chunk, in
<1>8. /\ ResponseTypes'
      /\ ResponsePending' = clientSock \o responseOut \o in
      /\ ProxyWriterRight => ProxyWriterRight'
  BY <1>2, <1>5, <1>6, <1>7, ServerResponseEffect
<1>9. RequestTypes' /\ OtherTypes'
  <2>1. ServerResponseFails(k) \in BOOLEAN
    BY DEF ServerResponseFails
  <2>2. QED
    BY <1>2, <1>5, <1>6, <1>7, <2>1 DEF InvParts, RequestTypes, OtherTypes
<1>10. answered' = clientGot' \o ResponsePending'
  BY <1>2, <1>5, <1>7, <1>8, Zenon
<1>11. asked' = backendGot' \o RequestPending'
  BY <1>2 DEF InvParts, RequestPending
<1>12. (open => BackendWriterRight)' /\ (open => ProxyWriterRight)'
  BY <1>2, <1>8 DEF InvParts, BackendWriterRight
<1>13. QED
  BY <1>8, <1>9, <1>10, <1>11, <1>12 DEF InvParts

\* The greeting is lost: what is pending loses the first bytes of response_in.
LEMMA BackendReadableLostInv ==
    ASSUME Inv, InvParts, BackendReadableLost
    PROVE  InvParts'
<1>1. PICK n \in 1..MaxChunk :
        /\ serverSent + n <= MaxServer
        /\ serverSent' = serverSent + n
        /\ \E d \in 1..Len(responseIn \o ChunkAfter(serverSent, n)) :
             /\ answered' = Take(answered, Len(answered) - Len(responseIn))
                               \o Drop(responseIn \o ChunkAfter(serverSent, n), d)
             /\ \E k \in 1..(Len(responseIn \o ChunkAfter(serverSent, n)) - d) :
                  /\ ServerResponse(Drop(responseIn \o ChunkAfter(serverSent, n), d), k)
                  /\ open' = ~ServerResponseFails(k)
  BY DEF BackendReadableLost
<1>2. /\ open
      /\ UNCHANGED <<requestIn, requestOut, backendWriter, clientLink, backendLink,
                     backendSock, clientGot, backendGot, clientSent, replies, asked>>
  BY DEF BackendReadableLost, links, got
<1>3. serverSent \in Nat /\ n \in Nat
  BY RelayAssumption DEF InvParts, OtherTypes
<1> DEFINE in == responseIn \o ChunkAfter(serverSent, n)
<1>4. in \in Seq(Byte)
  BY <1>3, ChunkTypes, PendingGrows
<1>5. PICK d \in 1..Len(in) :
        /\ answered' = Take(answered, Len(answered) - Len(responseIn)) \o Drop(in, d)
        /\ \E k \in 1..(Len(in) - d) :
             /\ ServerResponse(Drop(in, d), k)
             /\ open' = ~ServerResponseFails(k)
  BY <1>1
<1>6. PICK k \in 1..(Len(in) - d) :
        /\ ServerResponse(Drop(in, d), k)
        /\ open' = ~ServerResponseFails(k)
  BY <1>5
<1>7. serverSent' \in 0..MaxServer /\ TypeOK
  BY <1>1, <1>3, RelayAssumption DEF Inv
<1> HIDE DEF in
<1>8. Len(in) \in Nat /\ d \in 0..Len(in)
  BY <1>4, LenProperties
<1> DEFINE rest == Drop(in, d)
<1>9. rest \in Seq(Byte) /\ Len(rest) = Len(in) - d
  BY <1>4, <1>8, TakeDrop
<1>10. k \in 0..Len(rest) /\ ServerResponse(rest, k)
  BY <1>6, <1>8, <1>9
<1>11. answered' = Take(answered, Len(answered) - Len(responseIn)) \o rest
  BY <1>5
<1> HIDE DEF rest
<1>12. /\ ResponseTypes'
       /\ ResponsePending' = clientSock \o responseOut \o rest
       /\ ProxyWriterRight => ProxyWriterRight'
  BY <1>2, <1>7, <1>9, <1>10, ServerResponseEffect
<1>13. /\ clientGot \in Seq(Byte) /\ responseIn \in Seq(Byte)
       /\ clientSock \in Seq(Byte) /\ responseOut \in Seq(Byte)
  BY DEF InvParts, OtherTypes, ResponseTypes
<1>14. /\ clientSock \o responseOut \in Seq(Byte)
       /\ clientGot \o (clientSock \o responseOut) \in Seq(Byte)
  BY <1>13, ConcatProperties
<1> DEFINE p == clientGot \o (clientSock \o responseOut)
<1>15. answered = p \o responseIn
  <2>1. ASSUME NEW q \in Seq(Byte)
        PROVE  (clientGot \o q) \o responseIn = clientGot \o (q \o responseIn)
    BY <1>13, BytesAssociative, ZenonT(60)
  <2>2. (clientGot \o (clientSock \o responseOut)) \o responseIn
          = clientGot \o ((clientSock \o responseOut) \o responseIn)
    BY <1>14, <2>1
  <2>3. QED
    BY <2>2, Zenon DEF InvParts, ResponsePending
<1>16. p \in Seq(Byte) /\ p \o rest = clientGot \o ((clientSock \o responseOut) \o rest)
  <2>1. ASSUME NEW q \in Seq(Byte)
        PROVE  (clientGot \o q) \o rest = clientGot \o (q \o rest)
    <3>1. clientGot \in Seq(Byte) /\ rest \in Seq(Byte)
      BY <1>9, <1>13
    <3>2. QED
      BY <3>1, BytesAssociative
  <2>2. QED
    BY <1>14, <2>1
<1> HIDE DEF p
<1>17. answered' = p \o rest
  <2>1. Take(answered, Len(p)) = p /\ Len(answered) - Len(responseIn) = Len(p)
    BY <1>13, <1>15, <1>16, TakeConcat
  <2>2. QED
    BY <1>11, <2>1
<1>18. answered' = clientGot' \o ResponsePending' /\ answered' \in Seq(Byte)
  <2>1. answered' = clientGot' \o ResponsePending'
    BY <1>2, <1>12, <1>16, <1>17, Zenon
  <2>2. p \o rest \in Seq(Byte)
    BY <1>9, <1>16, ConcatProperties
  <2>3. QED
    BY <1>17, <2>1, <2>2
<1>19. RequestTypes' /\ OtherTypes'
  <2>1. ServerResponseFails(k) \in BOOLEAN
    BY DEF ServerResponseFails
  <2>2. QED
    BY <1>2, <1>6, <1>7, <1>18, <2>1 DEF InvParts, RequestTypes, OtherTypes
<1>20. asked' = backendGot' \o RequestPending'
  BY <1>2 DEF InvParts, RequestPending
<1>21. (open => BackendWriterRight)' /\ (open => ProxyWriterRight)'
  BY <1>2, <1>12 DEF InvParts, BackendWriterRight
<1>22. QED
  BY <1>12, <1>18, <1>19, <1>20, <1>21 DEF InvParts

\* Concatenation of four: the receiving peer's bytes in front of what is pending.
Regrouped(a, b, c, d) == a \o (b \o c \o d) = ((a \o b) \o c) \o d

LEMMA Concat4 ==
    ASSUME NEW a \in Seq(Byte), NEW b \in Seq(Byte), NEW c \in Seq(Byte),
           NEW d \in Seq(Byte)
    PROVE  Regrouped(a, b, c, d)
<1>1. b \o c \in Seq(Byte)
  BY ConcatProperties
<1>2. (a \o b) \o c = a \o (b \o c)
  BY BytesAssociative, ZenonT(60)
<1>3. (a \o (b \o c)) \o d = a \o ((b \o c) \o d)
  BY <1>1, BytesAssociative, ZenonT(60)
<1>4. QED
  BY <1>2, <1>3, Zenon DEF Regrouped

\* A peer reads the first n bytes of k, which the kernel holds for it: they join
\* g, what it has read, and nothing else of the stream moves.
LEMMA PeerReads ==
    ASSUME NEW g \in Seq(Byte), NEW k \in Seq(Byte), NEW n \in 1..Len(k)
    PROVE  /\ g \o Take(k, n) \in Seq(Byte)
           /\ Drop(k, n) \in Seq(Byte) /\ Len(Drop(k, n)) <= Len(k)
           /\ \A o, i \in Seq(Byte) :
                (g \o Take(k, n)) \o (Drop(k, n) \o o \o i) = g \o (k \o o \o i)
<1>1. Len(k) \in Nat /\ n \in 0..Len(k)
  BY LenProperties
<1>2. /\ Take(k, n) \in Seq(Byte)
      /\ Drop(k, n) \in Seq(Byte) /\ Len(Drop(k, n)) = Len(k) - n
      /\ Take(k, n) \o Drop(k, n) = k
  BY <1>1, TakeDrop
<1>3. /\ g \o Take(k, n) \in Seq(Byte)
      /\ (g \o Take(k, n)) \o Drop(k, n) = g \o k
  <2>1. \A m \in 0..Len(k) : /\ g \o Take(k, m) \in Seq(Byte)
                             /\ (g \o Take(k, m)) \o Drop(k, m) = g \o k
    BY MovePrefix
  <2>2. QED
    BY <1>1, <2>1, Zenon
<1>4. Len(Drop(k, n)) <= Len(k)
  BY <1>1, <1>2
<1>5. ASSUME NEW o \in Seq(Byte), NEW i \in Seq(Byte)
      PROVE  (g \o Take(k, n)) \o (Drop(k, n) \o o \o i) = g \o (k \o o \o i)
  <2>1. Regrouped(g \o Take(k, n), Drop(k, n), o, i)
    BY <1>2, <1>3, Concat4
  <2>2. Regrouped(g, k, o, i)
    BY Concat4
  <2>3. QED
    BY <1>3, <2>1, <2>2, Zenon DEF Regrouped
<1>6. QED
  BY <1>2, <1>3, <1>4, <1>5

LEMMA ClientReadsInv ==
    ASSUME InvParts, ClientReads
    PROVE  InvParts'
<1>1. PICK n \in 1..Len(clientSock) :
        /\ clientGot' = clientGot \o Take(clientSock, n)
        /\ clientSock' = Drop(clientSock, n)
  BY DEF ClientReads
<1>2. UNCHANGED <<open, firstResponse, requestIn, requestOut, responseIn,
                  responseOut, proxyWriter, backendWriter, clientLink,
                  backendLink, backendSock, backendGot, clientSent, serverSent,
                  replies, asked, answered>>
  BY DEF ClientReads, buffers, writers, links, history
<1>3. /\ clientGot \in Seq(Byte) /\ clientSock \in Seq(Byte)
      /\ responseOut \in Seq(Byte) /\ responseIn \in Seq(Byte)
      /\ Len(clientSock) <= SockCap
  BY DEF InvParts, OtherTypes, ResponseTypes
<1>4. /\ clientGot' \in Seq(Byte)
      /\ clientSock' \in Seq(Byte) /\ Len(clientSock') <= Len(clientSock)
      /\ \A o, i \in Seq(Byte) :
           clientGot' \o (clientSock' \o o \o i) = clientGot \o (clientSock \o o \o i)
  <2>1. clientGot \in Seq(Byte) /\ clientSock \in Seq(Byte)
    BY <1>3
  <2>2. /\ clientGot \o Take(clientSock, n) \in Seq(Byte)
        /\ Drop(clientSock, n) \in Seq(Byte)
        /\ Len(Drop(clientSock, n)) <= Len(clientSock)
        /\ \A o, i \in Seq(Byte) :
             (clientGot \o Take(clientSock, n)) \o (Drop(clientSock, n) \o o \o i)
               = clientGot \o (clientSock \o o \o i)
    BY <2>1, PeerReads
  <2>3. QED
    BY <1>1, <2>2, Zenon
<1>5. ResponseTypes' /\ RequestTypes' /\ OtherTypes'
  <2>1. Len(clientSock') <= SockCap
    BY <1>3, <1>4, LenProperties, RelayAssumption
  <2>2. QED
    BY <1>2, <1>4, <2>1 DEF InvParts, ResponseTypes, RequestTypes, OtherTypes
<1>6. clientGot' \o ResponsePending' = clientGot \o ResponsePending
  <2>1. clientGot' \o (clientSock' \o responseOut \o responseIn)
          = clientGot \o (clientSock \o responseOut \o responseIn)
    BY <1>3, <1>4, Zenon
  <2>2. QED
    BY <1>2, <2>1 DEF ResponsePending
<1>7. UNCHANGED RequestPending
  BY <1>2 DEF RequestPending
<1>8. (open => BackendWriterRight)' /\ (open => ProxyWriterRight)'
  BY <1>2 DEF InvParts, BackendWriterRight, ProxyWriterRight
<1>9. answered' = clientGot' \o ResponsePending' /\ asked' = backendGot' \o RequestPending'
  BY <1>2, <1>6, <1>7, Zenon DEF InvParts
<1>10. QED
  BY <1>5, <1>8, <1>9 DEF InvParts

LEMMA BackendReadsInv ==
    ASSUME InvParts, BackendReads
    PROVE  InvParts'
<1>1. PICK n \in 1..Len(backendSock) :
        /\ backendGot' = backendGot \o Take(backendSock, n)
        /\ backendSock' = Drop(backendSock, n)
  BY DEF BackendReads
<1>2. UNCHANGED <<open, firstResponse, requestIn, requestOut, responseIn,
                  responseOut, proxyWriter, backendWriter, clientLink,
                  backendLink, clientSock, clientGot, clientSent, serverSent,
                  replies, asked, answered>>
  BY DEF BackendReads, buffers, writers, links, history
<1>3. /\ backendGot \in Seq(Byte) /\ backendSock \in Seq(Byte)
      /\ requestOut \in Seq(Byte) /\ requestIn \in Seq(Byte)
      /\ Len(backendSock) <= SockCap
  BY DEF InvParts, OtherTypes, RequestTypes
<1>4. /\ backendGot' \in Seq(Byte)
      /\ backendSock' \in Seq(Byte) /\ Len(backendSock') <= Len(backendSock)
      /\ \A o, i \in Seq(Byte) :
           backendGot' \o (backendSock' \o o \o i)
             = backendGot \o (backendSock \o o \o i)
  <2>1. backendGot \in Seq(Byte) /\ backendSock \in Seq(Byte)
    BY <1>3
  <2>2. /\ backendGot \o Take(backendSock, n) \in Seq(Byte)
        /\ Drop(backendSock, n) \in Seq(Byte)
        /\ Len(Drop(backendSock, n)) <= Len(backendSock)
        /\ \A o, i \in Seq(Byte) :
             (backendGot \o Take(backendSock, n)) \o (Drop(backendSock, n) \o o \o i)
               = backendGot \o (backendSock \o o \o i)
    BY <2>1, PeerReads
  <2>3. QED
    BY <1>1, <2>2, Zenon
<1>5. ResponseTypes' /\ RequestTypes' /\ OtherTypes'
  <2>1. Len(backendSock') <= SockCap
    BY <1>3, <1>4, LenProperties, RelayAssumption
  <2>2. QED
    BY <1>2, <1>4, <2>1 DEF InvParts, ResponseTypes, RequestTypes, OtherTypes
<1>6. backendGot' \o RequestPending' = backendGot \o RequestPending
  <2>1. backendGot' \o (backendSock' \o requestOut \o requestIn)
          = backendGot \o (backendSock \o requestOut \o requestIn)
    BY <1>3, <1>4, Zenon
  <2>2. QED
    BY <1>2, <2>1 DEF RequestPending
<1>7. UNCHANGED ResponsePending
  BY <1>2 DEF ResponsePending
<1>8. (open => BackendWriterRight)' /\ (open => ProxyWriterRight)'
  BY <1>2 DEF InvParts, BackendWriterRight, ProxyWriterRight
<1>9. answered' = clientGot' \o ResponsePending' /\ asked' = backendGot' \o RequestPending'
  BY <1>2, <1>6, <1>7, Zenon DEF InvParts
<1>10. QED
  BY <1>5, <1>8, <1>9 DEF InvParts

-----------------------------------------------------------------------------
(* The theorems.                                                           *)

LEMMA NextInv == Inv /\ [Next]_vars => Inv'
<1> SUFFICES ASSUME Inv, [Next]_vars PROVE Inv'
  OBVIOUS
<1>1. InvParts
  BY InvInParts
<1>2. CASE ClientReadable
  BY <1>1, <1>2, ClientReadableInv, InvInPartsNext
<1>3. CASE ClientReadableDiscard
  BY <1>1, <1>3, ClientReadableDiscardInv, InvInPartsNext
<1>4. CASE ClientReadFails
  BY <1>1, <1>4, CloseConnectionInv, InvInPartsNext DEF ClientReadFails
<1>5. CASE ClientWritable
  BY <1>1, <1>5, ClientWritableInv, InvInPartsNext
<1>6. CASE BackendReadable
  BY <1>1, <1>6, BackendReadableInv, InvInPartsNext
<1>7. CASE BackendReadFails
  BY <1>1, <1>7, CloseConnectionInv, InvInPartsNext DEF BackendReadFails
<1>8. CASE BackendWritable
  BY <1>1, <1>8, BackendWritableInv, InvInPartsNext
<1>9. CASE ProxyClosed
  BY <1>1, <1>9, CloseConnectionInv, InvInPartsNext DEF ProxyClosed
<1>10. CASE ConnectDone \/ ClientBreaks \/ BackendBreaks
  BY <1>1, <1>10, LinkInv, InvInPartsNext
<1>11. CASE ClientReads
  BY <1>1, <1>11, ClientReadsInv, InvInPartsNext
<1>12. CASE BackendReads
  BY <1>1, <1>12, BackendReadsInv, InvInPartsNext
<1>13. CASE UNCHANGED vars
  BY <1>1, <1>13, StutterInv, InvInPartsNext
<1>14. CASE BackendReadableLost
  BY <1>1, <1>14, BackendReadableLostInv, InvInPartsNext
<1>15. QED
  BY <1>2, <1>3, <1>4, <1>5, <1>6, <1>7, <1>8, <1>9, <1>10, <1>11, <1>12, <1>13, <1>14
     DEF Next

THEOREM Invariance == Spec => []Inv
<1>1. Init => Inv
  BY InitInv
<1>2. Inv /\ [Next]_vars => Inv'
  BY NextInv
<1>3. QED
  BY <1>1, <1>2, PTL DEF Spec

\* Type correctness, for every protocol, buffer size and bound.
THEOREM TypeCorrect == Spec => []TypeOK
BY Invariance, PTL DEF Inv

\* Neither direction loses (but for what parseRequest and parseResponse discard),
\* repeats or overtakes a byte in the proxy's buffers.
THEOREM StreamsIntact == Spec => []BothStreams
<1>1. Inv => BothStreams
  BY DEF Inv, BothStreams
<1>2. QED
  BY <1>1, Invariance, PTL

\* A writer event is registered whenever a buffer of a live connection has bytes
\* to write (unless its socket is broken), and never when it has none.
THEOREM WritersArmed == Spec => []BothWriters
<1>1. Inv => BothWriters
  BY DEF Inv, BothWriters
<1>2. QED
  BY <1>1, Invariance, PTL

-----------------------------------------------------------------------------
(* Each direction implements BytePipe.                                     *)

LEMMA PrefixOfConcat ==
    ASSUME NEW s \in Seq(Byte), NEW e \in Seq(Byte)
    PROVE  Request!StartsWith(s \o e, s) /\ Response!StartsWith(s \o e, s)
<1>1. SubSeq(s \o e, 1, Len(s)) = s
  BY TakeConcat DEF Take
<1>2. Len(s \o e) = Len(s) + Len(e) /\ Len(s) \in Nat /\ Len(e) \in Nat
  BY ConcatProperties, LenProperties
<1>3. QED
  BY <1>1, <1>2 DEF Request!StartsWith, Response!StartsWith

LEMMA PrefixByTake ==
    ASSUME NEW s \in Seq(Byte), NEW n \in 0..Len(s)
    PROVE  Request!StartsWith(s, Take(s, n))
<1>1. Len(Take(s, n)) = n /\ Len(s) \in Nat
  BY TakeDrop, LenProperties
<1>2. QED
  BY <1>1 DEF Request!StartsWith, Take

\* What a peer has read begins its stream.
LEMMA ReadSoFar ==
    ASSUME InvParts
    PROVE  Request!StartsWith(asked, backendGot) /\ Response!StartsWith(answered, clientGot)
<1>1. /\ clientGot \in Seq(Byte) /\ backendGot \in Seq(Byte)
      /\ answered = clientGot \o ResponsePending
      /\ asked = backendGot \o RequestPending
  BY DEF InvParts, OtherTypes
<1>2. ResponsePending \in Seq(Byte) /\ RequestPending \in Seq(Byte)
  BY StreamParts, InvInParts DEF Inv
<1>3. /\ Request!StartsWith(backendGot \o RequestPending, backendGot)
      /\ Response!StartsWith(clientGot \o ResponsePending, clientGot)
  BY <1>1, <1>2, PrefixOfConcat
<1>4. QED
  BY <1>1, <1>3, Zenon

LEMMA ReadSoFarNext ==
    InvParts' => /\ Request!StartsWith(asked, backendGot)'
                 /\ Response!StartsWith(answered, clientGot)'
<1>1. InvParts => /\ Request!StartsWith(asked, backendGot)
                  /\ Response!StartsWith(answered, clientGot)
  BY ReadSoFar
<1>2. QED
  BY <1>1, PTL

LEMMA RequestStep ==
    ASSUME Inv, Inv', [Next]_vars
    PROVE  [Request!PipeNext]_Request!pipe
<1>1. InvParts /\ InvParts'
  BY InvInParts, InvInPartsNext
<1>2. /\ asked \in Seq(Byte) /\ backendGot \in Seq(Byte)
      /\ requestIn \in Seq(Byte)
      /\ clientSent \in Nat
  BY <1>1 DEF InvParts, OtherTypes, RequestTypes
<1>3. CASE ClientReadable
  <2>1. PICK n \in 1..MaxChunk : asked' = asked \o ChunkAfter(clientSent, n)
    BY <1>3 DEF ClientReadable
  <2>2. ChunkAfter(clientSent, n) \in Seq(Byte)
    BY <1>2, ChunkTypes, RelayAssumption
  <2>3. Request!StartsWith(asked', asked) /\ UNCHANGED backendGot
    BY <1>2, <1>3, <2>1, <2>2, PrefixOfConcat DEF ClientReadable, got
  <2>4. QED
    BY <2>3 DEF Request!PipeNext, Request!Enter
<1>4. CASE ClientReadableDiscard
  <2>1. /\ asked' = Take(asked, Len(asked) - Len(requestIn))
        /\ UNCHANGED backendGot
        /\ DBType = "pgsql"
    BY <1>4 DEF ClientReadableDiscard, got
  <2>2. Len(asked) - Len(requestIn) \in 0..Len(asked)
    <3>1. PICK p \in Seq(Byte) : asked = p \o requestIn
      <4>1. /\ backendSock \o requestOut \in Seq(Byte)
            /\ backendGot \o (backendSock \o requestOut) \in Seq(Byte)
        BY <1>1, ConcatProperties DEF InvParts, RequestTypes, OtherTypes
      <4>2. asked = (backendGot \o (backendSock \o requestOut)) \o requestIn
        <5>1. ASSUME NEW q \in Seq(Byte)
              PROVE  (backendGot \o q) \o requestIn = backendGot \o (q \o requestIn)
          BY <1>2, BytesAssociative
        <5>2. (backendGot \o (backendSock \o requestOut)) \o requestIn
                = backendGot \o ((backendSock \o requestOut) \o requestIn)
          BY <4>1, <5>1
        <5>3. QED
          BY <1>1, <5>2, Zenon DEF InvParts, RequestPending
      <4>3. QED
        BY <4>1, <4>2
    <3>2. Len(asked) - Len(requestIn) = Len(p) /\ Len(asked) = Len(p) + Len(requestIn)
      BY <1>2, <3>1, TakeConcat, ConcatProperties
    <3>3. QED
      BY <1>2, <3>2, LenProperties
  <2>3. Request!StartsWith(asked, asked')
    BY <1>2, <2>1, <2>2, PrefixByTake
  <2>4. Request!StartsWith(asked', backendGot)
    BY <1>1, <2>1, ReadSoFarNext
  <2>5. QED
    BY <2>1, <2>3, <2>4 DEF Request!PipeNext, Request!Discard
<1>5. CASE BackendReads
  <2>1. PICK n \in 1..Len(backendSock) :
          backendGot' = backendGot \o Take(backendSock, n)
    BY <1>5 DEF BackendReads
  <2>2. Take(backendSock, n) \in Seq(Byte)
    BY <1>1, TakeDrop, LenProperties DEF InvParts, RequestTypes
  <2>3. Request!StartsWith(backendGot', backendGot)
    BY <1>2, <2>1, <2>2, PrefixOfConcat
  <2>4. UNCHANGED asked
    BY <1>5 DEF BackendReads, history
  <2>5. Request!StartsWith(asked, backendGot')
    BY <1>1, <2>4, ReadSoFarNext
  <2>6. QED
    BY <2>3, <2>4, <2>5 DEF Request!PipeNext, Request!Deliver
<1>6. CASE UNCHANGED <<asked, backendGot>>
  BY <1>6 DEF Request!pipe
<1>7. ASSUME Next, ~ClientReadable, ~ClientReadableDiscard, ~BackendReads
      PROVE  UNCHANGED <<asked, backendGot>>
  BY <1>7 DEF Next, ClientReadFails, ClientWritable, BackendReadable,
              BackendReadableLost, BackendReadFails, BackendWritable, ProxyClosed, CloseConnection,
              ConnectDone, ClientBreaks, BackendBreaks, ClientReads, history, got
<1>8. QED
  BY <1>3, <1>4, <1>5, <1>6, <1>7 DEF vars, history, got

LEMMA ResponseStep ==
    ASSUME DBType = "pgsql", Inv, Inv', [Next]_vars
    PROVE  [Response!PipeNext]_Response!pipe
<1>1. InvParts /\ InvParts'
  BY InvInParts, InvInPartsNext
<1>2. /\ answered \in Seq(Byte) /\ clientGot \in Seq(Byte)
      /\ serverSent \in Nat /\ replies \in Nat
  BY <1>1 DEF InvParts, OtherTypes
<1>3. ASSUME UNCHANGED clientGot, NEW e \in Seq(Byte), answered' = answered \o e
      PROVE  Response!PipeNext
  <2>1. Response!StartsWith(answered', answered)
    BY <1>2, <1>3, PrefixOfConcat
  <2>2. QED
    BY <1>3, <2>1 DEF Response!PipeNext, Response!Enter
<1>4. CASE UNCHANGED <<answered, clientGot>>
  BY <1>4 DEF Response!pipe
<1>5. CASE ClientReadable
  <2>1. UNCHANGED clientGot
    BY <1>5 DEF ClientReadable, got
  <2>2. \/ UNCHANGED answered
        \/ \E r \in 0..(MaxReplies - replies) : answered' = answered \o Replies(r)
    BY <1>5 DEF ClientReadable
  <2>3. ASSUME NEW r \in 0..(MaxReplies - replies), answered' = answered \o Replies(r)
        PROVE  Response!PipeNext
    <3>1. r \in Nat
      BY <2>3
    <3>2. Replies(r) \in Seq(Byte)
      BY <3>1, ChunkTypes
    <3>3. QED
      BY <1>3, <2>1, <2>3, <3>2
  <2>4. QED
    BY <1>4, <2>1, <2>2, <2>3
<1>6. CASE ClientReadableDiscard
  <2>1. Replies(1) \in Seq(Byte)
    BY ChunkTypes
  <2>2. QED
    BY <1>3, <1>6, <2>1 DEF ClientReadableDiscard, got
<1>7. CASE BackendReadable
  <2>1. PICK n \in 1..MaxChunk : answered' = answered \o ChunkAfter(serverSent, n)
    BY <1>7 DEF BackendReadable
  <2>2. ChunkAfter(serverSent, n) \in Seq(Byte)
    BY <1>2, ChunkTypes, RelayAssumption
  <2>3. QED
    BY <1>3, <1>7, <2>1, <2>2 DEF BackendReadable, got
<1>8. CASE ClientReads
  <2>1. PICK n \in 1..Len(clientSock) :
          clientGot' = clientGot \o Take(clientSock, n)
    BY <1>8 DEF ClientReads
  <2>2. Take(clientSock, n) \in Seq(Byte)
    BY <1>1, TakeDrop, LenProperties DEF InvParts, ResponseTypes
  <2>3. Response!StartsWith(clientGot', clientGot)
    BY <1>2, <2>1, <2>2, PrefixOfConcat
  <2>4. UNCHANGED answered
    BY <1>8 DEF ClientReads, history
  <2>5. Response!StartsWith(answered, clientGot')
    BY <1>1, <2>4, ReadSoFarNext
  <2>6. QED
    BY <2>3, <2>4, <2>5 DEF Response!PipeNext, Response!Deliver
<1>9. ASSUME Next, ~ClientReadable, ~ClientReadableDiscard, ~BackendReadable,
             ~ClientReads
      PROVE  UNCHANGED <<answered, clientGot>>
  BY <1>9 DEF Next, ClientReadFails, ClientWritable, BackendReadableLost, BackendReadFails,
              BackendWritable, ProxyClosed, CloseConnection, ConnectDone,
              ClientBreaks, BackendBreaks, BackendReads, history, got
<1>10. QED
  BY <1>4, <1>5, <1>6, <1>7, <1>8, <1>9 DEF vars, history, got

\* The request direction implements the pipe: what the backend has read is a
\* prefix of the client's stream and is never taken back.
THEOREM RequestRefines == Spec => RequestIsPipe
<1>1. Init => Request!PipeInit
  BY DEF Init, Request!PipeInit
<1>2. Inv /\ Inv' /\ [Next]_vars => [Request!PipeNext]_Request!pipe
  BY RequestStep
<1>3. QED
  BY <1>1, <1>2, Invariance, PTL DEF Spec, RequestIsPipe, Request!PipeSpec

\* The response direction of PgSQL implements a pipe that discards nothing.
THEOREM ResponseRefines ==
    ASSUME DBType = "pgsql"
    PROVE  Spec => ResponseIsPipe
<1>1. Init => Response!PipeInit
  BY DEF Init, Response!PipeInit
<1>2. Inv /\ Inv' /\ [Next]_vars => [Response!PipeNext]_Response!pipe
  BY ResponseStep
<1>3. QED
  BY <1>1, <1>2, Invariance, PTL DEF Spec, ResponseIsPipe, Response!PipeSpec


\* Each direction of a PgSQL connection is a pipe, whatever replies and discards
\* the other one causes.
THEOREM PipesAreImplemented ==
    ASSUME DBType = "pgsql"
    PROVE  Spec => BothArePipes
BY RequestRefines, ResponseRefines DEF BothArePipes
=============================================================================
