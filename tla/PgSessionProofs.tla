-------------------------- MODULE PgSessionProofs --------------------------
(***************************************************************************)
(* Proofs about PgSession, for any messages and any cut of the streams:    *)
(* types, that queries are examined, that no complete message waits, and   *)
(* that the client is given whole messages.                                *)
(***************************************************************************)
EXTENDS PgSession, SequenceTheorems, TLAPS

MessageType == [kind : RequestKinds, from : Nat, to : Nat]

\* The client's messages follow each other from the beginning of its stream.
Framed(msgs) ==
    /\ msgs \in Seq(MessageType)
    /\ \A i \in 1..Len(msgs) :
         /\ [kind |-> msgs[i].kind, size |-> msgs[i].to - msgs[i].from] \in Requests
         /\ msgs[i].from = IF i = 1 THEN 0 ELSE msgs[i - 1].to
    /\ \A i, j \in 1..Len(msgs) : i < j => msgs[i].to <= msgs[j].from

End(msgs)  == IF msgs = <<>> THEN 0 ELSE msgs[Len(msgs)].to
Ends(msgs) == {0} \cup {msgs[i].to : i \in 1..Len(msgs)}

\* The messages of kinds that must be examined, and end at p or before, are in done.
Examined(msgs, p, done) ==
    \A i \in 1..Len(msgs) :
        /\ msgs[i].to <= p /\ msgs[i].kind \in {"query", "parse"}
        /\ msgs[i].to - msgs[i].from # 16
        => <<msgs[i].from, msgs[i].to>> \in done

\* At most the last message ends behind p.
OneLeft(msgs, p) == \A i \in 1..Len(msgs) : msgs[i].to > p => i = Len(msgs)

\* The messages are those before the session, and the ones up to p are SSL requests.
Openers(msgs, p) ==
    \A i \in 1..Len(msgs) :
        /\ msgs[i].kind \in {"ssl", "startup"}
        /\ msgs[i].to <= p => msgs[i].kind = "ssl"

Within(intervals, msgs) == \A d \in intervals : d[1] \in Ends(msgs) /\ d[2] \in Ends(msgs)

\* While the first message has not been released the client has sent only SSL requests and
\* its startup message, and one at a time.
Opening ==
    firstRequest =>
        /\ OneLeft(messages, taken)
        /\ Within(dropped, messages) => Openers(messages, taken)

\* The cursors are between messages, and the queries before them examined.
Cursors ==
    Within(dropped, messages) =>
        /\ taken \in Ends(messages) /\ Examined(messages, taken, checked \cup dropped)
        /\ phase = "request" =>
             start \in Ends(messages) /\ Examined(messages, start, checked \cup dropped)

InLoop == phase = "request" => ~firstRequest /\ taken <= start /\ start + 5 <= received

AllTaken(msgs, p, to) ==
    p \in Ends(msgs) => \A i \in 1..Len(msgs) : msgs[i].to <= to => msgs[i].to <= p

\* Between callbacks of the client no complete message waits.
NoneWaits == phase \notin {"request", "closed"} => AllTaken(messages, taken, received)

DroppedBefore == \A d \in dropped : d[1] <= received /\ d[2] <= received

RequestInv ==
    /\ Framed(messages)
    /\ Len(messages) <= MaxRequests
    /\ received \in 0..End(messages) /\ taken \in 0..received /\ start \in 0..received
    /\ dropped \subseteq Nat \X Nat /\ checked \subseteq Nat \X Nat
    /\ firstRequest \in BOOLEAN /\ garbage \in Garbage
    /\ DroppedBefore
    /\ Opening
    /\ Cursors
    /\ InLoop
    /\ NoneWaits

\* A startup message names a user, so it has more than the eight bytes of an SSL request.
StartupNamesUser == \A m \in Requests : m.kind = "startup" => m.size > 8

-----------------------------------------------------------------------------
(* Streams of messages.                                                    *)

LEMMA Sizes ==
    ASSUME NEW msgs, Framed(msgs), NEW i \in 1..Len(msgs)
    PROVE  /\ msgs[i].from \in Nat /\ msgs[i].to \in Nat /\ msgs[i].kind \in RequestKinds
           /\ msgs[i].from + 5 <= msgs[i].to
<1>1. msgs[i] \in MessageType
  BY DEF Framed
<1>2. [kind |-> msgs[i].kind, size |-> msgs[i].to - msgs[i].from]
        \in [kind : RequestKinds, size : Nat \ (0..4)]
  BY PgSessionAssumption DEF Framed
<1>3. msgs[i].to - msgs[i].from \in Nat \ (0..4)
  BY <1>2
<1>4. QED
  BY <1>1, <1>3 DEF MessageType

\* A message that ends behind an end of a message begins there or later.
LEMMA Behind ==
    ASSUME NEW msgs, Framed(msgs), NEW p \in Ends(msgs), NEW i \in 1..Len(msgs), msgs[i].to > p
    PROVE  p \in Nat /\ msgs[i].from >= p /\ msgs[i].to >= p + 5
<1>1. p \in Nat /\ msgs[i].from >= p
  <2>1. CASE p = 0
    BY <2>1, Sizes
  <2>2. CASE \E k \in 1..Len(msgs) : p = msgs[k].to
    <3>1. PICK k \in 1..Len(msgs) : p = msgs[k].to
      BY <2>2
    <3>2. msgs[i].from \in Nat /\ msgs[i].to \in Nat /\ p \in Nat
          /\ msgs[i].from + 5 <= msgs[i].to /\ msgs[k].from + 5 <= msgs[k].to
          /\ msgs[k].from \in Nat
      BY <3>1, Sizes
    <3>3. msgs \in Seq(MessageType) /\ Len(msgs) \in Nat
      BY DEF Framed
    <3>4. i # k
      BY <3>1, <3>2
    <3>5. i > k => msgs[k].to <= msgs[i].from
      BY DEF Framed
    <3>6. i < k => msgs[i].to <= msgs[k].from
      BY DEF Framed
    <3>7. QED
      BY <3>1, <3>2, <3>3, <3>4, <3>5, <3>6
  <2>3. QED
    BY <2>1, <2>2 DEF Ends
<1>2. QED
  BY <1>1, Sizes

\* At an end of a message that is not the last there is a header.
LEMMA MessageFrom ==
    ASSUME NEW msgs, Framed(msgs), NEW p \in Ends(msgs), p < End(msgs)
    PROVE  \E k \in 1..Len(msgs) :
             /\ msgs[k].from = p
             /\ \A q \in {p} : HeaderAt(msgs, q) =
                  [kind |-> msgs[k].kind, size |-> msgs[k].to - msgs[k].from]
             /\ \A i \in 1..Len(msgs) : msgs[i].to > p =>
                  i = k \/ msgs[i].from >= msgs[k].to
<1>1. msgs \in Seq(MessageType) /\ Len(msgs) \in Nat
  BY DEF Framed
<1>2. msgs # <<>>
  <2> SUFFICES ASSUME msgs = <<>> PROVE FALSE
    OBVIOUS
  <2>1. Len(msgs) = 0
    OBVIOUS
  <2>2. QED
    BY <2>1 DEF End, Ends
<1>3. Len(msgs) > 0 /\ End(msgs) = msgs[Len(msgs)].to
  BY <1>1, <1>2 DEF End
<1>4. PICK k \in 1..Len(msgs) : msgs[k].from = p
  <2>1. CASE p = 0
    BY <1>3, <2>1, 1 \in 1..Len(msgs) DEF Framed
  <2>2. CASE \E k \in 1..Len(msgs) : p = msgs[k].to
    <3>1. PICK k \in 1..Len(msgs) : p = msgs[k].to
      BY <2>2
    <3>2. k # Len(msgs) /\ k + 1 \in 1..Len(msgs)
      <4>1. msgs[k].to \in Nat
        BY Sizes
      <4>2. QED
        BY <1>1, <1>3, <3>1, <4>1
    <3>3. msgs[k + 1].from = p
      <4> DEFINE j == k + 1
      <4>1. j \in 1..Len(msgs) /\ j # 1 /\ j - 1 = k
        BY <3>2
      <4> HIDE DEF j
      <4>2. msgs[j].from = msgs[j - 1].to
        BY <4>1 DEF Framed
      <4>3. QED
        BY <3>1, <4>1, <4>2 DEF j
    <3>4. QED
      BY <3>2, <3>3
  <2>3. QED
    BY <2>1, <2>2 DEF Ends
<1>5. ASSUME NEW i \in 1..Len(msgs), i # k
      PROVE  msgs[i].from # p /\ (msgs[i].to > p => msgs[i].from >= msgs[k].to)
  <2>1. /\ msgs[i].from \in Nat /\ msgs[i].to \in Nat /\ msgs[i].from + 5 <= msgs[i].to
        /\ msgs[k].from \in Nat /\ msgs[k].to \in Nat /\ msgs[k].from + 5 <= msgs[k].to
    BY Sizes
  <2>2. (i < k => msgs[i].to <= msgs[k].from) /\ (k < i => msgs[k].to <= msgs[i].from)
    BY DEF Framed
  <2>3. i < k \/ k < i
    BY <1>5, <1>1
  <2>4. QED
    BY <1>4, <2>1, <2>2, <2>3
<1>6. HeaderAt(msgs, p) = [kind |-> msgs[k].kind, size |-> msgs[k].to - msgs[k].from]
  <2>1. DOMAIN msgs = 1..Len(msgs)
    BY <1>1
  <2>2. (CHOOSE m \in {msgs[i] : i \in DOMAIN msgs} : m.from = p) = msgs[k]
    <3> DEFINE H == {msgs[i] : i \in DOMAIN msgs}
    <3>1. \E m \in H : m.from = p
      BY <1>4, <2>1
    <3>2. \A m \in H : m.from = p => m = msgs[k]
      BY <1>5, <2>1
    <3> HIDE DEF H
    <3>3. (CHOOSE m \in H : m.from = p) \in H /\ (CHOOSE m \in H : m.from = p).from = p
      BY <3>1
    <3>4. (CHOOSE m \in H : m.from = p) = msgs[k]
      BY <3>2, <3>3
    <3>5. QED
      BY <3>4 DEF H
  <2>3. QED
    BY <1>4, <2>1, <2>2 DEF HeaderAt
<1>7. QED
  BY <1>4, <1>5, <1>6

LEMMA Appended ==
    ASSUME NEW msgs, Framed(msgs), NEW m \in Requests
    PROVE  LET next == Append(msgs, Message(m, End(msgs)))
           IN  /\ Framed(next)
               /\ Len(next) = Len(msgs) + 1 /\ Len(msgs) \in Nat
               /\ \A i \in 1..Len(msgs) : next[i] = msgs[i] /\ msgs[i].to <= End(msgs)
               /\ next[Len(next)] = Message(m, End(msgs))
               /\ End(msgs) \in Nat /\ m.size \in Nat /\ m.size >= 5
               /\ End(next) = End(msgs) + m.size
               /\ Ends(next) = Ends(msgs) \cup {End(next)}
<1> DEFINE new == Message(m, End(msgs))
           next == Append(msgs, new)
<1>1. msgs \in Seq(MessageType) /\ Len(msgs) \in Nat
  BY DEF Framed
<1>2. m.kind \in RequestKinds /\ m.size \in Nat /\ m.size >= 5 /\ m = [kind |-> m.kind, size |-> m.size]
  BY PgSessionAssumption
<1>3. msgs # <<>> => Len(msgs) > 0 /\ End(msgs) = msgs[Len(msgs)].to
  BY <1>1 DEF End
<1>4. End(msgs) \in Nat
  BY <1>1, <1>3, Sizes DEF End
<1>5. ASSUME NEW i \in 1..Len(msgs) PROVE msgs[i].to <= End(msgs)
  <2>1. /\ msgs[i].to \in Nat /\ msgs[Len(msgs)].to \in Nat /\ msgs[Len(msgs)].from \in Nat
        /\ msgs[Len(msgs)].from + 5 <= msgs[Len(msgs)].to
    BY <1>1, <1>3, Sizes
  <2>2. i < Len(msgs) => msgs[i].to <= msgs[Len(msgs)].from
    BY <1>1 DEF Framed
  <2>3. msgs # <<>>
    BY <1>1
  <2>4. QED
    BY <1>1, <1>3, <2>1, <2>2, <2>3
<1>6. new = [kind |-> m.kind, from |-> End(msgs), to |-> End(msgs) + m.size] /\ new \in MessageType
  BY <1>2, <1>4 DEF Message, MessageType
<1> HIDE DEF new
<1>7. /\ next \in Seq(MessageType) /\ Len(next) = Len(msgs) + 1 /\ next # <<>>
      /\ \A i \in 1..Len(msgs) : next[i] = msgs[i]
      /\ next[Len(msgs) + 1] = new
  BY <1>1, <1>6
<1> HIDE DEF next
<1>8. End(next) = End(msgs) + m.size
  BY <1>6, <1>7 DEF End
<1>9. Ends(next) = Ends(msgs) \cup {End(next)}
  <2>1. 1..Len(next) = 1..Len(msgs) \cup {Len(next)}
    BY <1>1, <1>7
  <2>2. {next[i].to : i \in 1..Len(next)} = {msgs[i].to : i \in 1..Len(msgs)} \cup {new.to}
    BY <1>7, <2>1
  <2>3. QED
    BY <1>6, <1>8, <2>2 DEF Ends
<1>10. Framed(next)
  <2>1. ASSUME NEW i \in 1..Len(next)
        PROVE  /\ [kind |-> next[i].kind, size |-> next[i].to - next[i].from] \in Requests
               /\ next[i].from = IF i = 1 THEN 0 ELSE next[i - 1].to
    <3>1. CASE i \in 1..Len(msgs)
      <4>1. next[i] = msgs[i] /\ (i # 1 => next[i - 1] = msgs[i - 1])
        BY <1>1, <1>7, <3>1
      <4>2. QED
        BY <3>1, <4>1 DEF Framed
    <3>2. CASE i = Len(msgs) + 1
      <4>1. new.to - new.from = m.size /\ new.kind = m.kind
        BY <1>2, <1>4, <1>6
      <4>2. [kind |-> next[i].kind, size |-> next[i].to - next[i].from] \in Requests
        BY <1>2, <1>7, <3>2, <4>1
      <4>3. i = 1 => msgs = <<>>
        BY <1>1, <3>2
      <4>4. i # 1 => next[i - 1] = msgs[Len(msgs)] /\ End(msgs) = msgs[Len(msgs)].to
        BY <1>1, <1>3, <1>7, <3>2
      <4>5. QED
        BY <1>6, <1>7, <3>2, <4>2, <4>3, <4>4 DEF End
    <3>3. QED
      BY <1>1, <1>7, <3>1, <3>2
  <2>2. ASSUME NEW i \in 1..Len(next), NEW j \in 1..Len(next), i < j
        PROVE  next[i].to <= next[j].from
    <3>1. i \in 1..Len(msgs) /\ next[i] = msgs[i]
      BY <1>1, <1>7, <2>2
    <3>2. CASE j \in 1..Len(msgs)
      BY <1>7, <2>2, <3>1, <3>2 DEF Framed
    <3>3. CASE j = Len(msgs) + 1
      BY <1>5, <1>6, <1>7, <3>1, <3>3
    <3>4. QED
      BY <1>1, <1>7, <3>2, <3>3
  <2>3. QED
    BY <1>7, <2>1, <2>2 DEF Framed
<1>11. QED
  BY <1>1, <1>2, <1>4, <1>5, <1>7, <1>8, <1>9, <1>10 DEF next, new
LEMMA Constant ==
    ASSUME NEW msgs, Framed(msgs)
    PROVE  /\ DOMAIN msgs = 1..Len(msgs) /\ Len(msgs) \in Nat
           /\ {0} \cup {msgs[i].to : i \in DOMAIN msgs} = Ends(msgs)
           /\ (IF msgs = <<>> THEN 0 ELSE msgs[Len(msgs)].to) = End(msgs)
           /\ End(msgs) \in Nat /\ End(msgs) \in Ends(msgs) /\ Ends(msgs) \subseteq Nat
           /\ \A i \in 1..Len(msgs) : msgs[i].to <= End(msgs) /\ msgs[i].to \in Ends(msgs)
<1>1. DOMAIN msgs = 1..Len(msgs) /\ Len(msgs) \in Nat
  BY DEF Framed
<1>2. Ends(msgs) \subseteq Nat
  BY Sizes DEF Ends
<1>3. msgs # <<>> => Len(msgs) \in 1..Len(msgs)
  BY DEF Framed
<1>4. End(msgs) \in Ends(msgs)
  BY <1>3 DEF End, Ends
<1>5. ASSUME NEW i \in 1..Len(msgs) PROVE msgs[i].to <= End(msgs)
  <2>1. msgs # <<>> /\ Len(msgs) \in 1..Len(msgs)
    BY <1>1, <1>3
  <2>2. /\ msgs[i].to \in Nat /\ msgs[Len(msgs)].to \in Nat /\ msgs[Len(msgs)].from \in Nat
        /\ msgs[Len(msgs)].from + 5 <= msgs[Len(msgs)].to
    BY <2>1, Sizes
  <2>3. i < Len(msgs) => msgs[i].to <= msgs[Len(msgs)].from
    BY <2>1 DEF Framed
  <2>4. QED
    BY <1>1, <2>1, <2>2, <2>3 DEF End
<1>6. QED
  BY <1>1, <1>2, <1>4, <1>5 DEF Ends, End

\* Whatever is read as a header has a size.
LEMMA HeaderHasSize ==
    ASSUME NEW msgs, Framed(msgs), NEW p, garbage \in Garbage
    PROVE  HeaderAt(msgs, p).size \in Nat
<1>1. CASE \E i \in DOMAIN msgs : msgs[i].from = p
  <2> DEFINE H == {msgs[i] : i \in DOMAIN msgs}
  <2>1. \E m \in H : m.from = p
    BY <1>1
  <2>2. \A m \in H : m.to - m.from \in Nat
    <3>1. SUFFICES ASSUME NEW i \in 1..Len(msgs) PROVE msgs[i].to - msgs[i].from \in Nat
      BY Constant
    <3>2. QED
      BY Sizes
  <2> HIDE DEF H
  <2>3. (CHOOSE m \in H : m.from = p) \in H
    BY <2>1
  <2>4. HeaderAt(msgs, p).size = (CHOOSE m \in H : m.from = p).to - (CHOOSE m \in H : m.from = p).from
    BY <1>1 DEF HeaderAt, H
  <2>5. QED
    BY <2>2, <2>3, <2>4
<1>2. CASE ~\E i \in DOMAIN msgs : msgs[i].from = p
  BY <1>2, PgSessionAssumption DEF HeaderAt
<1>3. QED
  BY <1>1, <1>2

LEMMA SentIsEnd == ASSUME Framed(messages) PROVE Sent = End(messages) /\ Boundaries = Ends(messages)
BY Constant DEF Sent, Boundaries

-----------------------------------------------------------------------------
(* The client's side of the steps.                                         *)

\* What ClientBytes does before parseRequest is called.
Receive ==
    \E n \in Chunks :
      /\ received' = received + n
      /\ \/ n <= Sent - received /\ UNCHANGED messages
         \/ \E m \in Requests :
              /\ MayBegin(m)
              /\ Sent - received < n /\ n <= Sent - received + m.size
              /\ messages' = Append(messages, Message(m, Sent))

LEMMA Received ==
    ASSUME RequestInv, Receive
    PROVE  /\ Framed(messages') /\ Len(messages') <= MaxRequests
           /\ received' \in 0..End(messages') /\ received < received'
           /\ Ends(messages) \subseteq Ends(messages')
           /\ \A b \in Ends(messages') : b <= received => b \in Ends(messages)
           /\ \A i \in 1..Len(messages') : messages'[i].to <= received =>
                i \in 1..Len(messages) /\ messages'[i] = messages[i]
           /\ firstRequest => OneLeft(messages', taken)
           /\ firstRequest /\ Within(dropped, messages) => Openers(messages', taken)
<1>1. PICK n \in Chunks :
        /\ received' = received + n
        /\ \/ n <= Sent - received /\ UNCHANGED messages
           \/ \E m \in Requests :
                /\ MayBegin(m)
                /\ Sent - received < n /\ n <= Sent - received + m.size
                /\ messages' = Append(messages, Message(m, Sent))
  BY DEF Receive
<1>2. /\ n \in Nat \ {0} /\ received \in Nat /\ taken \in Nat /\ taken <= received
      /\ received <= End(messages) /\ End(messages) \in Nat /\ Framed(messages)
  BY PgSessionAssumption, Constant DEF RequestInv
<1>3. Sent = End(messages) /\ Boundaries = Ends(messages) /\ DOMAIN messages = 1..Len(messages)
      /\ Len(messages) \in Nat
  BY <1>2, SentIsEnd, Constant
<1>4. firstRequest => OneLeft(messages, taken) /\ (Within(dropped, messages) => Openers(messages, taken))
  BY DEF RequestInv, Opening
<1>5. CASE n <= Sent - received /\ UNCHANGED messages
  <2>1. received' \in 0..End(messages) /\ received < received'
    <3> DEFINE e == End(messages)
    <3>1. e \in Nat /\ n <= e - received
      BY <1>2, <1>3, <1>5
    <3> HIDE DEF e
    <3>2. received' \in 0..e /\ received < received'
      BY <1>1, <1>2, <3>1
    <3>3. QED
      BY <3>2 DEF e
  <2>2. messages' = messages
    BY <1>5
  <2>3. Len(messages) <= MaxRequests
    BY DEF RequestInv
  <2>4. QED
    BY <1>2, <1>3, <1>4, <2>1, <2>2, <2>3, Constant
<1>6. ASSUME NEW m \in Requests, MayBegin(m), Sent - received < n,
             n <= Sent - received + m.size, messages' = Append(messages, Message(m, Sent))
      PROVE  /\ Framed(messages') /\ Len(messages') <= MaxRequests
             /\ received' \in 0..End(messages') /\ received < received'
             /\ Ends(messages) \subseteq Ends(messages')
             /\ \A b \in Ends(messages') : b <= received => b \in Ends(messages)
             /\ \A i \in 1..Len(messages') : messages'[i].to <= received =>
                  i \in 1..Len(messages) /\ messages'[i] = messages[i]
             /\ firstRequest => OneLeft(messages', taken)
             /\ firstRequest /\ Within(dropped, messages) => Openers(messages', taken)
  <2> DEFINE next == messages'
  <2>1. /\ Framed(next) /\ Len(next) = Len(messages) + 1
        /\ \A i \in 1..Len(messages) : next[i] = messages[i] /\ messages[i].to <= End(messages)
        /\ next[Len(next)] = Message(m, End(messages))
        /\ m.size \in Nat /\ m.size >= 5
        /\ End(next) = End(messages) + m.size
        /\ Ends(next) = Ends(messages) \cup {End(next)}
    BY <1>2, <1>3, <1>6, Appended
  <2>2. next[Len(next)].to = End(next) /\ next[Len(next)].kind = m.kind
    BY <2>1 DEF Message
  <2>3. Len(next) <= MaxRequests
    BY <1>3, <1>6, <2>1, PgSessionAssumption DEF MayBegin
  <2>4. received' \in 0..End(next) /\ received < received'
    <3> DEFINE e == End(messages)
    <3>1. e \in Nat /\ m.size \in Nat /\ n <= e - received + m.size
      BY <1>2, <1>3, <1>6, <2>1
    <3> HIDE DEF e
    <3>2. received' \in 0..(e + m.size) /\ received < received'
      BY <1>1, <1>2, <3>1
    <3>3. QED
      BY <2>1, <3>2 DEF e
  <2>5. End(next) > received
    BY <1>2, <2>1
  <2>6. \A b \in Ends(next) : b <= received => b \in Ends(messages)
    BY <1>2, <2>1, <2>5
  <2>7. \A i \in 1..Len(next) : i \in 1..Len(messages) \/ i = Len(next)
    BY <1>3, <2>1
  <2>8. \A i \in 1..Len(next) : next[i].to <= received =>
          i \in 1..Len(messages) /\ next[i] = messages[i]
    BY <1>2, <2>1, <2>2, <2>5, <2>7
  <2>9. firstRequest => taken = End(messages)
    BY <1>3, <1>6 DEF MayBegin
  <2>10. firstRequest => OneLeft(next, taken)
    <3>1. SUFFICES ASSUME firstRequest, NEW i \in 1..Len(next), next[i].to > taken
                   PROVE  i = Len(next)
      BY DEF OneLeft
    <3>2. i \in 1..Len(messages) => messages[i].to <= taken /\ next[i] = messages[i]
      BY <2>1, <2>9, <3>1
    <3>3. i \in 1..Len(messages) => messages[i].to \in Nat
      BY <1>2, Sizes
    <3>4. QED
      BY <1>2, <2>7, <3>1, <3>2, <3>3
  <2>11. firstRequest /\ Within(dropped, messages) => Openers(next, taken)
    <3>1. SUFFICES ASSUME firstRequest, Within(dropped, messages), NEW i \in 1..Len(next)
                   PROVE  /\ next[i].kind \in {"ssl", "startup"}
                          /\ next[i].to <= taken => next[i].kind = "ssl"
      BY DEF Openers
    <3>2. Openers(messages, taken)
      BY <1>4, <3>1
    <3>3. \A j \in 1..Len(messages) : messages[j].kind = "ssl"
      BY <2>1, <2>9, <3>1, <3>2 DEF Openers
    <3>4. m.kind \in {"ssl", "startup"}
      BY <1>3, <1>6, <3>3 DEF MayBegin
    <3>5. End(next) > taken
      BY <1>2, <2>1
    <3>6. CASE i \in 1..Len(messages)
      BY <2>1, <3>3, <3>6
    <3>7. CASE i = Len(next)
      BY <1>2, <2>1, <2>2, <3>4, <3>5, <3>7
    <3>8. QED
      BY <2>7, <3>6, <3>7
  <2>12. QED
    BY <2>1, <2>3, <2>4, <2>6, <2>8, <2>10, <2>11
<1>7. QED
  BY <1>1, <1>5, <1>6
\* What was between messages is so still, and what was before the cursor was examined.
LEMMA Kept ==
    ASSUME RequestInv, Receive, Within(dropped, messages')
    PROVE  /\ Within(dropped, messages)
           /\ taken \in Ends(messages') /\ taken \in Ends(messages)
           /\ Examined(messages', taken, checked \cup dropped)
<1>1. taken \in Nat /\ taken <= received /\ DroppedBefore
  BY Constant DEF RequestInv
<1>2. /\ Ends(messages) \subseteq Ends(messages')
      /\ \A b \in Ends(messages') : b <= received => b \in Ends(messages)
      /\ \A i \in 1..Len(messages') : messages'[i].to <= received =>
           i \in 1..Len(messages) /\ messages'[i] = messages[i]
      /\ Framed(messages')
  BY Received
<1>3. Within(dropped, messages)
  BY <1>1, <1>2 DEF Within, DroppedBefore
<1>4. taken \in Ends(messages) /\ Examined(messages, taken, checked \cup dropped)
  BY <1>3 DEF RequestInv, Cursors
<1>5. \A i \in 1..Len(messages') : messages'[i].to \in Nat
  BY <1>2, Sizes
<1>6. received \in Nat
  BY Constant DEF RequestInv
<1>7. Examined(messages', taken, checked \cup dropped)
  BY <1>1, <1>2, <1>4, <1>5, <1>6 DEF Examined
<1>8. QED
  BY <1>2, <1>3, <1>4, <1>7

\* What every way to take the client's bytes keeps.
LEMMA KeptTypes ==
    ASSUME RequestInv, Receive, garbage' = garbage
    PROVE  /\ Framed(messages') /\ Len(messages') <= MaxRequests
           /\ received' \in Nat /\ received' <= End(messages') /\ End(messages') \in Nat
           /\ received \in Nat /\ received < received'
           /\ taken \in Nat /\ start \in Nat /\ taken <= received /\ start <= received
           /\ garbage' \in Garbage
           /\ \A i \in 1..Len(messages') :
                /\ messages'[i].to \in Nat /\ messages'[i].from \in Nat
                /\ messages'[i].from + 5 <= messages'[i].to
                /\ messages'[i].to <= End(messages')
<1>1. Framed(messages') /\ Len(messages') <= MaxRequests
      /\ received' \in 0..End(messages') /\ received < received'
  BY Received
<1>2. End(messages') \in Nat /\ \A i \in 1..Len(messages') : messages'[i].to <= End(messages')
  BY <1>1, Constant
<1>3. End(messages) \in Nat
  BY Constant DEF RequestInv
<1>4. QED
  BY <1>1, <1>2, <1>3, Sizes DEF RequestInv

LEMMA TooShort ==
    ASSUME RequestInv, Receive, garbage' = garbage, RequestTooShort
    PROVE  RequestInv'
<1> USE KeptTypes
<1>1. /\ UNCHANGED <<taken, start, firstRequest, dropped, checked>>
      /\ phase' = "idle" /\ received' - taken < 5
  BY DEF RequestTooShort, verdicts
<1>2. DroppedBefore'
  BY <1>1 DEF RequestInv, DroppedBefore
<1>3. Opening'
  BY <1>1, Kept, Received DEF Opening
<1>4. Cursors'
  BY <1>1, Kept DEF Cursors
<1>5. NoneWaits'
  <2>1. SUFFICES ASSUME taken \in Ends(messages'), NEW i \in 1..Len(messages'),
                        messages'[i].to <= received', messages'[i].to > taken
                 PROVE  FALSE
    BY <1>1 DEF NoneWaits, AllTaken
  <2>2. messages'[i].to >= taken + 5
    BY <2>1, Behind
  <2>3. QED
    BY <1>1, <2>1, <2>2
<1>6. QED
  BY <1>1, <1>2, <1>3, <1>4, <1>5 DEF RequestInv, InLoop

\* Between two ends of messages that are eight bytes apart lies one message.
LEMMA OneOfEight ==
    ASSUME NEW msgs, Framed(msgs), NEW p \in Ends(msgs), p + 8 \in Ends(msgs),
           NEW i \in 1..Len(msgs), msgs[i].to > p, msgs[i].to <= p + 8
    PROVE  msgs[i].from = p /\ msgs[i].to = p + 8
<1>1. p \in Nat /\ End(msgs) \in Nat /\ msgs[i].to <= End(msgs)
      /\ msgs[i].to \in Nat /\ msgs[i].from \in Nat /\ msgs[i].from + 5 <= msgs[i].to
  BY Behind, Constant, Sizes
<1>2. p < End(msgs)
  BY <1>1
<1>3. PICK k \in 1..Len(msgs) :
        /\ msgs[k].from = p
        /\ \A j \in 1..Len(msgs) : msgs[j].to > p => j = k \/ msgs[j].from >= msgs[k].to
  BY <1>2, MessageFrom
<1>4. msgs[k].to \in Nat /\ p + 5 <= msgs[k].to
  BY <1>3, Sizes
<1>5. i = k
  BY <1>1, <1>3, <1>4
<1>6. PICK j \in 1..Len(msgs) : msgs[j].to = p + 8
  BY <1>1 DEF Ends
<1>7. msgs[j].from \in Nat /\ msgs[j].from + 5 <= msgs[j].to
  BY Sizes
<1>8. j = k
  <2>1. msgs[j].to > p
    BY <1>1, <1>6
  <2>2. msgs[j].from <= p + 3
    BY <1>1, <1>6, <1>7
  <2>3. ~(msgs[j].from >= msgs[k].to)
    BY <1>1, <1>4, <1>7, <2>2
  <2>4. QED
    BY <1>3, <2>1, <2>3
<1>9. QED
  BY <1>3, <1>5, <1>6, <1>8

LEMMA OfEight ==
    ASSUME RequestInv, Receive, garbage' = garbage, RequestOfEight, StartupNamesUser
    PROVE  RequestInv'
<1> USE KeptTypes
<1>1. /\ UNCHANGED <<start, firstRequest, checked>>
      /\ phase' \in {"idle", "fast", "parse"} /\ received' = taken + 8 /\ taken' = received'
      /\ dropped' = dropped \cup {<<taken, received'>>}
  <2>1. UNCHANGED <<start, firstRequest, checked>> /\ received' - taken = 8 /\ taken' = received'
        /\ dropped' = dropped \cup {<<taken, received'>>} /\ AfterRequest(TRUE)
    BY DEF RequestOfEight
  <2>2. AnswerPhase(responseIn') \in {"fast", "parse"}
    BY DEF AnswerPhase
  <2>3. phase' \in {"idle", "fast", "parse"}
    BY <2>1, <2>2 DEF AfterRequest
  <2>4. received' = taken + 8
    BY <2>1
  <2>5. QED
    BY <2>1, <2>3, <2>4
<1>2. DroppedBefore' /\ dropped' \subseteq Nat \X Nat
  BY <1>1 DEF RequestInv, DroppedBefore
<1>3. ASSUME Within(dropped', messages')
      PROVE  /\ Within(dropped, messages')
             /\ taken \in Ends(messages') /\ received' \in Ends(messages')
  <2>1. <<taken, received'>> \in dropped' /\ dropped \subseteq dropped'
    BY <1>1
  <2>2. <<taken, received'>>[1] = taken /\ <<taken, received'>>[2] = received'
    OBVIOUS
  <2>3. QED
    BY <1>3, <2>1, <2>2 DEF Within
<1>4. ASSUME Within(dropped', messages'), NEW i \in 1..Len(messages'),
             messages'[i].to > taken, messages'[i].to <= received'
      PROVE  messages'[i].from = taken /\ messages'[i].to = received'
  BY <1>1, <1>3, <1>4, OneOfEight
<1>5. Opening'
  <2>1. SUFFICES ASSUME firstRequest
                 PROVE  /\ OneLeft(messages', received')
                        /\ Within(dropped', messages') => Openers(messages', received')
    BY <1>1 DEF Opening
  <2>2. OneLeft(messages', received')
    BY <1>1, <2>1, Received DEF OneLeft
  <2>3. ASSUME Within(dropped', messages'), NEW i \in 1..Len(messages')
        PROVE  /\ messages'[i].kind \in {"ssl", "startup"}
               /\ messages'[i].to <= received' => messages'[i].kind = "ssl"
    <3>1. Openers(messages', taken)
      BY <1>3, <2>1, <2>3, Kept, Received
    <3>2. CASE messages'[i].to > taken /\ messages'[i].to <= received'
      <4>1. messages'[i].from = taken /\ messages'[i].to = taken + 8
        BY <1>1, <1>4, <2>3, <3>2
      <4>2. [kind |-> messages'[i].kind, size |-> messages'[i].to - messages'[i].from] \in Requests
        BY DEF Framed
      <4>3. messages'[i].to - messages'[i].from = 8
        BY <4>1
      <4>4. messages'[i].kind # "startup"
        BY <4>2, <4>3 DEF StartupNamesUser
      <4>5. QED
        BY <3>1, <4>4 DEF Openers
    <3>3. QED
      BY <1>1, <3>1, <3>2 DEF Openers
  <2>4. QED
    BY <2>2, <2>3 DEF Openers
<1>6. Cursors'
  <2>1. SUFFICES ASSUME Within(dropped', messages')
                 PROVE  /\ received' \in Ends(messages')
                        /\ Examined(messages', received', checked \cup dropped')
    BY <1>1 DEF Cursors
  <2>2. Examined(messages', taken, checked \cup dropped)
    BY <1>3, <2>1, Kept
  <2>3. ASSUME NEW i \in 1..Len(messages'), messages'[i].to <= received',
               messages'[i].kind \in {"query", "parse"},
               messages'[i].to - messages'[i].from # 16
        PROVE  <<messages'[i].from, messages'[i].to>> \in checked \cup dropped'
    <3>1. CASE messages'[i].to <= taken
      BY <1>1, <2>2, <2>3, <3>1 DEF Examined
    <3>2. CASE messages'[i].to > taken
      BY <1>1, <1>4, <2>1, <2>3, <3>2
    <3>3. QED
      BY <3>1, <3>2
  <2>4. QED
    BY <1>3, <2>1, <2>3 DEF Examined
<1>7. NoneWaits'
  BY <1>1 DEF NoneWaits, AllTaken
<1>8. QED
  BY <1>1, <1>2, <1>5, <1>6, <1>7 DEF RequestInv, InLoop

LEMMA First ==
    ASSUME RequestInv, Receive, garbage' = garbage, RequestFirst
    PROVE  RequestInv'
<1> USE KeptTypes
<1> DEFINE size == HeaderAt(messages', taken).size
<1>1. /\ UNCHANGED <<start, dropped, checked>>
      /\ firstRequest /\ received' - taken >= 5
      /\ \/ size > received' - taken /\ phase' = "idle" /\ UNCHANGED <<taken, firstRequest>>
         \/ phase' = "closed" /\ UNCHANGED <<taken, firstRequest>>
         \/ size <= received' - taken /\ phase' = "idle" /\ taken' = received' /\ firstRequest' = FALSE
  BY DEF RequestFirst, verdicts
<1>2. DroppedBefore'
  BY <1>1 DEF RequestInv, DroppedBefore
\* The message that the header at the cursor belongs to.
<1>3. ASSUME taken \in Ends(messages')
      PROVE  \E k \in 1..Len(messages') :
               /\ messages'[k].from = taken /\ messages'[k].to = taken + size
               /\ \A i \in 1..Len(messages') : messages'[i].to > taken =>
                    i = k \/ messages'[i].from >= messages'[k].to
  <2>1. taken < End(messages')
    BY <1>1
  <2>2. PICK k \in 1..Len(messages') :
          /\ messages'[k].from = taken
          /\ \A q \in {taken} : HeaderAt(messages', q) =
               [kind |-> messages'[k].kind, size |-> messages'[k].to - messages'[k].from]
          /\ \A i \in 1..Len(messages') : messages'[i].to > taken =>
               i = k \/ messages'[i].from >= messages'[k].to
    BY <1>3, <2>1, MessageFrom
  <2>3. size = messages'[k].to - taken
    BY <2>2
  <2>4. QED
    BY <2>2, <2>3
<1>8. size \in Nat
  <2>1. garbage \in Garbage
    BY DEF RequestInv
  <2>2. QED
    BY <2>1, HeaderHasSize
<1> HIDE DEF size
<1>4. CASE phase' = "idle" /\ size > received' - taken /\ UNCHANGED <<taken, firstRequest>>
  <2>1. Opening' /\ Cursors'
    BY <1>1, <1>4, Kept, Received DEF Opening, Cursors
  <2>2. NoneWaits'
    <3>1. SUFFICES ASSUME taken \in Ends(messages'), NEW i \in 1..Len(messages'),
                          messages'[i].to <= received', messages'[i].to > taken
                   PROVE  FALSE
      BY <1>4 DEF NoneWaits, AllTaken
    <3>2. PICK k \in 1..Len(messages') :
            messages'[k].to = taken + size /\ (i = k \/ messages'[i].from >= messages'[k].to)
      BY <1>3, <3>1
    <3>3. messages'[k].to <= messages'[i].to
      BY <3>2
    <3>4. QED
      BY <1>4, <1>8, <3>1, <3>2, <3>3
  <2>3. QED
    BY <1>1, <1>2, <1>4, <2>1, <2>2 DEF RequestInv, InLoop
<1>5. CASE phase' = "closed" /\ UNCHANGED <<taken, firstRequest>>
  <2>1. Opening' /\ Cursors'
    BY <1>1, <1>5, Kept, Received DEF Opening, Cursors
  <2>2. QED
    BY <1>1, <1>2, <1>5, <2>1 DEF RequestInv, InLoop, NoneWaits
<1>6. CASE /\ phase' = "idle" /\ size <= received' - taken
           /\ taken' = received' /\ firstRequest' = FALSE
  <2>1. Cursors'
    <3>1. SUFFICES ASSUME Within(dropped, messages')
                   PROVE  /\ received' \in Ends(messages')
                          /\ Examined(messages', received', checked \cup dropped)
      BY <1>1, <1>6 DEF Cursors
    <3>2. /\ taken \in Ends(messages') /\ Openers(messages', taken) /\ OneLeft(messages', taken)
      BY <1>1, <3>1, Kept, Received
    <3>3. PICK k \in 1..Len(messages') :
            messages'[k].from = taken /\ messages'[k].to = taken + size
      BY <1>3, <3>2
    <3>4. k = Len(messages')
      BY <3>2, <3>3 DEF OneLeft
    <3>5. messages' # <<>>
      BY <3>4
    <3>6. End(messages') = taken + size
      BY <3>3, <3>4, <3>5 DEF End
    <3>7. received' = End(messages')
      BY <1>6, <1>8, <3>3, <3>6
    <3>8. received' \in Ends(messages')
      BY <3>7, Constant
    <3>9. QED
      BY <3>2, <3>8 DEF Openers, Examined
  <2>2. QED
    <3>1. Opening' /\ InLoop'
      BY <1>6 DEF Opening, InLoop
    <3>2. NoneWaits'
      BY <1>6 DEF NoneWaits, AllTaken
    <3>3. QED
      <4>1. /\ received' \in 0..End(messages') /\ taken' \in 0..received'
            /\ start' \in 0..received' /\ firstRequest' \in BOOLEAN
        <5>1. start' = start /\ start <= received' /\ start \in Nat /\ received' \in Nat
          BY <1>1
        <5>2. received' \in 0..End(messages')
          OBVIOUS
        <5>3. taken' \in 0..received'
          BY <1>6, <5>1
        <5>4. firstRequest' \in BOOLEAN
          BY <1>6
        <5>5. start' \in 0..received'
          BY <5>1
        <5>6. QED
          BY <5>2, <5>3, <5>4, <5>5, Zenon
      <4>2. dropped' \subseteq Nat \X Nat /\ checked' \subseteq Nat \X Nat
        BY <1>1 DEF RequestInv
      <4>3. QED
        BY <1>2, <2>1, <3>1, <3>2, <4>1, <4>2 DEF RequestInv
<1>7. QED
  BY <1>1, <1>4, <1>5, <1>6

LEMMA IsFramed ==
    ASSUME RequestInv, Receive, garbage' = garbage, RequestFramed
    PROVE  RequestInv'
<1> USE KeptTypes
<1>1. /\ UNCHANGED <<taken, firstRequest, dropped, checked>>
      /\ ~firstRequest /\ received' - taken >= 5 /\ phase' = "request" /\ start' = taken
  BY DEF RequestFramed, verdicts
<1>2. DroppedBefore'
  BY <1>1 DEF RequestInv, DroppedBefore
<1>3. Cursors'
  BY <1>1, Kept DEF Cursors
<1>4. QED
  BY <1>1, <1>2, <1>3 DEF RequestInv, InLoop, NoneWaits, Opening
-----------------------------------------------------------------------------
(* The loop over the client's messages.                                    *)

LEMMA Types ==
    ASSUME RequestInv
    PROVE  /\ Framed(messages) /\ End(messages) \in Nat
           /\ received \in Nat /\ taken \in Nat /\ start \in Nat
           /\ received <= End(messages) /\ taken <= received /\ start <= received
           /\ \A i \in 1..Len(messages) : messages[i].to \in Nat
<1>1. Framed(messages)
  BY DEF RequestInv
<1>2. End(messages) \in Nat
  BY <1>1, Constant
<1>3. QED
  BY <1>1, <1>2, Sizes DEF RequestInv

\* The message at the loop's cursor.
LEMMA AtCursor ==
    ASSUME RequestInv, phase = "request", start \in Ends(messages)
    PROVE  \E k \in 1..Len(messages) :
             /\ messages[k].from = start /\ messages[k].to = start + Current.size
             /\ Current.kind = messages[k].kind
             /\ start + Current.size \in Ends(messages)
             /\ \A i \in 1..Len(messages) : messages[i].to > start =>
                  i = k \/ messages[i].from >= messages[k].to
<1>1. start < End(messages)
  BY Types DEF RequestInv, InLoop
<1>2. PICK k \in 1..Len(messages) :
        /\ messages[k].from = start
        /\ \A q \in {start} : HeaderAt(messages, q) =
             [kind |-> messages[k].kind, size |-> messages[k].to - messages[k].from]
        /\ \A i \in 1..Len(messages) : messages[i].to > start =>
             i = k \/ messages[i].from >= messages[k].to
  BY <1>1, Types, MessageFrom
<1>3. Current.size = messages[k].to - start /\ Current.kind = messages[k].kind
  BY <1>2 DEF Current
<1>4. start + Current.size = messages[k].to
  BY <1>3, Types
<1>5. messages[k].to \in Ends(messages)
  BY Types, Constant
<1>6. QED
  BY <1>2, <1>3, <1>4, <1>5

\* The cursor moves behind a message that is examined, if it has to be.
LEMMA NextKeeps ==
    ASSUME RequestInv, phase = "request", Complete, NEW replied, NextRequest(replied),
           UNCHANGED <<messages, received, firstRequest, dropped, garbage>>,
           \/ checked' = checked /\ ~IsQuery(Current)
           \/ checked' = checked \cup {Interval}
    PROVE  RequestInv'
<1> USE Types
<1> DEFINE next == start + Current.size
<1>1. Current.size \in Nat
  BY HeaderHasSize DEF Current, RequestInv
<1>2. next \in Nat /\ next <= received /\ start <= next
  BY <1>1 DEF Complete
<1>3. ~firstRequest /\ taken <= start
  BY DEF RequestInv, InLoop
<1>4. checked \subseteq checked' /\ checked' \subseteq Nat \X Nat
  BY <1>2 DEF RequestInv, Interval
<1>5. DroppedBefore' /\ Opening'
  BY <1>3 DEF RequestInv, DroppedBefore, Opening
<1>6. ASSUME Within(dropped, messages)
      PROVE  /\ taken \in Ends(messages) /\ next \in Ends(messages)
             /\ Examined(messages, taken, checked' \cup dropped)
             /\ Examined(messages, next, checked' \cup dropped)
  <2>1. /\ taken \in Ends(messages) /\ start \in Ends(messages)
        /\ Examined(messages, taken, checked \cup dropped)
        /\ Examined(messages, start, checked \cup dropped)
    BY <1>6 DEF RequestInv, Cursors
  <2>2. PICK k \in 1..Len(messages) :
          /\ messages[k].from = start /\ messages[k].to = next
          /\ Current.kind = messages[k].kind
          /\ next \in Ends(messages)
          /\ \A i \in 1..Len(messages) : messages[i].to > start =>
               i = k \/ messages[i].from >= messages[k].to
    BY <2>1, AtCursor
  <2>3. Examined(messages, taken, checked' \cup dropped)
    BY <1>4, <2>1 DEF Examined
  <2>4. ASSUME NEW i \in 1..Len(messages), messages[i].to <= next,
               messages[i].kind \in {"query", "parse"},
               messages[i].to - messages[i].from # 16
        PROVE  <<messages[i].from, messages[i].to>> \in checked' \cup dropped
    <3>1. CASE messages[i].to <= start
      BY <1>4, <2>1, <2>4, <3>1 DEF Examined
    <3>2. CASE messages[i].to > start
      <4>1. messages[i].from \in Nat /\ messages[i].from + 5 <= messages[i].to
        BY Sizes
      <4>2. ~(messages[i].from >= next)
        BY <1>2, <2>4, <4>1
      <4>3. i = k
        BY <2>2, <3>2, <4>2
      <4>4. messages[k].to - messages[k].from = Current.size
        BY <1>1, <2>2
      <4>5. IsQuery(Current)
        BY <2>2, <2>4, <4>3, <4>4 DEF IsQuery
      <4>6. <<start, next>> \in checked'
        BY <4>5 DEF Interval
      <4>7. QED
        BY <2>2, <4>3, <4>6
    <3>3. QED
      BY <3>1, <3>2
  <2>5. QED
    BY <2>1, <2>2, <2>3, <2>4 DEF Examined
<1>7. CASE next + 5 <= received /\ phase' = "request" /\ start' = next /\ UNCHANGED taken
  <2>1. Cursors'
    BY <1>6, <1>7 DEF Cursors
  <2>2. InLoop' /\ NoneWaits'
    BY <1>2, <1>3, <1>7 DEF InLoop, NoneWaits
  <2>3. QED
    BY <1>2, <1>4, <1>5, <1>7, <2>1, <2>2 DEF RequestInv
<1>8. CASE ~(next + 5 <= received) /\ taken' = next /\ UNCHANGED start /\ AfterRequest(replied)
  <2>1. phase' \in {"idle", "fast", "parse"}
    BY <1>8 DEF AfterRequest, AnswerPhase
  <2>2. Cursors' /\ InLoop'
    BY <1>6, <1>8, <2>1 DEF Cursors, InLoop
  <2>3. NoneWaits'
    <3>1. SUFFICES ASSUME next \in Ends(messages), NEW i \in 1..Len(messages),
                          messages[i].to <= received, messages[i].to > next
                   PROVE  FALSE
      BY <1>2, <1>8 DEF NoneWaits, AllTaken
    <3>2. messages[i].to >= next + 5
      BY <3>1, Behind
    <3>3. QED
      BY <1>2, <1>8, <3>1, <3>2
  <2>4. QED
    BY <1>2, <1>4, <1>5, <1>8, <2>2, <2>3 DEF RequestInv
<1>9. QED
  BY <1>7, <1>8 DEF NextRequest

LEMMA DoneKeeps == ASSUME RequestInv, RequestDone PROVE RequestInv'
<1> USE Types
<1>1. /\ UNCHANGED <<messages, received, start, firstRequest, dropped, checked, garbage>>
      /\ phase = "request" /\ ~Complete /\ taken' = start /\ AfterRequest(hasResponse)
  BY DEF RequestDone, verdicts
<1>2. phase' \in {"idle", "fast", "parse"}
  BY <1>1 DEF AfterRequest, AnswerPhase
<1>3. DroppedBefore' /\ Opening' /\ InLoop'
  BY <1>1, <1>2 DEF RequestInv, DroppedBefore, Opening, InLoop
<1>4. Cursors'
  BY <1>1, <1>2 DEF RequestInv, Cursors
<1>5. NoneWaits'
  <2>1. SUFFICES ASSUME start \in Ends(messages), NEW i \in 1..Len(messages),
                        messages[i].to <= received, messages[i].to > start
                 PROVE  FALSE
    BY <1>1, <1>2 DEF NoneWaits, AllTaken
  <2>2. PICK k \in 1..Len(messages) :
          /\ messages[k].to = start + Current.size
          /\ i = k \/ messages[i].from >= messages[k].to
    BY <1>1, <2>1, AtCursor
  <2>3. messages[i].from \in Nat /\ messages[i].from <= messages[i].to
    BY Sizes
  <2>4. messages[k].to <= received
    BY <2>1, <2>2, <2>3
  <2>5. QED
    BY <1>1, <2>2, <2>4 DEF Complete
<1>6. QED
  BY <1>1, <1>3, <1>4, <1>5 DEF RequestInv

\* The backend's side of a session leaves the client's alone.
LEMMA AnswersKeep ==
    ASSUME RequestInv, UNCHANGED <<request, verdicts, garbage>>,
           phase \notin {"request", "closed"}, phase' \in {"idle", "fast", "parse"}
    PROVE  RequestInv'
<1>1. UNCHANGED <<messages, received, taken, start, firstRequest, dropped, checked, garbage>>
  BY DEF request, verdicts
<1>2. Opening' /\ Cursors' /\ InLoop' /\ NoneWaits' /\ DroppedBefore'
  BY <1>1 DEF RequestInv, Opening, Cursors, InLoop, NoneWaits, DroppedBefore
<1>3. QED
  BY <1>1, <1>2 DEF RequestInv

LEMMA InitRequest == Init => RequestInv
<1> SUFFICES ASSUME Init PROVE RequestInv
  OBVIOUS
<1>1. /\ messages = <<>> /\ received = 0 /\ taken = 0 /\ start = 0 /\ phase = "idle"
      /\ dropped = {} /\ checked = {} /\ garbage \in Garbage /\ firstRequest = TRUE
  BY DEF Init
<1>2. Len(messages) = 0 /\ End(messages) = 0 /\ Framed(messages)
  BY <1>1 DEF End, Framed
<1>3. Opening /\ Cursors /\ InLoop /\ NoneWaits /\ DroppedBefore
  BY <1>1, <1>2 DEF Opening, OneLeft, Openers, Cursors, Ends, Examined, InLoop, NoneWaits,
                    AllTaken, DroppedBefore
<1>4. QED
  BY <1>1, <1>2, <1>3, PgSessionAssumption DEF RequestInv

LEMMA StepRequest ==
    ASSUME StartupNamesUser, RequestInv, [Next]_vars PROVE RequestInv'
<1>1. CASE ClientBytes
  <2>1. Receive /\ garbage' = garbage
    BY <1>1 DEF ClientBytes, Receive
  <2>2. QED
    BY <1>1, <2>1, TooShort, OfEight, First, IsFramed DEF ClientBytes
<1>2. CASE ParseOther
  BY <1>2, NextKeeps DEF ParseOther
<1>3. CASE ParseQuery
  <2>1. /\ phase = "request" /\ Complete /\ checked' = checked \cup {Interval}
        /\ UNCHANGED <<messages, received, firstRequest, dropped, garbage>>
    BY <1>3 DEF ParseQuery
  <2>2. CASE NextRequest(hasResponse)
    BY <2>1, <2>2, NextKeeps
  <2>3. CASE NextRequest(TRUE)
    BY <2>1, <2>3, NextKeeps
  <2>4. QED
    BY <1>3, <2>2, <2>3 DEF ParseQuery
<1>4. CASE RequestDone
  BY <1>4, DoneKeeps
<1>5. CASE BackendBytes
  <2>1. phase' \in {"fast", "parse"} /\ phase = "idle"
    BY <1>5 DEF BackendBytes, AnswerPhase
  <2>2. QED
    BY <1>5, <2>1, AnswersKeep DEF BackendBytes
<1>6. CASE NextAnswer
  BY <1>6, AnswersKeep DEF NextAnswer
<1>7. CASE FastDone
  BY <1>7, AnswersKeep DEF FastDone, Release
<1>8. CASE ParseDone
  BY <1>8, AnswersKeep DEF ParseDone, Release
<1>9. CASE ParseWaits
  BY <1>9, AnswersKeep DEF ParseWaits
<1>10. CASE UNCHANGED vars
  <2>1. /\ UNCHANGED <<messages, received, taken, start, firstRequest, dropped, checked, garbage>>
        /\ phase' = phase
    BY <1>10 DEF vars, request, verdicts
  <2>2. Opening' /\ Cursors' /\ InLoop' /\ NoneWaits' /\ DroppedBefore'
    BY <2>1 DEF RequestInv, Opening, Cursors, InLoop, NoneWaits, DroppedBefore
  <2>3. QED
    BY <2>1, <2>2 DEF RequestInv
<1>11. QED
  BY <1>1, <1>2, <1>3, <1>4, <1>5, <1>6, <1>7, <1>8, <1>9, <1>10 DEF Next
-----------------------------------------------------------------------------
(* Streams of whole messages to the client.                                *)

IsByte(b, kind, at, of) == b.kind = kind /\ b.at = at /\ b.of = of

\* Each byte has its message around it.
Whole(s) ==
    \A i \in 1..Len(s) :
        /\ s[i].at \in 1..s[i].of /\ s[i].at <= i /\ i - s[i].at + s[i].of <= Len(s)
        /\ \A j \in 1..s[i].of :
             IsByte(s[i - s[i].at + j], s[i].kind, j, s[i].of)

\* A message ends at p.
Between(s, p) == p < Len(s) => s[p + 1].at = 1

LEMMA ByteNats == \A b \in Byte : b.at \in Nat /\ b.of \in Nat
BY DEF Byte

LEMMA BytesWhole ==
    ASSUME NEW kind \in AnswerKinds \cup {"reply", "ssl"}, NEW size \in Nat
    PROVE  /\ Bytes(kind, size) \in Seq(Byte) /\ Len(Bytes(kind, size)) = size
           /\ \A i \in 1..size : Bytes(kind, size)[i].kind = kind
           /\ Whole(Bytes(kind, size))
<1> DEFINE s == Bytes(kind, size)
<1>1. s \in [1..size -> Byte]
  <2>1. \A i \in 1..size : [kind |-> kind, at |-> i, of |-> size] \in Byte
    BY DEF Byte
  <2>2. QED
    BY <2>1 DEF Bytes
<1>2. s \in Seq(Byte) /\ Len(s) = size
  BY <1>1, SeqDef
<1>3. ASSUME NEW i \in 1..size PROVE IsByte(s[i], kind, i, size)
  BY DEF Bytes, IsByte
<1> HIDE DEF s
<1>4. \A i \in 1..size : s[i].at = i /\ s[i].of = size /\ s[i].kind = kind
  BY <1>3 DEF IsByte
<1>5. Whole(s)
  <2>1. SUFFICES ASSUME NEW i \in 1..size
                 PROVE  /\ s[i].at \in 1..s[i].of /\ s[i].at <= i
                        /\ i - s[i].at + s[i].of <= size
                        /\ \A j \in 1..s[i].of :
                             IsByte(s[i - s[i].at + j], s[i].kind, j, s[i].of)
    BY <1>2 DEF Whole
  <2>2. s[i].at = i /\ s[i].of = size /\ s[i].kind = kind
    BY <1>4
  <2>3. \A j \in 1..size : i - i + j = j
    OBVIOUS
  <2>4. QED
    BY <1>3, <2>2, <2>3
<1>6. QED
  BY <1>2, <1>4, <1>5 DEF s

\* What Whole says about one byte, with the place where its message begins.
LEMMA MessageAround ==
    ASSUME NEW s \in Seq(Byte), Whole(s), NEW i \in 1..Len(s)
    PROVE  \E b \in Nat :
             /\ s[i].at \in Nat /\ s[i].of \in Nat
             /\ i = b + s[i].at /\ s[i].at >= 1 /\ s[i].at <= s[i].of
             /\ b + s[i].of <= Len(s)
             /\ \A j \in 1..s[i].of : IsByte(s[b + j], s[i].kind, j, s[i].of)
<1> DEFINE b == i - s[i].at
<1>1. s[i] \in Byte /\ Len(s) \in Nat
  BY ElementOfSeq, LenProperties
<1>2. s[i].at \in Nat /\ s[i].of \in Nat
  BY <1>1, ByteNats
<1>3. /\ s[i].at \in 1..s[i].of /\ s[i].at <= i /\ b + s[i].of <= Len(s)
      /\ \A j \in 1..s[i].of : IsByte(s[b + j], s[i].kind, j, s[i].of)
  BY DEF Whole
<1>4. b \in Nat /\ i = b + s[i].at
  BY <1>1, <1>2, <1>3
<1> HIDE DEF b
<1>5. s[i].at >= 1 /\ s[i].at <= s[i].of
  BY <1>2, <1>3
<1>6. QED
  BY <1>2, <1>3, <1>4, <1>5

\* And the converse.
LEMMA WholeIf ==
    ASSUME NEW s \in Seq(Byte),
           \A i \in 1..Len(s) : \E b \in Nat :
             /\ i = b + s[i].at /\ s[i].at >= 1 /\ s[i].at <= s[i].of
             /\ b + s[i].of <= Len(s)
             /\ \A j \in 1..s[i].of : IsByte(s[b + j], s[i].kind, j, s[i].of)
    PROVE  Whole(s)
<1>1. SUFFICES ASSUME NEW i \in 1..Len(s)
               PROVE  /\ s[i].at \in 1..s[i].of /\ s[i].at <= i
                      /\ i - s[i].at + s[i].of <= Len(s)
                      /\ \A j \in 1..s[i].of :
                           IsByte(s[i - s[i].at + j], s[i].kind, j, s[i].of)
  BY DEF Whole
<1>2. s[i] \in Byte /\ Len(s) \in Nat
  BY ElementOfSeq, LenProperties
<1>3. s[i].at \in Nat /\ s[i].of \in Nat
  BY <1>2, ByteNats
<1>4. PICK b \in Nat :
        /\ i = b + s[i].at /\ s[i].at >= 1 /\ s[i].at <= s[i].of
        /\ b + s[i].of <= Len(s)
        /\ \A j \in 1..s[i].of : IsByte(s[b + j], s[i].kind, j, s[i].of)
  OBVIOUS
<1>5. i - s[i].at = b
  BY <1>3, <1>4
<1>6. s[i].at \in 1..s[i].of /\ s[i].at <= i
  BY <1>3, <1>4
<1>7. QED
  BY <1>4, <1>5, <1>6

LEMMA WholeConcat ==
    ASSUME NEW s \in Seq(Byte), NEW t \in Seq(Byte), Whole(s), Whole(t)
    PROVE  Whole(s \o t)
<1> DEFINE u == s \o t
<1>1. /\ u \in Seq(Byte) /\ Len(u) = Len(s) + Len(t) /\ Len(s) \in Nat /\ Len(t) \in Nat
      /\ \A i \in 1..Len(s) + Len(t) : u[i] = IF i <= Len(s) THEN s[i] ELSE t[i - Len(s)]
  BY ConcatProperties, LenProperties
<1> HIDE DEF u
<1>2. (\A i \in 1..Len(s) : u[i] = s[i]) /\ \A i \in 1..Len(t) : u[Len(s) + i] = t[i]
  <2>1. \A i \in 1..Len(t) : Len(s) + i - Len(s) = i /\ Len(s) + i \in 1..Len(s) + Len(t)
                             /\ ~(Len(s) + i <= Len(s))
    BY <1>1
  <2>2. QED
    BY <1>1, <2>1
<1>3. ASSUME NEW i \in 1..Len(u)
      PROVE  \E b \in Nat :
               /\ i = b + u[i].at /\ u[i].at >= 1 /\ u[i].at <= u[i].of
               /\ b + u[i].of <= Len(u)
               /\ \A j \in 1..u[i].of : IsByte(u[b + j], u[i].kind, j, u[i].of)
  <2>1. CASE i \in 1..Len(s)
    <3>1. PICK b \in Nat :
            /\ s[i].at \in Nat /\ s[i].of \in Nat
            /\ i = b + s[i].at /\ s[i].at >= 1 /\ s[i].at <= s[i].of
            /\ b + s[i].of <= Len(s)
            /\ \A j \in 1..s[i].of : IsByte(s[b + j], s[i].kind, j, s[i].of)
      BY <2>1, MessageAround
    <3>2. u[i] = s[i]
      BY <1>2, <2>1
    <3>3. ASSUME NEW j \in 1..s[i].of PROVE u[b + j] = s[b + j]
      BY <1>1, <1>2, <3>1
    <3>4. b + s[i].of <= Len(u)
      BY <1>1, <3>1
    <3>5. QED
      BY <3>1, <3>2, <3>3, <3>4
  <2>2. CASE i \notin 1..Len(s)
    <3>1. PICK k \in 1..Len(t) : i = Len(s) + k
      <4>1. i - Len(s) \in 1..Len(t) /\ i = Len(s) + (i - Len(s))
        BY <1>1, <2>2
      <4>2. QED
        BY <4>1
    <3>2. PICK b \in Nat :
            /\ t[k].at \in Nat /\ t[k].of \in Nat
            /\ k = b + t[k].at /\ t[k].at >= 1 /\ t[k].at <= t[k].of
            /\ b + t[k].of <= Len(t)
            /\ \A j \in 1..t[k].of : IsByte(t[b + j], t[k].kind, j, t[k].of)
      BY MessageAround
    <3>3. u[i] = t[k]
      BY <1>2, <3>1
    <3> DEFINE c == Len(s) + b
    <3>4. c \in Nat /\ i = c + t[k].at /\ c + t[k].of <= Len(u)
      <4> DEFINE at == t[k].at
                 of == t[k].of
      <4>1. at \in Nat /\ of \in Nat /\ k = b + at /\ b + of <= Len(t)
        BY <3>2
      <4> HIDE DEF at, of
      <4>2. c \in Nat /\ i = c + at /\ c + of <= Len(u)
        BY <1>1, <3>1, <4>1
      <4>3. QED
        BY <4>2 DEF at, of
    <3>5. ASSUME NEW j \in 1..t[k].of PROVE u[c + j] = t[b + j]
      <4>1. b + j \in 1..Len(t) /\ c + j = Len(s) + (b + j)
        BY <1>1, <3>2
      <4>2. QED
        BY <1>2, <4>1
    <3> HIDE DEF c
    <3>6. QED
      BY <3>2, <3>3, <3>4, <3>5
  <2>3. QED
    BY <2>1, <2>2
<1>4. Whole(u)
  BY <1>1, <1>3, WholeIf
<1>5. QED
  BY <1>4 DEF u
\* A message that ends behind p begins there or later.
LEMMA BehindPlace ==
    ASSUME NEW s \in Seq(Byte), Whole(s), NEW p \in 0..Len(s), Between(s, p),
           NEW b \in Nat, NEW i \in 1..Len(s), i = b + s[i].at, s[i].at >= 1, s[i].at <= s[i].of,
           \A j \in 1..s[i].of : IsByte(s[b + j], s[i].kind, j, s[i].of),
           i > p
    PROVE  b >= p
<1>1. Len(s) \in Nat /\ s[i].at \in Nat /\ s[i].of \in Nat
  BY MessageAround
<1>2. SUFFICES ASSUME b < p PROVE FALSE
  BY <1>1
<1> DEFINE j == p + 1 - b
<1>3. j \in 1..s[i].of /\ j > 1 /\ b + j = p + 1
  BY <1>1, <1>2
<1> HIDE DEF j
<1>4. s[p + 1].at = j
  BY <1>3 DEF IsByte
<1>5. p < Len(s)
  BY <1>1
<1>6. QED
  BY <1>3, <1>4, <1>5 DEF Between

\* Behind the message that begins at p there is an end of a message.
LEMMA NextPlace ==
    ASSUME NEW s \in Seq(Byte), Whole(s), NEW p \in 0..Len(s), Between(s, p), p < Len(s)
    PROVE  /\ s[p + 1].of \in Nat /\ p + s[p + 1].of \in 0..Len(s)
           /\ Between(s, p + s[p + 1].of)
<1> DEFINE n == s[p + 1].of
<1>1. Len(s) \in Nat /\ p + 1 \in 1..Len(s)
  BY LenProperties
<1>2. PICK b \in Nat :
        /\ s[p + 1].at \in Nat /\ n \in Nat
        /\ p + 1 = b + s[p + 1].at /\ s[p + 1].at >= 1 /\ s[p + 1].at <= n
        /\ b + n <= Len(s)
        /\ \A j \in 1..n : IsByte(s[b + j], s[p + 1].kind, j, n)
  BY <1>1, MessageAround
<1>3. b = p
  BY <1>1, <1>2 DEF Between
<1>4. n >= 1 /\ s[p + n].at = n /\ s[p + n].of = n /\ p + n <= Len(s)
  <2>1. n \in 1..n
    BY <1>2
  <2>2. IsByte(s[p + n], s[p + 1].kind, n, n)
    BY <1>2, <1>3, <2>1
  <2>3. QED
    BY <1>2, <1>3, <2>2 DEF IsByte
<1> HIDE DEF n
<1>5. Between(s, p + n)
  <2>1. SUFFICES ASSUME p + n < Len(s) PROVE s[p + n + 1].at = 1
    BY DEF Between
  <2> DEFINE i == p + n + 1
  <2>2. i \in 1..Len(s)
    BY <1>1, <1>2, <2>1
  <2>3. PICK c \in Nat :
          /\ s[i].at \in Nat /\ s[i].of \in Nat
          /\ i = c + s[i].at /\ s[i].at >= 1 /\ s[i].at <= s[i].of
          /\ \A j \in 1..s[i].of : IsByte(s[c + j], s[i].kind, j, s[i].of)
    BY <2>2, MessageAround
  <2>4. SUFFICES ASSUME s[i].at # 1 PROVE FALSE
    OBVIOUS
  <2> DEFINE k == s[i].at - 1
  <2> HIDE DEF i
  <2>5. k \in 1..s[i].of /\ c + k = p + n /\ k + 1 <= s[i].of
    <3> DEFINE at == s[i].at
               of == s[i].of
    <3>1. i = p + n + 1 /\ p + n \in Nat
      BY <1>2 DEF i
    <3>2. at \in Nat /\ of \in Nat /\ i = c + at /\ at >= 1 /\ at <= of /\ at # 1 /\ k = at - 1
      BY <2>3, <2>4
    <3> HIDE DEF at, of, k
    <3>3. k \in 1..of /\ c + k = p + n /\ k + 1 <= of
      BY <3>1, <3>2
    <3>4. QED
      BY <3>3 DEF of
  <2> HIDE DEF k
  <2>6. s[p + n].at = k /\ s[p + n].of = s[i].of
    <3>1. IsByte(s[c + k], s[i].kind, k, s[i].of)
      BY <2>3, <2>5
    <3>2. QED
      BY <2>5, <3>1 DEF IsByte
  <2>7. QED
    BY <1>4, <2>3, <2>5, <2>6
<1>6. QED
  BY <1>1, <1>2, <1>3, <1>4, <1>5 DEF n

LEMMA WholeBehind ==
    ASSUME NEW s \in Seq(Byte), Whole(s), NEW p \in 0..Len(s), Between(s, p)
    PROVE  Whole(SubSeq(s, p + 1, Len(s)))
<1> DEFINE t == SubSeq(s, p + 1, Len(s))
<1>1. Len(s) \in Nat
  BY LenProperties
<1>2. \A i \in (p + 1)..Len(s) : s[i] \in Byte
  BY <1>1, ElementOfSeq
<1>3. /\ t \in Seq(Byte) /\ Len(t) = Len(s) - p
      /\ \A i \in 1..(Len(s) - p) : t[i] = s[p + i]
  <2>1. /\ t \in Seq(Byte)
        /\ Len(t) = IF p + 1 <= Len(s) THEN Len(s) - (p + 1) + 1 ELSE 0
        /\ \A i \in 1..Len(s) - (p + 1) + 1 : t[i] = s[(p + 1) + i - 1]
    BY <1>1, <1>2, SubSeqProperties
  <2>2. \A i \in 1..(Len(s) - p) : (p + 1) + i - 1 = p + i /\ i \in 1..Len(s) - (p + 1) + 1
    BY <1>1
  <2>3. Len(t) = Len(s) - p
    BY <1>1, <2>1
  <2>4. QED
    BY <2>1, <2>2, <2>3
<1> HIDE DEF t
<1>4. ASSUME NEW i \in 1..Len(t)
      PROVE  \E b \in Nat :
               /\ i = b + t[i].at /\ t[i].at >= 1 /\ t[i].at <= t[i].of
               /\ b + t[i].of <= Len(t)
               /\ \A j \in 1..t[i].of : IsByte(t[b + j], t[i].kind, j, t[i].of)
  <2> DEFINE k == p + i
  <2>1. k \in 1..Len(s) /\ k > p /\ t[i] = s[k]
    BY <1>1, <1>3
  <2> HIDE DEF k
  <2>2. PICK c \in Nat :
          /\ s[k].at \in Nat /\ s[k].of \in Nat
          /\ k = c + s[k].at /\ s[k].at >= 1 /\ s[k].at <= s[k].of
          /\ c + s[k].of <= Len(s)
          /\ \A j \in 1..s[k].of : IsByte(s[c + j], s[k].kind, j, s[k].of)
    BY <2>1, MessageAround
  <2>3. c >= p
    BY <2>1, <2>2, BehindPlace
  <2> DEFINE b == c - p
  <2>4. b \in Nat /\ i = b + s[k].at /\ b + s[k].of <= Len(t) /\ p + b = c
    <3>1. k = p + i /\ i \in Nat
      BY <1>1, <1>3 DEF k
    <3>2. QED
      BY <1>1, <1>3, <2>2, <2>3, <3>1
  <2> HIDE DEF b
  <2>5. ASSUME NEW j \in 1..s[k].of PROVE t[b + j] = s[c + j]
    <3>1. b + j \in 1..(Len(s) - p) /\ p + (b + j) = c + j
      BY <1>1, <1>3, <2>2, <2>4
    <3>2. QED
      BY <1>3, <3>1
  <2>6. QED
    BY <2>1, <2>2, <2>4, <2>5
<1>5. QED
  BY <1>3, <1>4, WholeIf DEF t

\* Whole messages, up to p, continue a stream that ends with its message.
LEMMA ShowsWhole ==
    ASSUME NEW s \in Seq(Byte), Whole(s), NEW p \in 1..Len(s), Between(s, p),
           NEW t \in Seq(Byte), Len(t) = p, \A i \in 1..p : t[i] = s[i],
           NEW a, a.at = a.of
    PROVE  Continues(a, t) /\ t[Len(t)].at = t[Len(t)].of
<1>1. Len(s) \in Nat
  BY LenProperties
<1>2. t[1].at = 1
  <2>1. PICK b \in Nat : s[1].at \in Nat /\ 1 = b + s[1].at /\ s[1].at >= 1
    BY <1>1, MessageAround
  <2>2. QED
    BY <1>1, <2>1
<1>3. ASSUME NEW i \in 1..Len(s), s[i].at # s[i].of
      PROVE  /\ i + 1 \in 1..Len(s) /\ s[i + 1].at = s[i].at + 1 /\ s[i].at \in Nat /\ s[i].at >= 1
             /\ s[i + 1].kind = s[i].kind /\ s[i + 1].of = s[i].of
  <2>1. PICK b \in Nat :
          /\ s[i].at \in Nat /\ s[i].of \in Nat
          /\ i = b + s[i].at /\ s[i].at >= 1 /\ s[i].at <= s[i].of
          /\ b + s[i].of <= Len(s)
          /\ \A j \in 1..s[i].of : IsByte(s[b + j], s[i].kind, j, s[i].of)
    BY MessageAround
  <2> DEFINE j == s[i].at + 1
  <2>2. j \in 1..s[i].of /\ b + j = i + 1 /\ i + 1 \in 1..Len(s)
    <3> DEFINE at == s[i].at
               of == s[i].of
    <3>1. /\ at \in Nat /\ of \in Nat /\ i = b + at /\ at >= 1 /\ at <= of /\ at # of /\ j = at + 1
          /\ b + of <= Len(s)
      BY <1>3, <2>1
    <3> HIDE DEF at, of, j
    <3>2. j \in 1..of /\ b + j = i + 1 /\ i + 1 \in 1..Len(s)
      BY <1>1, <3>1
    <3>3. QED
      BY <3>2 DEF of
  <2>3. IsByte(s[i + 1], s[i].kind, j, s[i].of)
    BY <2>1, <2>2
  <2>4. QED
    BY <2>1, <2>2, <2>3 DEF IsByte
<1>4. ASSUME NEW i \in 1..Len(s) - 1, s[i].at = s[i].of
      PROVE  s[i + 1].at = 1
  <2>1. i \in 0..Len(s) /\ i + 1 \in 1..Len(s) /\ i \in 1..Len(s)
    BY <1>1
  <2>2. PICK b \in Nat :
          /\ s[i + 1].at \in Nat /\ s[i + 1].of \in Nat
          /\ i + 1 = b + s[i + 1].at /\ s[i + 1].at >= 1 /\ s[i + 1].at <= s[i + 1].of
          /\ \A j \in 1..s[i + 1].of :
               IsByte(s[b + j], s[i + 1].kind, j, s[i + 1].of)
    BY <2>1, MessageAround
  <2>3. SUFFICES ASSUME s[i + 1].at # 1 PROVE FALSE
    OBVIOUS
  <2> DEFINE j == s[i + 1].at - 1
  <2>4. j \in 1..s[i + 1].of /\ b + j = i /\ j + 1 <= s[i + 1].of
    BY <2>1, <2>2, <2>3
  <2> HIDE DEF j
  <2>5. s[i].at = j /\ s[i].of = s[i + 1].of
    <3>1. IsByte(s[b + j], s[i + 1].kind, j, s[i + 1].of)
      BY <2>2, <2>4
    <3>2. QED
      BY <2>4, <3>1 DEF IsByte
  <2>6. j = s[i + 1].of /\ j \in Nat
    BY <1>4, <2>2, <2>4, <2>5
  <2>7. QED
    BY <2>4, <2>6
<1>5. ASSUME NEW i \in 1..Len(t) - 1 PROVE Follows(t[i], t[i + 1])
  <2>1. i \in 1..Len(s) /\ i \in 1..Len(s) - 1 /\ t[i] = s[i] /\ t[i + 1] = s[i + 1]
    BY <1>1
  <2>2. QED
    BY <1>3, <1>4, <2>1 DEF Follows
<1>6. t[Len(t)].at = t[Len(t)].of
  <2>1. SUFFICES ASSUME s[p].at # s[p].of PROVE FALSE
    BY <1>1
  <2>2. p + 1 \in 1..Len(s) /\ s[p + 1].at = s[p].at + 1 /\ s[p].at \in Nat /\ s[p].at >= 1
    BY <1>3, <2>1
  <2>3. QED
    BY <1>1, <2>2 DEF Between
<1>7. QED
  BY <1>2, <1>5, <1>6 DEF Continues, Follows
-----------------------------------------------------------------------------
(* The backend's side of the steps.                                        *)

Phases == {"idle", "request", "fast", "parse", "closed"}

\* What the client has still to get of what the backend has begun.
Stream == responseIn \o serverRest

ResponseTypes ==
    /\ phase \in Phases
    /\ secondPacket \in BOOLEAN /\ hasResponse \in BOOLEAN
    /\ responseIn \in Seq(Byte) /\ used \in 0..Len(responseIn)
    /\ serverRest \in Seq(Byte) /\ answers \in 0..MaxAnswers
    /\ intact \in BOOLEAN /\ spliced \in BOOLEAN

\* As long as no reply has joined a part of a message, whole messages wait, and the client
\* has got whole messages.
StreamWhole ==
    /\ Whole(Stream) /\ Between(Stream, used)
    /\ \A i \in 1..Len(Stream) : Stream[i].kind \in AnswerKinds
    /\ lastOut.at = lastOut.of /\ intact

ResponseInv == ResponseTypes /\ (~spliced => StreamWhole)

LEMMA StartsBetween == ASSUME NEW s \in Seq(Byte), Whole(s) PROVE Between(s, 0)
<1>1. Len(s) \in Nat
  BY LenProperties
<1>2. SUFFICES ASSUME 0 < Len(s) PROVE s[1].at = 1
  BY DEF Between
<1>3. PICK b \in Nat : s[1].at \in Nat /\ 1 = b + s[1].at /\ s[1].at >= 1
  BY <1>1, <1>2, MessageAround
<1>4. QED
  BY <1>3

\* What a reply does to response_in and to the client.
Replied ==
    /\ responseIn' \in Seq(Byte) /\ Len(responseIn) <= Len(responseIn')
    /\ intact' \in BOOLEAN /\ spliced' \in BOOLEAN
    /\ ~spliced' =>
         /\ ~spliced /\ responseIn' = responseIn
         /\ intact => intact' \/ lastOut.at # lastOut.of
         /\ lastOut.at = lastOut.of => lastOut'.at = lastOut'.of

LEMMA Pushes ==
    ASSUME ResponseTypes, NEW bytes \in Seq(Byte), Whole(bytes), bytes # <<>>, PushReply(bytes)
    PROVE  Replied
<1>1. Len(bytes) \in Nat /\ bytes \in Seq(Byte) /\ Len(bytes) >= 1
  BY EmptySeq, LenProperties
<1>2. CASE responseIn # <<>>
  <2>1. responseIn' = responseIn \o bytes /\ spliced' = TRUE /\ UNCHANGED client
    BY <1>2 DEF PushReply
  <2>2. responseIn' \in Seq(Byte) /\ Len(responseIn') = Len(responseIn) + Len(bytes)
        /\ Len(responseIn) \in Nat
    BY <2>1, ConcatProperties, LenProperties DEF ResponseTypes
  <2>3. Len(responseIn) <= Len(responseIn')
    BY <1>1, <2>2
  <2>4. QED
    BY <2>1, <2>2, <2>3 DEF Replied, ResponseTypes, client
<1>3. CASE responseIn = <<>>
  <2>1. /\ lastOut' = bytes[Len(bytes)] /\ intact' = (intact /\ Continues(lastOut, bytes))
        /\ responseIn' = responseIn /\ spliced' = spliced
    BY <1>3 DEF PushReply, Show
  <2>2. Between(bytes, Len(bytes))
    BY <1>1 DEF Between
  <2>3. Len(bytes) \in 1..Len(bytes)
    BY <1>1
  <2>4. lastOut.at = lastOut.of =>
          Continues(lastOut, bytes) /\ lastOut'.at = lastOut'.of
    BY <2>1, <2>2, <2>3, ShowsWhole
  <2>5. intact' \in BOOLEAN
    BY <2>1 DEF ResponseTypes, Continues, Follows
  <2>6. Len(responseIn) <= Len(responseIn') /\ responseIn' \in Seq(Byte)
    BY <2>1, LenProperties DEF ResponseTypes
  <2>7. QED
    BY <2>1, <2>4, <2>5, <2>6 DEF Replied, ResponseTypes
<1>4. QED
  BY <1>2, <1>3

LEMMA JoinWhole ==
    ASSUME NEW s \in Seq(Byte), NEW t \in Seq(Byte), Whole(s), Whole(t), s # <<>>
    PROVE  s \o t \in Seq(Byte) /\ Whole(s \o t) /\ s \o t # <<>>
<1>1. s \o t \in Seq(Byte)
  BY ConcatProperties
<1>2. Whole(s \o t)
  BY WholeConcat
<1>3. s \o t # <<>>
  BY ConcatEqualIffEmpty
<1>4. QED
  BY <1>1, <1>2, <1>3

LEMMA RepliesWhole ==
    /\ SslReply \in Seq(Byte) /\ Whole(SslReply) /\ SslReply # <<>>
    /\ BlockReply \in Seq(Byte) /\ Whole(BlockReply) /\ BlockReply # <<>>
<1> DEFINE a == Bytes("reply", 7)
           b == Bytes("reply", 12)
           c == Bytes("reply", 6)
           d == Bytes("ssl", 1)
<1>1. /\ a \in Seq(Byte) /\ Len(a) = 7 /\ Whole(a) /\ b \in Seq(Byte) /\ Whole(b)
      /\ c \in Seq(Byte) /\ Whole(c) /\ d \in Seq(Byte) /\ Len(d) = 1 /\ Whole(d)
  BY BytesWhole
<1>2. BlockReply = (a \o b) \o c /\ SslReply = d
  BY DEF BlockReply, SslReply
<1> HIDE DEF a, b, c, d
<1>3. a # <<>> /\ d # <<>>
  <2>1. ASSUME a = <<>> PROVE FALSE
    <3>1. Len(a) = 0
      BY <2>1
    <3>2. QED
      BY <1>1, <3>1
  <2>2. ASSUME d = <<>> PROVE FALSE
    <3>1. Len(d) = 0
      BY <2>2
    <3>2. QED
      BY <1>1, <3>1
  <2>3. QED
    BY <2>1, <2>2
<1>4. a \o b \in Seq(Byte) /\ Whole(a \o b) /\ a \o b # <<>>
  BY <1>1, <1>3, JoinWhole
<1>5. (a \o b) \o c \in Seq(Byte) /\ Whole((a \o b) \o c) /\ (a \o b) \o c # <<>>
  BY <1>1, <1>4, JoinWhole
<1>6. QED
  BY <1>1, <1>2, <1>3, <1>5

LEMMA RequestSide ==
    ASSUME ResponseInv, Replied, used' \in {0, used}, UNCHANGED <<serverRest, answers>>,
           phase' \in Phases, hasResponse' \in BOOLEAN, secondPacket' \in BOOLEAN
    PROVE  ResponseInv'
<1>1. Len(responseIn) \in Nat /\ Len(responseIn') \in Nat
  BY LenProperties DEF ResponseInv, ResponseTypes, Replied
<1>2. used' \in 0..Len(responseIn')
  BY <1>1 DEF ResponseInv, ResponseTypes, Replied
<1>3. ResponseTypes'
  BY <1>2 DEF ResponseInv, ResponseTypes, Replied
<1>4. ASSUME ~spliced' PROVE StreamWhole'
  <2>1. Stream' = Stream /\ StreamWhole /\ intact' /\ lastOut'.at = lastOut'.of
    BY <1>3, <1>4 DEF Stream, Replied, ResponseInv, StreamWhole, ResponseTypes
  <2>2. Stream \in Seq(Byte)
    BY ConcatProperties DEF Stream, ResponseInv, ResponseTypes
  <2>3. Between(Stream, 0)
    BY <2>1, <2>2, StartsBetween DEF StreamWhole
  <2>4. QED
    BY <2>1, <2>3 DEF StreamWhole
<1>5. QED
  BY <1>3, <1>4 DEF ResponseInv

LEMMA NotReplied ==
    ASSUME ResponseInv, UNCHANGED <<responseIn, spliced, client>>
    PROVE  Replied
<1>1. Len(responseIn) \in Nat
  BY LenProperties DEF ResponseInv, ResponseTypes
<1>2. QED
  BY <1>1 DEF ResponseInv, ResponseTypes, Replied, client

LEMMA AfterIsTyped ==
    ASSUME NEW replied, AfterRequest(replied)
    PROVE  hasResponse' \in BOOLEAN /\ phase' \in Phases /\ used' \in {0, used}
<1>1. AnswerPhase(responseIn') \in Phases
  BY DEF AnswerPhase, Phases
<1>2. QED
  BY <1>1 DEF AfterRequest, Phases

LEMMA NextIsTyped ==
    ASSUME NEW replied \in BOOLEAN, NextRequest(replied)
    PROVE  hasResponse' \in BOOLEAN /\ phase' \in Phases /\ used' \in {0, used}
<1>1. CASE AfterRequest(replied)
  BY <1>1, AfterIsTyped
<1>2. CASE ~AfterRequest(replied)
  BY <1>2 DEF NextRequest, Phases
<1>3. QED
  BY <1>1, <1>2

LEMMA ClientStep == ASSUME ResponseInv, ClientBytes PROVE ResponseInv'
<1> USE DEF ResponseInv, ResponseTypes, Phases
<1>1. CASE RequestOfEight
  <2>1. /\ PushReply(SslReply) /\ AfterRequest(TRUE)
        /\ UNCHANGED <<serverRest, answers, secondPacket>>
    BY <1>1 DEF RequestOfEight
  <2>2. Replied
    BY <2>1, RepliesWhole, Pushes
  <2>3. hasResponse' \in BOOLEAN /\ phase' \in Phases /\ used' \in {0, used}
    BY <2>1, AfterIsTyped
  <2>4. QED
    BY <2>1, <2>2, <2>3, RequestSide
<1>2. CASE RequestTooShort \/ RequestFirst \/ RequestFramed
  <2>1. /\ UNCHANGED <<responseIn, used, secondPacket, serverRest, answers, client, spliced,
                       hasResponse>>
        /\ phase' \in Phases
    BY <1>2 DEF RequestTooShort, RequestFirst, RequestFramed, response
  <2>2. Replied
    BY <2>1, NotReplied
  <2>3. QED
    BY <2>1, <2>2, RequestSide
<1>3. QED
  BY <1>1, <1>2 DEF ClientBytes

LEMMA LoopStep == ASSUME ResponseInv, ParseOther \/ ParseQuery \/ RequestDone PROVE ResponseInv'
<1>1. hasResponse \in BOOLEAN /\ secondPacket \in BOOLEAN
  BY DEF ResponseInv, ResponseTypes
<1>2. CASE ParseOther
  <2>1. /\ UNCHANGED <<responseIn, spliced, client>> /\ NextRequest(hasResponse)
        /\ UNCHANGED <<serverRest, answers>>
    BY <1>2 DEF ParseOther
  <2>2. secondPacket' \in BOOLEAN
    BY <1>1, <1>2 DEF ParseOther
  <2>3. hasResponse' \in BOOLEAN /\ phase' \in Phases /\ used' \in {0, used}
    BY <1>1, <2>1, NextIsTyped
  <2>4. QED
    BY <2>1, <2>2, <2>3, NotReplied, RequestSide
<1>3. CASE ParseQuery
  <2>1. UNCHANGED <<serverRest, answers, secondPacket>>
    BY <1>3 DEF ParseQuery
  <2>2. CASE UNCHANGED <<responseIn, spliced, client>> /\ NextRequest(hasResponse)
    BY <1>1, <2>1, <2>2, NextIsTyped, NotReplied, RequestSide
  <2>3. CASE PushReply(BlockReply) /\ NextRequest(TRUE)
    <3>1. Replied
      BY <2>3, RepliesWhole, Pushes DEF ResponseInv
    <3>2. hasResponse' \in BOOLEAN /\ phase' \in Phases /\ used' \in {0, used}
      BY <2>3, NextIsTyped
    <3>3. QED
      BY <1>1, <2>1, <3>1, <3>2, RequestSide
  <2>4. QED
    BY <1>3, <2>2, <2>3 DEF ParseQuery
<1>4. CASE RequestDone
  <2>1. /\ UNCHANGED <<responseIn, spliced, client, secondPacket, serverRest, answers>>
        /\ AfterRequest(hasResponse)
    BY <1>4 DEF RequestDone
  <2>2. QED
    BY <1>1, <2>1, AfterIsTyped, NotReplied, RequestSide
<1>5. QED
  BY <1>2, <1>3, <1>4
\* The chunk that arrives moves from what the backend has still to send to response_in.
LEMMA ChunkArrives ==
    ASSUME NEW s \in Seq(Byte), NEW rest \in Seq(Byte), NEW n \in 0..Len(rest)
    PROVE  /\ s \o SubSeq(rest, 1, n) \in Seq(Byte)
           /\ SubSeq(rest, n + 1, Len(rest)) \in Seq(Byte)
           /\ (s \o SubSeq(rest, 1, n)) \o SubSeq(rest, n + 1, Len(rest)) = s \o rest
<1> DEFINE a == SubSeq(rest, 1, n)
           b == SubSeq(rest, n + 1, Len(rest))
<1>1. Len(rest) \in Nat /\ \A i \in 1..Len(rest) : rest[i] \in Byte
  BY LenProperties, ElementOfSeq
<1>2. a \in Seq(Byte) /\ Len(a) = n /\ \A i \in 1..n : a[i] = rest[i]
  <2>1. /\ a \in Seq(Byte) /\ Len(a) = IF 1 <= n THEN n - 1 + 1 ELSE 0
        /\ \A i \in 1..n - 1 + 1 : a[i] = rest[1 + i - 1]
    BY <1>1, SubSeqProperties
  <2>2. QED
    BY <1>1, <2>1
<1>3. b \in Seq(Byte) /\ Len(b) = Len(rest) - n /\ \A i \in 1..(Len(rest) - n) : b[i] = rest[n + i]
  <2>1. /\ b \in Seq(Byte) /\ Len(b) = IF n + 1 <= Len(rest) THEN Len(rest) - (n + 1) + 1 ELSE 0
        /\ \A i \in 1..Len(rest) - (n + 1) + 1 : b[i] = rest[n + 1 + i - 1]
    BY <1>1, SubSeqProperties
  <2>2. \A i \in 1..(Len(rest) - n) : n + 1 + i - 1 = n + i /\ i \in 1..Len(rest) - (n + 1) + 1
    BY <1>1
  <2>3. Len(b) = Len(rest) - n
    BY <1>1, <2>1
  <2>4. QED
    BY <2>1, <2>2, <2>3
<1> HIDE DEF a, b
<1>4. a \o b = rest
  <2>1. /\ a \o b \in Seq(Byte) /\ Len(a \o b) = Len(rest)
        /\ \A i \in 1..Len(rest) : (a \o b)[i] = IF i <= n THEN a[i] ELSE b[i - n]
    BY <1>1, <1>2, <1>3, ConcatProperties
  <2>2. ASSUME NEW i \in 1..Len(rest) PROVE (a \o b)[i] = rest[i]
    <3>1. CASE i <= n
      BY <1>2, <2>1, <3>1
    <3>2. CASE ~(i <= n)
      <4>1. i - n \in 1..(Len(rest) - n) /\ n + (i - n) = i
        BY <1>1, <3>2
      <4>2. QED
        BY <1>3, <2>1, <3>2, <4>1
    <3>3. QED
      BY <3>1, <3>2
  <2>3. QED
    BY <2>1, <2>2, SeqEqual
<1>5. (s \o a) \o b = s \o (a \o b)
  BY <1>2, <1>3, ConcatAssociative
<1>6. QED
  BY <1>2, <1>3, <1>4, <1>5, ConcatProperties DEF a, b

LEMMA BackendStep == ASSUME ResponseInv, BackendBytes PROVE ResponseInv'
<1>1. /\ responseIn \in Seq(Byte) /\ serverRest \in Seq(Byte) /\ answers \in 0..MaxAnswers
      /\ MaxAnswers \in Nat /\ Chunks \subseteq Nat \ {0}
  BY PgSessionAssumption DEF ResponseInv, ResponseTypes
<1>2. UNCHANGED <<secondPacket, client, hasResponse, spliced>> /\ used' = 0
      /\ phase' \in Phases
  BY DEF BackendBytes, AnswerPhase, Phases
<1>3. /\ responseIn' \in Seq(Byte) /\ serverRest' \in Seq(Byte) /\ answers' \in 0..MaxAnswers
      /\ ~spliced => Whole(Stream') /\ \A i \in 1..Len(Stream') : Stream'[i].kind \in AnswerKinds
  <2>1. PICK n \in Chunks :
         \/ /\ n <= Len(serverRest)
            /\ responseIn' = responseIn \o SubSeq(serverRest, 1, n)
            /\ serverRest' = SubSeq(serverRest, n + 1, Len(serverRest))
            /\ UNCHANGED answers
         \/ \E m \in Answers :
              LET rest == serverRest \o Bytes(m.kind, m.size)
              IN  /\ answers < MaxAnswers
                  /\ Len(serverRest) < n /\ n <= Len(rest)
                  /\ responseIn' = responseIn \o SubSeq(rest, 1, n)
                  /\ serverRest' = SubSeq(rest, n + 1, Len(rest))
                  /\ answers' = answers + 1
    BY DEF BackendBytes
  <2>2. n \in Nat
    BY <1>1
  <2>3. CASE /\ n <= Len(serverRest)
             /\ responseIn' = responseIn \o SubSeq(serverRest, 1, n)
             /\ serverRest' = SubSeq(serverRest, n + 1, Len(serverRest))
             /\ UNCHANGED answers
    <3>1. n \in 0..Len(serverRest)
      BY <1>1, <2>2, <2>3, LenProperties
    <3>2. responseIn' \in Seq(Byte) /\ serverRest' \in Seq(Byte) /\ Stream' = Stream
      BY <1>1, <2>3, <3>1, ChunkArrives DEF Stream
    <3>3. QED
      BY <1>1, <2>3, <3>2 DEF ResponseInv, StreamWhole
  <2>4. ASSUME NEW m \in Answers, answers < MaxAnswers,
               Len(serverRest) < n, n <= Len(serverRest \o Bytes(m.kind, m.size)),
               responseIn' = responseIn \o SubSeq(serverRest \o Bytes(m.kind, m.size), 1, n),
               serverRest' = SubSeq(serverRest \o Bytes(m.kind, m.size), n + 1,
                                    Len(serverRest \o Bytes(m.kind, m.size))),
               answers' = answers + 1
        PROVE  /\ responseIn' \in Seq(Byte) /\ serverRest' \in Seq(Byte)
               /\ answers' \in 0..MaxAnswers
               /\ ~spliced => /\ Whole(Stream')
                              /\ \A i \in 1..Len(Stream') : Stream'[i].kind \in AnswerKinds
    <3> DEFINE new == Bytes(m.kind, m.size)
               rest == serverRest \o new
    <3>1. m.kind \in AnswerKinds /\ m.size \in Nat
      BY PgSessionAssumption
    <3>2. /\ new \in Seq(Byte) /\ Len(new) = m.size /\ Whole(new)
          /\ \A i \in 1..Len(new) : new[i].kind \in AnswerKinds
      BY <3>1, BytesWhole
    <3>3. rest \in Seq(Byte) /\ Len(rest) \in Nat
      BY <1>1, <3>2, ConcatProperties, LenProperties
    <3>4. n \in 0..Len(rest)
      BY <2>2, <2>4, <3>3
    <3>5. responseIn' \in Seq(Byte) /\ serverRest' \in Seq(Byte)
          /\ responseIn' \o serverRest' = responseIn \o rest
      BY <1>1, <2>4, <3>3, <3>4, ChunkArrives
    <3> HIDE DEF new
    <3>6. Stream' = Stream \o new /\ Stream \in Seq(Byte)
      <4>1. responseIn \o rest = (responseIn \o serverRest) \o new
        BY <1>1, <3>2, ConcatAssociative
      <4>2. responseIn \o serverRest \in Seq(Byte)
        BY <1>1, ConcatProperties
      <4>3. QED
        BY <3>5, <4>1, <4>2 DEF Stream
    <3>7. ASSUME ~spliced
          PROVE  Whole(Stream') /\ \A i \in 1..Len(Stream') : Stream'[i].kind \in AnswerKinds
      <4>1. Whole(Stream) /\ \A i \in 1..Len(Stream) : Stream[i].kind \in AnswerKinds
        BY <3>7 DEF ResponseInv, StreamWhole
      <4>2. Whole(Stream \o new)
        BY <3>2, <3>6, <4>1, WholeConcat
      <4>3. /\ Len(Stream \o new) = Len(Stream) + Len(new) /\ Len(Stream) \in Nat /\ Len(new) \in Nat
            /\ \A i \in 1..Len(Stream) + Len(new) :
                 (Stream \o new)[i] = IF i <= Len(Stream) THEN Stream[i] ELSE new[i - Len(Stream)]
        BY <3>2, <3>6, ConcatProperties, LenProperties
      <4>4. ASSUME NEW i \in 1..Len(Stream) + Len(new)
            PROVE  (Stream \o new)[i].kind \in AnswerKinds
        <5>1. CASE i <= Len(Stream)
          BY <4>1, <4>3, <5>1
        <5>2. CASE ~(i <= Len(Stream))
          <6>1. i - Len(Stream) \in 1..Len(new)
            BY <4>3, <5>2
          <6>2. QED
            BY <3>2, <4>3, <5>2, <6>1
        <5>3. QED
          BY <5>1, <5>2
      <4>5. QED
        BY <3>6, <4>2, <4>3, <4>4
    <3>8. answers' \in 0..MaxAnswers
      BY <1>1, <2>4
    <3>9. QED
      BY <3>5, <3>7, <3>8
  <2>5. QED
    BY <2>1, <2>3, <2>4
<1>4. used' \in 0..Len(responseIn')
  BY <1>2, <1>3, LenProperties
<1>5. ResponseTypes'
  BY <1>2, <1>3, <1>4 DEF ResponseInv, ResponseTypes, client
<1>6. ASSUME ~spliced PROVE StreamWhole'
  <2>1. Stream' \in Seq(Byte)
    BY <1>3, ConcatProperties DEF Stream
  <2>2. Between(Stream', 0)
    BY <1>3, <1>6, <2>1, StartsBetween
  <2>3. QED
    BY <1>2, <1>3, <1>6, <2>2 DEF StreamWhole, ResponseInv, client
<1>7. QED
  BY <1>2, <1>5, <1>6 DEF ResponseInv
\* What is behind n in s, and t after it, is what is behind n in both.
LEMMA RestOfBoth ==
    ASSUME NEW s \in Seq(Byte), NEW t \in Seq(Byte), NEW n \in 0..Len(s)
    PROVE  /\ SubSeq(s, n + 1, Len(s)) \in Seq(Byte)
           /\ SubSeq(s, n + 1, Len(s)) \o t = SubSeq(s \o t, n + 1, Len(s \o t))
<1> DEFINE u == s \o t
           a == SubSeq(s, 1, n)
           b == SubSeq(s, n + 1, Len(s))
           c == SubSeq(u, n + 1, Len(u))
<1>1. /\ u \in Seq(Byte) /\ Len(u) = Len(s) + Len(t) /\ Len(s) \in Nat /\ Len(t) \in Nat
      /\ \A i \in 1..Len(s) + Len(t) : u[i] = IF i <= Len(s) THEN s[i] ELSE t[i - Len(s)]
  BY ConcatProperties, LenProperties
<1>2. b \in Seq(Byte) /\ Len(b) = Len(s) - n /\ \A i \in 1..(Len(s) - n) : b[i] = s[n + i]
  <2>1. \A i \in (n + 1)..Len(s) : s[i] \in Byte
    BY <1>1, ElementOfSeq
  <2>2. /\ b \in Seq(Byte) /\ Len(b) = IF n + 1 <= Len(s) THEN Len(s) - (n + 1) + 1 ELSE 0
        /\ \A i \in 1..Len(s) - (n + 1) + 1 : b[i] = s[n + 1 + i - 1]
    BY <1>1, <2>1, SubSeqProperties
  <2>3. \A i \in 1..(Len(s) - n) : n + 1 + i - 1 = n + i /\ i \in 1..Len(s) - (n + 1) + 1
    BY <1>1
  <2>4. Len(b) = Len(s) - n
    BY <1>1, <2>2
  <2>5. QED
    BY <2>2, <2>3, <2>4
<1>3. c \in Seq(Byte) /\ Len(c) = Len(u) - n /\ \A i \in 1..(Len(u) - n) : c[i] = u[n + i]
  <2>1. \A i \in (n + 1)..Len(u) : u[i] \in Byte
    BY <1>1, ElementOfSeq
  <2>2. /\ c \in Seq(Byte) /\ Len(c) = IF n + 1 <= Len(u) THEN Len(u) - (n + 1) + 1 ELSE 0
        /\ \A i \in 1..Len(u) - (n + 1) + 1 : c[i] = u[n + 1 + i - 1]
    BY <1>1, <2>1, SubSeqProperties
  <2>3. \A i \in 1..(Len(u) - n) : n + 1 + i - 1 = n + i /\ i \in 1..Len(u) - (n + 1) + 1
    BY <1>1
  <2>4. Len(c) = Len(u) - n
    BY <1>1, <2>2
  <2>5. QED
    BY <2>2, <2>3, <2>4
<1> HIDE DEF b, c, u
<1>4. /\ b \o t \in Seq(Byte) /\ Len(b \o t) = Len(c)
      /\ \A i \in 1..Len(c) : (b \o t)[i] = IF i <= Len(b) THEN b[i] ELSE t[i - Len(b)]
  <2>1. /\ b \o t \in Seq(Byte) /\ Len(b \o t) = Len(b) + Len(t)
        /\ \A i \in 1..Len(b) + Len(t) : (b \o t)[i] = IF i <= Len(b) THEN b[i] ELSE t[i - Len(b)]
    BY <1>2, ConcatProperties
  <2>2. Len(b) + Len(t) = Len(c)
    BY <1>1, <1>2, <1>3
  <2>3. QED
    BY <2>1, <2>2
<1>5. ASSUME NEW i \in 1..Len(c) PROVE (b \o t)[i] = c[i]
  <2>1. c[i] = u[n + i] /\ n + i \in 1..Len(s) + Len(t)
    BY <1>1, <1>3
  <2>2. CASE i <= Len(b)
    <3>1. b[i] = s[n + i] /\ n + i <= Len(s)
      BY <1>1, <1>2, <2>2
    <3>2. QED
      BY <1>1, <1>4, <2>1, <2>2, <3>1
  <2>3. CASE ~(i <= Len(b))
    <3>1. n + i - Len(s) = i - Len(b) /\ ~(n + i <= Len(s))
      BY <1>1, <1>2, <1>3, <2>3
    <3>2. QED
      BY <1>1, <1>4, <2>1, <2>3, <3>1
  <2>4. QED
    BY <2>2, <2>3
<1>6. b \o t = c
  BY <1>3, <1>4, <1>5, SeqEqual
<1>7. QED
  BY <1>2, <1>6 DEF b, c, u

\* response_in and what follows it.
LEMMA StreamBegins ==
    ASSUME ResponseTypes
    PROVE  /\ Stream \in Seq(Byte) /\ Len(responseIn) \in Nat /\ Len(Stream) \in Nat
           /\ Len(responseIn) <= Len(Stream)
           /\ \A i \in 1..Len(responseIn) : Stream[i] = responseIn[i] /\ responseIn[i] \in Byte
<1>1. /\ responseIn \in Seq(Byte) /\ serverRest \in Seq(Byte)
      /\ Len(responseIn) \in Nat /\ Len(serverRest) \in Nat
  BY LenProperties DEF ResponseTypes
<1>2. /\ Stream \in Seq(Byte) /\ Len(Stream) = Len(responseIn) + Len(serverRest)
      /\ \A i \in 1..Len(responseIn) + Len(serverRest) :
           Stream[i] = IF i <= Len(responseIn) THEN responseIn[i] ELSE serverRest[i - Len(responseIn)]
  BY <1>1, ConcatProperties DEF Stream
<1>3. \A i \in 1..Len(responseIn) : responseIn[i] \in Byte
  BY <1>1, ElementOfSeq
<1>4. QED
  BY <1>1, <1>2, <1>3

LEMMA NextAnswerStep ==
    ASSUME ResponseInv, garbage \in Garbage, NextAnswer
    PROVE  ResponseInv'
<1> DEFINE b == responseIn[used + 1]
<1>1. /\ used' = used + AnswerSize /\ AnswerLeft >= 5 /\ AnswerSize <= AnswerLeft
      /\ UNCHANGED <<phase, responseIn, secondPacket, serverRest, answers, client, hasResponse,
                     spliced>>
  BY DEF NextAnswer, AnswerComplete
<1>2. /\ used \in Nat /\ used <= Len(responseIn) /\ Len(responseIn) \in Nat
      /\ Len(Stream) \in Nat /\ Len(responseIn) <= Len(Stream) /\ Stream \in Seq(Byte)
  BY StreamBegins DEF ResponseInv, ResponseTypes
<1>3. used + 1 \in 1..Len(responseIn) /\ used \in 0..Len(Stream) /\ used < Len(Stream)
  BY <1>1, <1>2 DEF AnswerLeft
<1>4. b \in Byte /\ Stream[used + 1] = b
  BY <1>3, StreamBegins DEF ResponseInv
<1>5. AnswerSize \in Nat
  <2>1. b.of \in Nat
    BY <1>4, ByteNats
  <2>2. garbage.size \in Nat
    BY PgSessionAssumption
  <2>3. QED
    BY <2>1, <2>2 DEF AnswerSize
<1>6. used' \in 0..Len(responseIn)
  BY <1>1, <1>2, <1>5 DEF AnswerLeft
<1>7. ResponseTypes'
  BY <1>1, <1>6 DEF ResponseInv, ResponseTypes, client
<1>8. ASSUME ~spliced PROVE StreamWhole'
  <2>1. Whole(Stream) /\ Between(Stream, used) /\ b.kind \in AnswerKinds
    <3>1. used + 1 \in 1..Len(Stream)
      BY <1>2, <1>3
    <3>2. QED
      BY <1>4, <1>8, <3>1 DEF ResponseInv, StreamWhole
  <2>2. b.at = 1
    BY <1>3, <1>4, <2>1 DEF Between
  <2>3. AnswerSize = b.of
    BY <2>1, <2>2 DEF AnswerSize, AnswerKinds
  <2>4. Between(Stream, used')
    BY <1>1, <1>2, <1>3, <1>4, <2>1, <2>3, NextPlace
  <2>5. Stream' = Stream
    BY <1>1 DEF Stream
  <2>6. QED
    BY <1>1, <1>8, <2>4, <2>5 DEF ResponseInv, StreamWhole, client
<1>9. QED
  BY <1>1, <1>7, <1>8 DEF ResponseInv

LEMMA ReleaseStep ==
    ASSUME ResponseInv, Release, secondPacket' \in BOOLEAN,
           UNCHANGED <<serverRest, answers, hasResponse, spliced>>
    PROVE  ResponseInv'
<1> DEFINE out == SubSeq(responseIn, 1, used)
<1>1. /\ phase' = "idle" /\ used' = 0 /\ Show(out)
      /\ responseIn' = SubSeq(responseIn, used + 1, Len(responseIn))
  BY DEF Release
<1>2. /\ used \in 0..Len(responseIn) /\ Len(responseIn) \in Nat
      /\ Len(Stream) \in Nat /\ Len(responseIn) <= Len(Stream) /\ Stream \in Seq(Byte)
      /\ responseIn \in Seq(Byte) /\ serverRest \in Seq(Byte)
  BY StreamBegins DEF ResponseInv, ResponseTypes
<1>3. responseIn' \in Seq(Byte) /\ Stream' = SubSeq(Stream, used + 1, Len(Stream))
  BY <1>1, <1>2, RestOfBoth DEF Stream
<1>4. Stream' \in Seq(Byte) /\ Len(Stream') = Len(Stream) - used
      /\ \A i \in 1..(Len(Stream) - used) : Stream'[i] = Stream[used + i]
  <2>1. \A i \in (used + 1)..Len(Stream) : Stream[i] \in Byte
    BY <1>2, ElementOfSeq
  <2>2. /\ Stream' \in Seq(Byte)
        /\ Len(Stream') = IF used + 1 <= Len(Stream) THEN Len(Stream) - (used + 1) + 1 ELSE 0
        /\ \A i \in 1..Len(Stream) - (used + 1) + 1 : Stream'[i] = Stream[used + 1 + i - 1]
    BY <1>2, <1>3, <2>1, SubSeqProperties
  <2>3. \A i \in 1..(Len(Stream) - used) :
          used + 1 + i - 1 = used + i /\ i \in 1..Len(Stream) - (used + 1) + 1
    BY <1>2
  <2>4. Len(Stream') = Len(Stream) - used
    BY <1>2, <2>2
  <2>5. QED
    BY <2>2, <2>3, <2>4
<1>5. out \in Seq(Byte) /\ Len(out) = used /\ \A i \in 1..used : out[i] = Stream[i]
  <2>1. \A i \in 1..used : responseIn[i] \in Byte /\ Stream[i] = responseIn[i]
    <3>1. \A i \in 1..Len(responseIn) : Stream[i] = responseIn[i]
      <4>1. ResponseTypes
        BY DEF ResponseInv
      <4>2. QED
        BY <4>1, StreamBegins
    <3>2. \A i \in 1..Len(responseIn) : responseIn[i] \in Byte
      BY <1>2, ElementOfSeq
    <3>3. \A i \in 1..used : i \in 1..Len(responseIn)
      BY <1>2
    <3>4. QED
      BY <3>1, <3>2, <3>3
  <2>2. /\ out \in Seq(Byte) /\ Len(out) = IF 1 <= used THEN used - 1 + 1 ELSE 0
        /\ \A i \in 1..used - 1 + 1 : out[i] = responseIn[1 + i - 1]
    BY <1>2, <2>1, SubSeqProperties
  <2>3. \A i \in 1..used : 1 + i - 1 = i /\ i \in 1..used - 1 + 1
    BY <1>2
  <2>4. Len(out) = used
    BY <1>2, <2>2
  <2>5. QED
    BY <2>1, <2>2, <2>3, <2>4
<1> HIDE DEF out
<1>6. /\ out = <<>> => UNCHANGED <<lastOut, intact>>
      /\ out # <<>> => /\ lastOut' = out[Len(out)]
                       /\ intact' = (intact /\ Continues(lastOut, out))
  BY <1>1 DEF Show, client
<1>7. intact' \in BOOLEAN
  BY <1>6 DEF ResponseInv, ResponseTypes, Continues, Follows
<1>8. used' \in 0..Len(responseIn')
  BY <1>1, <1>3, LenProperties
<1>9. ResponseTypes'
  BY <1>1, <1>3, <1>7, <1>8 DEF ResponseInv, ResponseTypes, Phases
<1>10. ASSUME ~spliced PROVE StreamWhole'
  <2>1. /\ Whole(Stream) /\ Between(Stream, used) /\ lastOut.at = lastOut.of /\ intact
        /\ \A i \in 1..Len(Stream) : Stream[i].kind \in AnswerKinds
    BY <1>10 DEF ResponseInv, StreamWhole
  <2>2. used \in 0..Len(Stream)
    BY <1>2
  <2>3. Whole(Stream')
    BY <1>2, <1>3, <2>1, <2>2, WholeBehind
  <2>4. Between(Stream', 0)
    BY <1>4, <2>3, StartsBetween
  <2>5. \A i \in 1..Len(Stream') : Stream'[i].kind \in AnswerKinds
    <3>1. \A i \in 1..(Len(Stream) - used) : used + i \in 1..Len(Stream)
      BY <1>2
    <3>2. QED
      BY <1>4, <2>1, <3>1
  <2>6. lastOut'.at = lastOut'.of /\ intact'
    <3>1. CASE out = <<>>
      BY <1>6, <2>1, <3>1
    <3>2. CASE out # <<>>
      <4>1. used \in 1..Len(Stream)
        <5>1. Len(out) \in Nat \ {0}
          BY <1>5, <3>2, EmptySeq
        <5>2. QED
          BY <1>2, <1>5, <5>1
      <4>2. Continues(lastOut, out) /\ out[Len(out)].at = out[Len(out)].of
        BY <1>2, <1>5, <2>1, <4>1, ShowsWhole
      <4>3. QED
        BY <1>6, <2>1, <3>2, <4>2
    <3>3. QED
      BY <3>1, <3>2
  <2>7. QED
    BY <1>1, <2>3, <2>4, <2>5, <2>6 DEF StreamWhole
<1>11. QED
  BY <1>9, <1>10 DEF ResponseInv

LEMMA WaitStep == ASSUME ResponseInv, ParseWaits PROVE ResponseInv'
<1>1. /\ phase' \in Phases /\ used' = 0 /\ client' = client
      /\ UNCHANGED <<responseIn, secondPacket, serverRest, answers, client, hasResponse, spliced>>
  BY DEF ParseWaits, Phases
<1>2. hasResponse' \in BOOLEAN /\ secondPacket' \in BOOLEAN
  BY <1>1 DEF ResponseInv, ResponseTypes
<1>3. QED
  BY <1>1, <1>2, NotReplied, RequestSide

LEMMA InitResponse == Init => ResponseInv
<1> SUFFICES ASSUME Init PROVE ResponseInv
  OBVIOUS
<1>1. /\ phase = "idle" /\ secondPacket = FALSE /\ hasResponse = FALSE /\ responseIn = <<>>
      /\ used = 0 /\ serverRest = <<>> /\ answers = 0 /\ intact = TRUE /\ spliced = FALSE
      /\ lastOut = NoByte
  BY DEF Init
<1>2. <<>> \in Seq(Byte) /\ Len(<<>>) = 0
  BY EmptySeq
<1>3. Stream = <<>>
  BY <1>1, <1>2, ConcatEmptySeq DEF Stream
<1>4. StreamWhole
  BY <1>1, <1>2, <1>3 DEF StreamWhole, Whole, Between, NoByte
<1>5. ResponseTypes
  <2>1. used \in 0..Len(responseIn)
    BY <1>1, <1>2
  <2>2. answers \in 0..MaxAnswers
    BY <1>1, PgSessionAssumption
  <2>3. responseIn \in Seq(Byte) /\ serverRest \in Seq(Byte)
    BY <1>1, <1>2
  <2>4. phase \in Phases
    BY <1>1 DEF Phases
  <2>5. QED
    BY <1>1, <2>1, <2>2, <2>3, <2>4, Zenon DEF ResponseTypes
<1>6. QED
  BY <1>4, <1>5 DEF ResponseInv

LEMMA StepResponse ==
    ASSUME RequestInv, ResponseInv, [Next]_vars PROVE ResponseInv'
<1>1. CASE ClientBytes
  BY <1>1, ClientStep
<1>2. CASE ParseOther \/ ParseQuery \/ RequestDone
  BY <1>2, LoopStep
<1>3. CASE BackendBytes
  BY <1>3, BackendStep
<1>4. CASE NextAnswer
  BY <1>4, NextAnswerStep DEF RequestInv
<1>5. CASE FastDone
  <2>1. secondPacket' \in BOOLEAN
    BY <1>5 DEF FastDone, ResponseInv, ResponseTypes
  <2>2. QED
    BY <1>5, <2>1, ReleaseStep DEF FastDone
<1>6. CASE ParseDone
  BY <1>6, ReleaseStep DEF ParseDone
<1>7. CASE ParseWaits
  BY <1>7, WaitStep
<1>8. CASE UNCHANGED vars
  BY <1>8 DEF vars, response, client, ResponseInv, ResponseTypes, StreamWhole, Stream
<1>9. QED
  BY <1>1, <1>2, <1>3, <1>4, <1>5, <1>6, <1>7, <1>8 DEF Next

-----------------------------------------------------------------------------
(* The theorems.                                                           *)

Inv == RequestInv /\ ResponseInv

THEOREM Invariance == ASSUME StartupNamesUser PROVE Spec => []Inv
<1>1. Init => Inv
  BY InitRequest, InitResponse DEF Inv
<1>2. Inv /\ [Next]_vars => Inv'
  BY StepRequest, StepResponse DEF Inv
<1>3. QED
  BY <1>1, <1>2, PTL DEF Spec

\* The buffers, cursors and flags of a PostgreSQL connection keep their types.
THEOREM TypeCorrect == ASSUME StartupNamesUser PROVE Spec => []TypeOK
<1>1. Inv => TypeOK
  <2> SUFFICES ASSUME Inv PROVE TypeOK
    OBVIOUS
  <2>1. RequestInv /\ ResponseTypes
    BY DEF Inv, ResponseInv
  <2>2. Sent = End(messages) /\ messages \in Seq([kind : RequestKinds, from : Nat, to : Nat])
    BY <2>1, SentIsEnd DEF RequestInv, Framed, MessageType
  <2>3. QED
    BY <2>1, <2>2 DEF RequestInv, ResponseTypes, Phases, TypeOK
<1>2. QED
  BY <1>1, Invariance, PTL

\* However recv cuts the client's stream, each query that leaves request_in was examined,
\* as long as the eight-byte rule has dropped whole messages only.
THEOREM QueriesAreChecked == ASSUME StartupNamesUser PROVE Spec => []QueriesChecked
<1>1. Inv => QueriesChecked
  <2> SUFFICES ASSUME Inv, InFrame,
                      NEW i \in DOMAIN messages, messages[i].to <= taken,
                      messages[i].kind \in {"query", "parse"},
                      messages[i].to - messages[i].from # 16
               PROVE  <<messages[i].from, messages[i].to>> \in checked \cup dropped
    BY DEF QueriesChecked
  <2>1. RequestInv /\ Framed(messages)
    BY DEF Inv, RequestInv
  <2>2. Within(dropped, messages)
    BY <2>1, SentIsEnd DEF InFrame, Within
  <2>3. Examined(messages, taken, checked \cup dropped)
    BY <2>1, <2>2 DEF RequestInv, Cursors
  <2>4. QED
    BY <2>1, <2>3, Constant DEF Examined
<1>2. QED
  BY <1>1, Invariance, PTL

\* A complete message of the client never waits for bytes behind it.
THEOREM NothingWaits == ASSUME StartupNamesUser PROVE Spec => []NothingCompleteWaits
<1>1. Inv => NothingCompleteWaits
  <2> SUFFICES ASSUME Inv, phase = "idle", taken \in Boundaries,
                      NEW i \in DOMAIN messages, messages[i].to <= received
               PROVE  messages[i].to <= taken
    BY DEF NothingCompleteWaits
  <2>1. RequestInv /\ Framed(messages)
    BY DEF Inv, RequestInv
  <2>2. taken \in Ends(messages) /\ AllTaken(messages, taken, received)
    BY <2>1, SentIsEnd DEF RequestInv, NoneWaits
  <2>3. QED
    BY <2>1, <2>2, Constant DEF AllTaken
<1>2. QED
  BY <1>1, Invariance, PTL

\* The client sees whole messages, one after the other, unless a reply was pushed behind a
\* part of one.
THEOREM AnswersAreWhole == ASSUME StartupNamesUser PROVE Spec => []WholeAnswers
<1>1. Inv => WholeAnswers
  BY DEF Inv, ResponseInv, StreamWhole, WholeAnswers
<1>2. QED
  BY <1>1, Invariance, PTL
=============================================================================
