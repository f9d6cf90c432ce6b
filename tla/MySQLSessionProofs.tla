------------------------- MODULE MySQLSessionProofs -------------------------
(***************************************************************************)
(* Proofs about MySQLSession, for any messages, any databases and any cut  *)
(* of both streams: types, that the client is given whole messages, and    *)
(* that queries are judged for the database they are executed in.          *)
(***************************************************************************)
EXTENDS MySQLSession, SequenceTheorems, FiniteSetTheorems, TLAPS

-----------------------------------------------------------------------------
(* Streams of whole messages.                                              *)

Kinds == {"greeting", "reply", "ok", "error", "row", "eof"}

Byte == [kind : Kinds, at : Nat \ {0}, of : Nat \ {0}]

\* The stream begins and ends with a message, its bytes follow each other, and each message
\* has its end.
Whole(s) ==
    /\ s # <<>> => s[1].at = 1 /\ s[Len(s)].at = s[Len(s)].of
    /\ \A i \in 1..(Len(s) - 1) : Follows(s[i], s[i + 1])
    /\ \A i \in 1..Len(s) : s[i].at = 1 =>
         /\ i + s[i].of - 1 <= Len(s)
         /\ s[i + s[i].of - 1].at = s[i + s[i].of - 1].of

\* A message ends at p.
Between(s, p) == p < Len(s) => s[p + 1].at = 1

\* What the stream s has behind p is t.
Behind(s, p, t) == Len(t) = Len(s) - p /\ \A i \in 1..Len(t) : t[i] = s[p + i]

\* The bytes of one message.
IsMessage(s, kind, size) ==
    /\ s \in Seq(Byte) /\ Len(s) = size
    /\ \A i \in 1..size : s[i].kind = kind /\ s[i].at = i /\ s[i].of = size

IsEnd(b) == b.kind \in Ends /\ b.at = b.of

\* An answer: the last of its bytes, and no other, ends a message that ends it.
EndsOnce(s) == \A i \in 1..Len(s) : IsEnd(s[i]) <=> i = Len(s)

LEMMA AByte ==
    ASSUME NEW s \in Seq(Byte), NEW i \in 1..Len(s)
    PROVE  s[i].at \in Nat \ {0} /\ s[i].of \in Nat \ {0}
<1>1. s[i] \in Byte
  BY ElementOfSeq
<1>2. QED
  BY <1>1 DEF Byte

LEMMA Lengths ==
    ASSUME NEW s \in Seq(Byte)
    PROVE  Len(s) \in Nat /\ (s = <<>> <=> Len(s) = 0) /\ DOMAIN s = 1..Len(s)
BY LenProperties, EmptySeq

LEMMA Parts ==
    ASSUME NEW s \in Seq(Byte), NEW t \in Seq(Byte)
    PROVE  /\ s \o t \in Seq(Byte) /\ Len(s \o t) = Len(s) + Len(t)
           /\ Len(s) \in Nat /\ Len(t) \in Nat
           /\ \A i \in 1..Len(s) : (s \o t)[i] = s[i]
           /\ \A i \in 1..Len(t) : (s \o t)[Len(s) + i] = t[i]
<1> DEFINE u == s \o t
<1>1. /\ u \in Seq(Byte) /\ Len(u) = Len(s) + Len(t) /\ Len(s) \in Nat /\ Len(t) \in Nat
      /\ \A i \in 1..Len(s) + Len(t) : u[i] = IF i <= Len(s) THEN s[i] ELSE t[i - Len(s)]
  BY ConcatProperties, LenProperties
<1> HIDE DEF u
<1>2. \A i \in 1..Len(t) : Len(s) + i - Len(s) = i /\ Len(s) + i \in 1..Len(s) + Len(t)
                           /\ ~(Len(s) + i <= Len(s))
  BY <1>1
<1>3. QED
  BY <1>1, <1>2 DEF u

LEMMA BytesAre ==
    ASSUME NEW kind \in Kinds, NEW size \in Nat \ {0}
    PROVE  IsMessage(Bytes(kind, size), kind, size) /\ Whole(Bytes(kind, size))
<1> DEFINE s == Bytes(kind, size)
<1>1. s \in [1..size -> Byte]
  BY DEF Bytes, Byte
<1>2. s \in Seq(Byte) /\ Len(s) = size
  BY <1>1, SeqDef
<1>3. \A i \in 1..size : s[i].kind = kind /\ s[i].at = i /\ s[i].of = size
  BY DEF Bytes
<1> HIDE DEF s
<1>4. \A i \in 1..(size - 1) : Follows(s[i], s[i + 1])
  <2> SUFFICES ASSUME NEW i \in 1..(size - 1) PROVE Follows(s[i], s[i + 1])
    OBVIOUS
  <2>1. i \in 1..size /\ i + 1 \in 1..size /\ i # size
    OBVIOUS
  <2>2. QED
    BY <1>3, <2>1 DEF Follows
<1>5. Whole(s)
  BY <1>2, <1>3, <1>4 DEF Whole
<1>6. IsMessage(s, kind, size)
  BY <1>2, <1>3 DEF IsMessage
<1>7. QED
  BY <1>5, <1>6 DEF s

\* A byte whose message is over is followed by the first byte of another one, and the other
\* way round.
LEMMA Joint ==
    ASSUME NEW s \in Seq(Byte), Whole(s), NEW p \in 1..Len(s)
    PROVE  s[p].at = s[p].of <=> Between(s, p)
<1>1. Len(s) \in Nat /\ (s = <<>> <=> Len(s) = 0)
  BY Lengths
<1>2. CASE p = Len(s)
  BY <1>1, <1>2 DEF Between, Whole
<1>3. CASE p < Len(s)
  <2>1. p \in 1..(Len(s) - 1) /\ p + 1 \in 1..Len(s)
    BY <1>1, <1>3
  <2>2. Follows(s[p], s[p + 1])
    BY <2>1 DEF Whole
  <2>3. s[p].at \in Nat \ {0}
    BY AByte
  <2>4. QED
    BY <1>3, <2>2, <2>3 DEF Follows, Between
<1>4. QED
  BY <1>1, <1>2, <1>3

LEMMA WholeConcat ==
    ASSUME NEW s \in Seq(Byte), NEW t \in Seq(Byte), Whole(s), Whole(t)
    PROVE  Whole(s \o t)
<1> DEFINE u == s \o t
           m == Len(s)
           n == Len(t)
<1>1. /\ u \in Seq(Byte) /\ Len(u) = m + n /\ m \in Nat /\ n \in Nat
      /\ \A i \in 1..m : u[i] = s[i]
      /\ \A i \in 1..n : u[m + i] = t[i]
  BY Parts
<1>2. (s = <<>> <=> m = 0) /\ (t = <<>> <=> n = 0) /\ (u = <<>> <=> m + n = 0)
  BY <1>1, Lengths
<1> HIDE DEF u, m, n
<1>3. /\ m # 0 => s[1].at = 1 /\ s[m].at = s[m].of
      /\ \A i \in 1..(m - 1) : Follows(s[i], s[i + 1])
      /\ \A i \in 1..m : s[i].at = 1 => /\ i + s[i].of - 1 <= m
                                        /\ s[i + s[i].of - 1].at = s[i + s[i].of - 1].of
  BY <1>2 DEF Whole, m
<1>4. /\ n # 0 => t[1].at = 1 /\ t[n].at = t[n].of
      /\ \A i \in 1..(n - 1) : Follows(t[i], t[i + 1])
      /\ \A i \in 1..n : t[i].at = 1 => /\ i + t[i].of - 1 <= n
                                        /\ t[i + t[i].of - 1].at = t[i + t[i].of - 1].of
  BY <1>2 DEF Whole, n
<1>5. ASSUME m + n # 0 PROVE u[1].at = 1 /\ u[m + n].at = u[m + n].of
  <2>1. CASE n = 0
    BY <1>1, <1>3, <1>5, <2>1
  <2>2. CASE n # 0 /\ m # 0
    <3>1. 1 \in 1..m /\ n \in 1..n
      BY <1>1, <2>2
    <3>2. u[1] = s[1] /\ u[m + n] = t[n]
      BY <1>1, <3>1
    <3>3. QED
      BY <1>3, <1>4, <2>2, <3>2
  <2>3. CASE n # 0 /\ m = 0
    <3>1. u[0 + 1] = t[1] /\ u[m + n] = t[n]
      BY <1>1, <2>3
    <3>2. QED
      BY <1>4, <2>3, <3>1
  <2>4. QED
    BY <2>1, <2>2, <2>3
<1>6. ASSUME NEW i \in 1..(m + n - 1) PROVE Follows(u[i], u[i + 1])
  <2>1. CASE i < m
    <3>1. i \in 1..m /\ i + 1 \in 1..m /\ i \in 1..(m - 1)
      BY <1>1, <2>1
    <3>2. u[i] = s[i] /\ u[i + 1] = s[i + 1]
      BY <1>1, <3>1
    <3>3. QED
      BY <1>3, <3>1, <3>2
  <2>2. CASE i = m
    <3>1. u[i] = s[m] /\ u[i + 1] = t[1] /\ n # 0 /\ m # 0
      BY <1>1, <2>2
    <3>2. QED
      BY <1>3, <1>4, <3>1 DEF Follows
  <2>3. CASE i > m
    <3> DEFINE j == i - m
    <3>1. j \in 1..(n - 1) /\ j \in 1..n /\ j + 1 \in 1..n /\ m + j = i /\ m + (j + 1) = i + 1
      BY <1>1, <2>3
    <3> HIDE DEF j
    <3>2. u[i] = t[j] /\ u[i + 1] = t[j + 1]
      BY <1>1, <3>1
    <3>3. QED
      BY <1>4, <3>1, <3>2
  <2>4. QED
    BY <1>1, <2>1, <2>2, <2>3
<1>7. ASSUME NEW i \in 1..(m + n), u[i].at = 1
      PROVE  /\ i + u[i].of - 1 <= m + n
             /\ u[i + u[i].of - 1].at = u[i + u[i].of - 1].of
  <2>1. CASE i <= m
    <3>1. i \in 1..m /\ u[i] = s[i] /\ s[i].of \in Nat \ {0}
      BY <1>1, <2>1, AByte DEF m
    <3> DEFINE e == i + s[i].of - 1
    <3>2. e \in 1..m /\ s[e].at = s[e].of
      BY <1>1, <1>3, <1>7, <3>1
    <3>3. u[e] = s[e] /\ e <= m + n
      BY <1>1, <3>2
    <3>4. QED
      BY <3>1, <3>2, <3>3
  <2>2. CASE i > m
    <3> DEFINE j == i - m
    <3>1. j \in 1..n /\ m + j = i
      BY <1>1, <2>2
    <3> HIDE DEF j
    <3>2. u[i] = t[j] /\ t[j].of \in Nat \ {0}
      BY <1>1, <3>1, AByte DEF n
    <3> DEFINE of == t[j].of
               e  == j + of - 1
    <3>3. e <= n /\ t[e].at = t[e].of
      BY <1>4, <1>7, <3>1, <3>2
    <3>4. of \in Nat /\ of >= 1 /\ u[i].of = of
      BY <3>2
    <3> HIDE DEF of
    <3>5. e \in 1..n /\ m + e = i + of - 1 /\ m + e <= m + n
      BY <1>1, <3>1, <3>3, <3>4
    <3> HIDE DEF e
    <3>6. u[m + e] = t[e]
      BY <1>1, <3>5
    <3>7. QED
      BY <3>3, <3>4, <3>5, <3>6
  <2>3. QED
    BY <1>1, <2>1, <2>2
<1>8. Whole(u)
  BY <1>1, <1>2, <1>5, <1>6, <1>7 DEF Whole
<1>9. QED
  BY <1>8 DEF u

\* What follows the end of a message is whole.
LEMMA WholeBehind ==
    ASSUME NEW s \in Seq(Byte), NEW t \in Seq(Byte), Whole(s),
           NEW p \in 0..Len(s), Between(s, p), Behind(s, p, t)
    PROVE  Whole(t)
<1>1. /\ Len(s) \in Nat /\ Len(t) = Len(s) - p /\ (s = <<>> <=> Len(s) = 0)
      /\ (t = <<>> <=> Len(t) = 0) /\ \A i \in 1..Len(t) : t[i] = s[p + i]
  BY Lengths DEF Behind
<1>2. ASSUME Len(t) # 0 PROVE t[1].at = 1 /\ t[Len(t)].at = t[Len(t)].of
  <2>1. /\ 1 \in 1..Len(t) /\ Len(t) \in 1..Len(t) /\ p + Len(t) = Len(s) /\ Len(s) # 0
        /\ p < Len(s)
    BY <1>1, <1>2
  <2>2. t[1] = s[p + 1] /\ t[Len(t)] = s[Len(s)]
    BY <1>1, <2>1
  <2>3. QED
    BY <1>1, <2>1, <2>2 DEF Whole, Between
<1>3. ASSUME NEW i \in 1..(Len(t) - 1) PROVE Follows(t[i], t[i + 1])
  <2>1. t[i] = s[p + i] /\ t[i + 1] = s[p + (i + 1)]
    BY <1>1
  <2>2. p + i \in 1..(Len(s) - 1) /\ p + i + 1 = p + (i + 1)
    BY <1>1
  <2>3. Follows(s[p + i], s[p + i + 1])
    BY <2>2 DEF Whole
  <2>4. QED
    BY <2>1, <2>2, <2>3
<1>4. ASSUME NEW i \in 1..Len(t), t[i].at = 1
      PROVE  /\ i + t[i].of - 1 <= Len(t)
             /\ t[i + t[i].of - 1].at = t[i + t[i].of - 1].of
  <2> DEFINE k  == p + i
             of == t[i].of
             e  == i + of - 1
             f  == k + of - 1
  <2>1. k \in 1..Len(s) /\ t[i] = s[k]
    BY <1>1
  <2>2. of \in Nat /\ of >= 1
    BY AByte
  <2>3. f <= Len(s) /\ s[f].at = s[f].of
    BY <1>4, <2>1 DEF Whole
  <2> HIDE DEF of
  <2>4. f = p + e /\ e \in 1..Len(t)
    BY <1>1, <2>2, <2>3
  <2> HIDE DEF e, f
  <2>5. t[e] = s[p + e]
    BY <1>1, <2>4
  <2>6. QED
    BY <1>1, <2>3, <2>4, <2>5 DEF e, of
<1>5. QED
  BY <1>1, <1>2, <1>3, <1>4 DEF Whole

\* The message that begins at p ends in the stream.
LEMMA NextPlace ==
    ASSUME NEW s \in Seq(Byte), Whole(s), NEW p \in 0..Len(s), Between(s, p), p < Len(s)
    PROVE  p + s[p + 1].of \in 1..Len(s) /\ Between(s, p + s[p + 1].of)
<1> DEFINE of == s[p + 1].of
           e  == p + 1 + of - 1
<1>1. Len(s) \in Nat /\ p + 1 \in 1..Len(s)
  BY Lengths
<1>2. of \in Nat /\ of >= 1
  BY <1>1, AByte
<1>3. e <= Len(s) /\ s[e].at = s[e].of
  BY <1>1 DEF Whole, Between
<1> HIDE DEF of
<1>4. e = p + of /\ p + of \in 1..Len(s)
  BY <1>1, <1>2, <1>3
<1>5. Between(s, p + of)
  BY <1>3, <1>4, Joint
<1>6. QED
  BY <1>4, <1>5 DEF of

\* The first p bytes continue a stream of whole messages.
LEMMA Continue ==
    ASSUME NEW s \in Seq(Byte), Whole(s), NEW a, a.at = a.of, NEW t \in Seq(Byte),
           t # <<>>, Len(t) <= Len(s), \A i \in 1..Len(t) : t[i] = s[i]
    PROVE  Continues(a, t)
<1>1. Len(s) \in Nat /\ (s = <<>> <=> Len(s) = 0) /\ Len(t) \in Nat \ {0}
  BY Lengths
<1>2. t[1].at = 1
  BY <1>1 DEF Whole
<1>3. ASSUME NEW i \in 1..(Len(t) - 1) PROVE Follows(t[i], t[i + 1])
  <2>1. i \in 1..(Len(s) - 1) /\ t[i] = s[i] /\ t[i + 1] = s[i + 1]
    BY <1>1
  <2>2. QED
    BY <2>1 DEF Whole
<1>4. QED
  BY <1>2, <1>3 DEF Continues, Follows

LEMMA Rest ==
    ASSUME NEW s \in Seq(Byte), NEW n \in 0..Len(s)
    PROVE  SubSeq(s, n + 1, Len(s)) \in Seq(Byte) /\ Behind(s, n, SubSeq(s, n + 1, Len(s)))
<1> DEFINE b == SubSeq(s, n + 1, Len(s))
<1>1. Len(s) \in Nat /\ \A i \in (n + 1)..Len(s) : s[i] \in Byte
  BY LenProperties, ElementOfSeq
<1>2. /\ b \in Seq(Byte) /\ Len(b) = IF n + 1 <= Len(s) THEN Len(s) - (n + 1) + 1 ELSE 0
      /\ \A i \in 1..Len(s) - (n + 1) + 1 : b[i] = s[n + 1 + i - 1]
  BY <1>1, SubSeqProperties
<1>3. \A i \in 1..(Len(s) - n) : n + 1 + i - 1 = n + i /\ i \in 1..Len(s) - (n + 1) + 1
  BY <1>1
<1>4. Len(b) = Len(s) - n
  BY <1>1, <1>2
<1>5. QED
  BY <1>2, <1>3, <1>4 DEF Behind

LEMMA Beginning ==
    ASSUME NEW s \in Seq(Byte), NEW n \in 0..Len(s)
    PROVE  /\ SubSeq(s, 1, n) \in Seq(Byte) /\ Len(SubSeq(s, 1, n)) = n
           /\ \A i \in 1..n : SubSeq(s, 1, n)[i] = s[i]
<1>1. Len(s) \in Nat /\ \A i \in 1..n : s[i] \in Byte
  BY LenProperties, ElementOfSeq
<1>2. /\ SubSeq(s, 1, n) \in Seq(Byte) /\ Len(SubSeq(s, 1, n)) = IF 1 <= n THEN n - 1 + 1 ELSE 0
      /\ \A i \in 1..n - 1 + 1 : SubSeq(s, 1, n)[i] = s[1 + i - 1]
  BY <1>1, SubSeqProperties
<1>3. \A i \in 1..n : 1 + i - 1 = i /\ i \in 1..n - 1 + 1
  BY <1>1
<1>4. QED
  BY <1>1, <1>2, <1>3

LEMMA BehindBoth ==
    ASSUME NEW s \in Seq(Byte), NEW t \in Seq(Byte), NEW u \in Seq(Byte),
           NEW n \in 0..Len(s), Behind(s, n, u)
    PROVE  Behind(s \o t, n, u \o t)
<1> DEFINE a == s \o t
           b == u \o t
<1>1. /\ Len(a) = Len(s) + Len(t) /\ Len(s) \in Nat /\ Len(t) \in Nat
      /\ (\A i \in 1..Len(s) : a[i] = s[i]) /\ (\A i \in 1..Len(t) : a[Len(s) + i] = t[i])
  BY Parts
<1>2. /\ Len(b) = Len(u) + Len(t) /\ Len(u) \in Nat
      /\ (\A i \in 1..Len(u) : b[i] = u[i]) /\ (\A i \in 1..Len(t) : b[Len(u) + i] = t[i])
  BY Parts
<1>3. Len(u) = Len(s) - n /\ \A i \in 1..Len(u) : u[i] = s[n + i]
  BY DEF Behind
<1> HIDE DEF a, b
<1>4. ASSUME NEW i \in 1..Len(b) PROVE b[i] = a[n + i]
  <2>1. CASE i <= Len(u)
    <3>1. i \in 1..Len(u) /\ n + i \in 1..Len(s)
      BY <1>1, <1>2, <1>3, <2>1
    <3>2. QED
      BY <1>1, <1>2, <1>3, <3>1
  <2>2. CASE i > Len(u)
    <3> DEFINE j == i - Len(u)
    <3>1. j \in 1..Len(t) /\ Len(u) + j = i /\ Len(s) + j = n + i
      BY <1>1, <1>2, <1>3, <2>2
    <3> HIDE DEF j
    <3>2. b[Len(u) + j] = t[j] /\ a[Len(s) + j] = t[j]
      BY <1>1, <1>2, <3>1
    <3>3. QED
      BY <3>1, <3>2
  <2>3. QED
    BY <1>2, <2>1, <2>2
<1>5. Len(b) = Len(a) - n
  BY <1>1, <1>2, <1>3
<1>6. QED
  BY <1>4, <1>5 DEF Behind, a, b

\* A chunk moves from the one part of a stream to the other.
LEMMA ChunkArrives ==
    ASSUME NEW s \in Seq(Byte), NEW rest \in Seq(Byte), NEW n \in 0..Len(rest)
    PROVE  (s \o SubSeq(rest, 1, n)) \o SubSeq(rest, n + 1, Len(rest)) = s \o rest
<1> DEFINE a == SubSeq(rest, 1, n)
           b == SubSeq(rest, n + 1, Len(rest))
<1>1. a \in Seq(Byte) /\ b \in Seq(Byte) /\ Len(rest) \in Nat
  BY Beginning, Rest, LenProperties
<1>2. a \o b = rest
  <2>1. 1 \in 1..Len(rest) + 1 /\ n \in 1 - 1..Len(rest) /\ Len(rest) \in n..Len(rest)
    BY <1>1
  <2>2. a \o b = SubSeq(rest, 1, Len(rest))
    BY <2>1, ConcatAdjacentSubSeq
  <2>3. QED
    BY <2>2, SubSeqFull
<1> HIDE DEF a, b
<1>3. (s \o a) \o b = s \o (a \o b)
  BY <1>1, ConcatAssociative
<1>4. QED
  BY <1>2, <1>3 DEF a, b

LEMMA Messages ==
    /\ IsMessage(Ok, "ok", 11) /\ Whole(Ok)
    /\ IsMessage(Error, "error", 15) /\ Whole(Error)
    /\ IsMessage(Greeting, "greeting", 30) /\ Whole(Greeting)
    /\ IsMessage(BlockReply, "reply", 11) /\ Whole(BlockReply)
<1>1. {"ok", "error", "greeting", "reply"} \subseteq Kinds
  BY DEF Kinds
<1>2. {11, 15, 30} \subseteq Nat \ {0}
  OBVIOUS
<1>3. QED
  BY <1>1, <1>2, BytesAre DEF Ok, Error, Greeting, BlockReply

LEMMA OneEnd ==
    ASSUME NEW s, NEW kind \in {"ok", "error", "greeting"}, NEW n \in Nat \ {0},
           IsMessage(s, kind, n)
    PROVE  EndsOnce(s) /\ s # <<>>
<1>1. s \in Seq(Byte) /\ Len(s) = n
      /\ \A i \in 1..n : s[i].kind = kind /\ s[i].at = i /\ s[i].of = n
  BY DEF IsMessage
<1>2. EndsOnce(s)
  BY <1>1 DEF EndsOnce, IsEnd, Ends
<1>3. QED
  BY <1>1, <1>2, Lengths

\* The backend's answers and its greeting are whole messages, of which the last one ends them.
LEMMA AnswersAre ==
    ASSUME NEW a \in {Greeting, Ok, Error, Result, OldResult}
    PROVE  a \in Seq(Byte) /\ a # <<>> /\ Whole(a) /\ EndsOnce(a)
<1>1. ASSUME NEW n \in {5, 9}
      PROVE  LET s == Bytes("row", 5) \o Bytes("eof", n)
             IN  s \in Seq(Byte) /\ s # <<>> /\ Whole(s) /\ EndsOnce(s)
  <2> DEFINE r == Bytes("row", 5)
             e == Bytes("eof", n)
             s == r \o e
  <2>1. 5 \in Nat \ {0} /\ n \in Nat \ {0} /\ {"row", "eof"} \subseteq Kinds
    BY DEF Kinds
  <2>2. IsMessage(r, "row", 5) /\ Whole(r) /\ IsMessage(e, "eof", n) /\ Whole(e)
    BY <2>1, BytesAre
  <2> HIDE DEF r, e
  <2>3. r \in Seq(Byte) /\ Len(r) = 5 /\ \A i \in 1..5 : r[i].kind = "row"
    BY <2>2 DEF IsMessage
  <2>4. /\ e \in Seq(Byte) /\ Len(e) = n
        /\ \A i \in 1..n : e[i].kind = "eof" /\ e[i].at = i /\ e[i].of = n
    BY <2>2 DEF IsMessage
  <2>5. s \in Seq(Byte) /\ Len(s) = Len(r) + Len(e)
        /\ (\A i \in 1..Len(r) : s[i] = r[i]) /\ \A i \in 1..Len(e) : s[Len(r) + i] = e[i]
    <3>1. r \in Seq(Byte) /\ e \in Seq(Byte)
      BY <2>3, <2>4
    <3>2. QED
      BY <3>1, Parts
  <2>6. Whole(s)
    BY <2>2, <2>3, <2>4, WholeConcat
  <2> HIDE DEF s
  <2>7. ASSUME NEW i \in 1..(5 + n) PROVE IsEnd(s[i]) <=> i = 5 + n
    <3>1. CASE i <= 5
      <4>1. s[i].kind = "row" /\ i # 5 + n
        BY <2>1, <2>3, <2>5, <3>1
      <4>2. QED
        BY <4>1 DEF IsEnd, Ends
    <3>2. CASE i > 5
      <4> DEFINE j == i - 5
      <4>1. j \in 1..n /\ 5 + j = i
        BY <2>1, <3>2
      <4> HIDE DEF j
      <4>2. s[5 + j] = e[j]
        BY <2>3, <2>4, <2>5, <4>1
      <4>3. s[i].kind = "eof" /\ s[i].at = j /\ s[i].of = n
        BY <2>4, <4>1, <4>2
      <4>4. QED
        BY <2>1, <4>1, <4>3 DEF IsEnd, Ends
    <3>3. QED
      BY <2>1, <3>1, <3>2
  <2>8. EndsOnce(s)
    BY <2>3, <2>4, <2>5, <2>7 DEF EndsOnce
  <2>9. s # <<>>
    BY <2>1, <2>3, <2>4, <2>5, Lengths
  <2>10. QED
    BY <2>5, <2>6, <2>8, <2>9 DEF s, r, e
<1>2. CASE a = Result
  BY <1>1, <1>2 DEF Result
<1>3. CASE a = OldResult
  BY <1>1, <1>3 DEF OldResult
<1>4. CASE a \in {Greeting, Ok, Error}
  <2>1. {11, 15, 30} \subseteq Nat \ {0}
    OBVIOUS
  <2>2. Whole(a) /\ EndsOnce(a) /\ a # <<>>
    BY <1>4, <2>1, Messages, OneEnd
  <2>3. a \in Seq(Byte)
    <3>1. IsMessage(Greeting, "greeting", 30) /\ IsMessage(Ok, "ok", 11)
          /\ IsMessage(Error, "error", 15)
      BY Messages
    <3>2. Greeting \in Seq(Byte) /\ Ok \in Seq(Byte) /\ Error \in Seq(Byte)
      BY <3>1 DEF IsMessage
    <3>3. QED
      BY <1>4, <3>2
  <2>4. QED
    BY <2>2, <2>3
<1>5. QED
  BY <1>2, <1>3, <1>4

-----------------------------------------------------------------------------
(* What Show does.                                                         *)

LEMMA Shows ==
    ASSUME NEW t \in Seq(Byte), t # <<>>, Show(t)
    PROVE  /\ lastOut' = t[Len(t)]
           /\ intact' = (intact /\ Continues(lastOut, t))
           /\ owed' = Monus(owed, Cardinality({i \in 1..Len(t) : IsEnd(t[i])}))
<1>1. DOMAIN t = 1..Len(t)
  BY Lengths
<1>2. {i \in DOMAIN t : t[i].kind \in Ends /\ t[i].at = t[i].of} = {i \in 1..Len(t) : IsEnd(t[i])}
  BY <1>1 DEF IsEnd
<1>3. QED
  BY <1>2 DEF Show

LEMMA Counts ==
    ASSUME NEW t \in Seq(Byte), owed \in {0, 1}, Show(t)
    PROVE  /\ owed' \in {0, 1}
           /\ (\A i \in 1..Len(t) : ~IsEnd(t[i])) => owed' = owed
           /\ t # <<>> /\ EndsOnce(t) => owed' = 0
           /\ t = <<>> => UNCHANGED client
<1>1. CASE t = <<>>
  BY <1>1 DEF Show, client
<1>2. CASE t # <<>>
  <2> DEFINE ended == {i \in 1..Len(t) : IsEnd(t[i])}
             n == Cardinality(ended)
  <2>1. Len(t) \in Nat \ {0}
    BY <1>2, Lengths
  <2>2. IsFiniteSet(ended)
    <3>1. IsFiniteSet(1..Len(t))
      BY <2>1, FS_Interval
    <3>2. ended \in SUBSET (1..Len(t))
      OBVIOUS
    <3>3. QED
      BY <3>1, <3>2, FS_Subset
  <2>3. owed' = Monus(owed, n)
    BY <1>2, Shows
  <2>4. n \in Nat
    BY <2>2, FS_CardinalityType
  <2>5. ASSUME \A i \in 1..Len(t) : ~IsEnd(t[i]) PROVE n = 0
    <3>1. ended = {}
      BY <2>5
    <3>2. QED
      BY <3>1, FS_EmptySet
  <2>6. ASSUME EndsOnce(t) PROVE n = 1
    <3>1. ended = {Len(t)}
      BY <2>1, <2>6 DEF EndsOnce
    <3>2. QED
      BY <3>1, FS_Singleton
  <2> HIDE DEF n
  <2>7. owed' \in {0, 1} /\ (n = 0 => owed' = owed) /\ (n = 1 => owed' = 0)
    BY <2>3, <2>4 DEF Monus
  <2>8. QED
    BY <1>2, <2>5, <2>6, <2>7
<1>3. QED
  BY <1>1, <1>2

\* The first bytes of a stream are shown, up to the end of a message.
LEMMA Released ==
    ASSUME NEW s \in Seq(Byte), Whole(s), NEW t \in Seq(Byte), NEW r \in Seq(Byte),
           Len(t) <= Len(s), \A i \in 1..Len(t) : t[i] = s[i], Behind(s, Len(t), r),
           Between(s, Len(t)), lastOut.at = lastOut.of, intact, Show(t)
    PROVE  Whole(r) /\ Between(r, 0) /\ lastOut'.at = lastOut'.of /\ intact'
<1>1. Len(t) \in Nat /\ Len(s) \in Nat /\ (t = <<>> <=> Len(t) = 0)
  BY Lengths
<1>2. Whole(r)
  BY <1>1, WholeBehind
<1>3. Between(r, 0)
  BY <1>2, Lengths DEF Whole, Between
<1>4. CASE t = <<>>
  BY <1>2, <1>3, <1>4 DEF Show, client
<1>5. CASE t # <<>>
  <2>1. lastOut' = t[Len(t)] /\ intact' = (intact /\ Continues(lastOut, t))
    BY <1>5, Shows
  <2>2. t[Len(t)] = s[Len(t)] /\ Len(t) \in 1..Len(s)
    BY <1>1, <1>5
  <2>3. s[Len(t)].at = s[Len(t)].of
    BY <2>2, Joint
  <2>4. Continues(lastOut, t)
    BY <1>5, Continue
  <2>5. QED
    BY <1>2, <1>3, <2>1, <2>2, <2>3, <2>4
<1>6. QED
  BY <1>4, <1>5

-----------------------------------------------------------------------------
(* The client's messages, the cursors and the session.                     *)

Db == Databases \cup {NoDatabase}

MessageType == [kind : RequestKinds, db : Db, from : Nat, to : Nat]

\* The client's messages follow each other from the beginning of its stream, the login first.
Framed(msgs) ==
    /\ msgs \in Seq(MessageType) /\ Len(msgs) <= MaxRequests
    /\ \A i \in 1..Len(msgs) :
         /\ msgs[i].from + 5 <= msgs[i].to
         /\ msgs[i].kind \in {"login", "oldlogin"} <=> i = 1
         /\ msgs[i].kind = "oldlogin" => msgs[i].db = NoDatabase
    /\ \A i, j \in 1..Len(msgs) : i < j => msgs[i].to <= msgs[j].from

Cursors ==
    /\ phase \in {"idle", "request", "respond", "answer"}
    /\ garbage \in Garbage
    /\ received \in 0..Sent /\ taken \in 0..received /\ start \in 0..received
    /\ phase = "request" => start + Size(Current) <= received

SessionOK ==
    /\ firstRequest \in BOOLEAN /\ secondPacket \in BOOLEAN /\ hasResponse \in BOOLEAN
    /\ lastCommand \in RequestKinds
    /\ db \in Db /\ newDb \in Db /\ serverDb \in Db
    /\ served \in 0..Len(messages)
    /\ blocked \subseteq {<<c[1], c[2]>> : c \in checked}
    /\ firstRequest => db = NoDatabase

RequestInv == Framed(messages) /\ Cursors /\ SessionOK

Final == messages[Len(messages)]

LEMMA Typed ==
    ASSUME NEW msgs, Framed(msgs)
    PROVE  /\ Len(msgs) \in Nat /\ DOMAIN msgs = 1..Len(msgs) /\ (msgs = <<>> <=> Len(msgs) = 0)
           /\ \A i \in 1..Len(msgs) : /\ msgs[i].kind \in RequestKinds /\ msgs[i].db \in Db
                                      /\ msgs[i].from \in Nat /\ msgs[i].to \in Nat
                                      /\ msgs[i].from + 5 <= msgs[i].to
<1>1. msgs \in Seq(MessageType)
  BY DEF Framed
<1>2. Len(msgs) \in Nat /\ DOMAIN msgs = 1..Len(msgs) /\ (msgs = <<>> <=> Len(msgs) = 0)
  BY <1>1, LenProperties, EmptySeq
<1>3. \A i \in 1..Len(msgs) : msgs[i] \in MessageType
  BY <1>1, ElementOfSeq
<1>4. QED
  BY <1>2, <1>3 DEF MessageType, Framed

LEMMA SentIs ==
    ASSUME Framed(messages)
    PROVE  Sent \in Nat /\ (messages # <<>> => Sent = Final.to) /\ (messages = <<>> => Sent = 0)
<1>1. Len(messages) \in Nat /\ (messages = <<>> <=> Len(messages) = 0)
      /\ \A i \in 1..Len(messages) : messages[i].to \in Nat
  BY Typed
<1>2. QED
  BY <1>1 DEF Sent, Final

\* What the code takes for a header.
LEMMA HeaderIs ==
    ASSUME NEW msgs, Framed(msgs), NEW p \in Nat, garbage \in Garbage
    PROVE  /\ HeaderAt(msgs, p).kind \in RequestKinds /\ HeaderAt(msgs, p).db \in Db
           /\ Size(HeaderAt(msgs, p)) \in Nat /\ Size(HeaderAt(msgs, p)) >= 4
           /\ HeaderAt(msgs, p).kind = "oldlogin" => HeaderAt(msgs, p).db = NoDatabase
<1>1. DOMAIN msgs = 1..Len(msgs)
      /\ \A i \in 1..Len(msgs) : /\ msgs[i].kind \in RequestKinds /\ msgs[i].db \in Db
                                 /\ msgs[i].from \in Nat /\ msgs[i].to \in Nat
                                 /\ msgs[i].from + 5 <= msgs[i].to
  BY Typed
<1>2. CASE \E i \in DOMAIN msgs : msgs[i].from = p
  <2>1. \E m \in {msgs[i] : i \in DOMAIN msgs} : m.from = p
    BY <1>2
  <2>2. HeaderAt(msgs, p) \in {msgs[i] : i \in DOMAIN msgs}
    BY <1>2, <2>1 DEF HeaderAt
  <2>3. PICK i \in 1..Len(msgs) : HeaderAt(msgs, p) = msgs[i]
    BY <1>1, <2>2
  <2>4. QED
    BY <1>1, <2>3 DEF Size, Framed
<1>3. CASE ~ \E i \in DOMAIN msgs : msgs[i].from = p
  <2>1. HeaderAt(msgs, p) = [kind |-> "other", db |-> NoDatabase, from |-> p, to |-> p + garbage]
    BY <1>3 DEF HeaderAt
  <2>2. garbage \in Nat /\ garbage >= 4
    BY MySQLSessionAssumption
  <2>3. QED
    BY <2>1, <2>2 DEF Size, RequestKinds, Db
<1>4. QED
  BY <1>2, <1>3

\* At the beginning of the last message its own header is read.
LEMMA HeaderOfFinal ==
    ASSUME NEW msgs, Framed(msgs), msgs # <<>>
    PROVE  HeaderAt(msgs, msgs[Len(msgs)].from) = msgs[Len(msgs)]
<1> DEFINE n == Len(msgs)
           p == msgs[n].from
<1>1. n \in Nat /\ n >= 1 /\ DOMAIN msgs = 1..n
      /\ \A i \in 1..n : /\ msgs[i].from \in Nat /\ msgs[i].to \in Nat
                         /\ msgs[i].from + 5 <= msgs[i].to
  BY Typed
<1>2. \A i \in 1..n : msgs[i].from = p => i = n
  <2> SUFFICES ASSUME NEW i \in 1..n, msgs[i].from = p, i # n PROVE FALSE
    OBVIOUS
  <2> HIDE DEF n
  <2>1. i < n /\ n \in 1..n /\ p \in Nat
    BY <1>1
  <2>2. msgs[i].to <= p
    BY <2>1 DEF Framed, n
  <2>3. msgs[i].from \in Nat /\ msgs[i].to \in Nat /\ msgs[i].from + 5 <= msgs[i].to
    BY <1>1
  <2>4. QED
    BY <2>1, <2>2, <2>3
<1> HIDE DEF p
<1>3. \A m \in {msgs[i] : i \in DOMAIN msgs} : m.from = p => m = msgs[n]
  BY <1>1, <1>2
<1>4. n \in DOMAIN msgs /\ msgs[n].from = p
  BY <1>1 DEF p
<1>5. HeaderAt(msgs, p) = CHOOSE m \in {msgs[i] : i \in DOMAIN msgs} : m.from = p
  BY <1>4 DEF HeaderAt
<1>6. QED
  BY <1>3, <1>4, <1>5 DEF p

\* A message is begun behind the others.
LEMMA BeginFrames ==
    ASSUME Framed(messages), NEW m \in Requests, MayBegin(m), Begin(m)
    PROVE  /\ Framed(messages') /\ Sent' = Sent + m.size /\ m.size \in Nat /\ m.size >= 5
           /\ Len(messages') = Len(messages) + 1 /\ messages' # <<>>
           /\ \A i \in 1..Len(messages) : messages'[i] = messages[i]
           /\ Final' = [kind |-> m.kind, db |-> m.db, from |-> Sent, to |-> Sent + m.size]
<1> DEFINE n == Len(messages)
           b == [kind |-> m.kind, db |-> m.db, from |-> Sent, to |-> Sent + m.size]
<1>1. /\ m.kind \in RequestKinds /\ m.db \in Db /\ m.size \in Nat /\ m.size >= 5
      /\ m.kind = "oldlogin" => m.db = NoDatabase
  BY MySQLSessionAssumption DEF Db
<1>2. /\ n \in Nat /\ DOMAIN messages = 1..n /\ (messages = <<>> <=> n = 0)
      /\ \A i \in 1..n : messages[i].from \in Nat /\ messages[i].to \in Nat
                         /\ messages[i].from + 5 <= messages[i].to
  BY Typed
<1>3. Sent \in Nat /\ (messages # <<>> => Sent = messages[n].to)
  BY SentIs DEF Final
<1>4. b \in MessageType
  BY <1>1, <1>3 DEF MessageType
<1>5. messages \in Seq(MessageType) /\ messages' = Append(messages, b)
  BY DEF Framed, Begin
<1>6. /\ messages' \in Seq(MessageType) /\ Len(messages') = n + 1
      /\ (\A i \in 1..n : messages'[i] = messages[i]) /\ messages'[n + 1] = b
  BY <1>2, <1>4, <1>5, AppendProperties
<1>7. messages' # <<>>
  BY <1>2, <1>6, EmptySeq
<1>8. Sent' = Sent + m.size
  BY <1>6, <1>7 DEF Sent
<1>9. ASSUME NEW i \in 1..n PROVE messages[i].to <= Sent
  <2>1. CASE i = n
    BY <1>2, <1>3, <2>1
  <2>2. CASE i < n
    <3>1. n \in 1..n /\ messages # <<>>
      BY <1>2
    <3>2. messages[i].to <= messages[n].from
      BY <2>2, <3>1 DEF Framed
    <3>3. QED
      BY <1>2, <1>3, <3>1, <3>2
  <2>3. QED
    BY <1>2, <2>1, <2>2
<1>10. ASSUME NEW i \in 1..(n + 1)
       PROVE  /\ messages'[i].from + 5 <= messages'[i].to
              /\ messages'[i].kind \in {"login", "oldlogin"} <=> i = 1
              /\ messages'[i].kind = "oldlogin" => messages'[i].db = NoDatabase
  <2>1. CASE i \in 1..n
    BY <1>6, <2>1 DEF Framed
  <2>2. CASE i = n + 1
    <3>1. messages'[i] = b /\ (i = 1 <=> messages = <<>>)
      BY <1>2, <1>6, <2>2
    <3>2. m.kind \in {"login", "oldlogin"} <=> messages = <<>>
      BY DEF MayBegin
    <3>3. QED
      BY <1>1, <1>3, <3>1, <3>2
  <2>3. QED
    BY <1>2, <2>1, <2>2
<1>11. ASSUME NEW i \in 1..(n + 1), NEW j \in 1..(n + 1), i < j
       PROVE  messages'[i].to <= messages'[j].from
  <2>1. i \in 1..n /\ messages'[i] = messages[i]
    BY <1>2, <1>6, <1>11
  <2>2. CASE j \in 1..n
    <3>1. messages'[j] = messages[j]
      BY <1>6, <2>2
    <3>2. QED
      BY <1>11, <2>1, <2>2, <3>1 DEF Framed
  <2>3. CASE j = n + 1
    BY <1>6, <1>9, <2>1, <2>3
  <2>4. QED
    BY <1>2, <2>2, <2>3
<1>12. n + 1 <= MaxRequests
  BY <1>2, MySQLSessionAssumption DEF MayBegin
<1>13. Framed(messages')
  BY <1>6, <1>10, <1>11, <1>12 DEF Framed
<1>14. QED
  BY <1>1, <1>6, <1>7, <1>8, <1>13 DEF Final

LEMMA InitRequest == Init => RequestInv
<1> SUFFICES ASSUME Init PROVE RequestInv
  OBVIOUS
<1>1. messages = <<>> /\ Len(messages) = 0 /\ Sent = 0
  BY DEF Init, Sent
<1>2. Framed(messages)
  BY <1>1, EmptySeq, MySQLSessionAssumption DEF Framed
<1>3. Cursors
  BY <1>1 DEF Init, Cursors
<1>4. SessionOK
  <2>1. /\ firstRequest = TRUE /\ secondPacket = FALSE /\ hasResponse = FALSE
        /\ lastCommand = "other" /\ db = NoDatabase /\ newDb = NoDatabase /\ served = 0
        /\ serverDb = NoDatabase /\ blocked = {}
    BY DEF Init
  <2>2. "other" \in RequestKinds /\ NoDatabase \in Db /\ 0 \in 0..0
    BY DEF RequestKinds, Db
  <2>3. QED
    BY <1>1, <2>1, <2>2 DEF SessionOK
<1>5. QED
  BY <1>2, <1>3, <1>4 DEF RequestInv

LEMMA ClientRequest == ASSUME RequestInv, ClientBytes PROVE RequestInv'
<1>1. PICK n \in Chunks :
        /\ received' = received + n
        /\ \/ n <= Sent - received /\ UNCHANGED <<messages, met, client>>
           \/ \E m \in Requests :
                /\ MayBegin(m)
                /\ Sent - received < n /\ n <= Sent - received + m.size
                /\ Begin(m)
  BY DEF ClientBytes
<1>2. n \in Nat /\ n >= 1
  BY MySQLSessionAssumption
<1>3. /\ Framed(messages) /\ Sent \in Nat /\ received \in 0..Sent /\ taken \in 0..received
      /\ garbage \in Garbage
  BY SentIs DEF RequestInv, Cursors
<1>4. /\ Framed(messages') /\ received' \in 0..Sent' /\ Len(messages') \in Nat
      /\ Len(messages) \in Nat /\ Len(messages') >= Len(messages)
  <2>1. CASE n <= Sent - received /\ UNCHANGED <<messages, met, client>>
    <3>1. Sent' = Sent /\ messages' = messages
      BY <2>1 DEF Sent
    <3>2. QED
      BY <1>1, <1>2, <1>3, <2>1, <3>1, Typed
  <2>2. CASE \E m \in Requests :
               /\ MayBegin(m)
               /\ Sent - received < n /\ n <= Sent - received + m.size
               /\ Begin(m)
    <3>1. PICK m \in Requests :
            /\ MayBegin(m) /\ Begin(m)
            /\ Sent - received < n /\ n <= Sent - received + m.size
      BY <2>2
    <3>2. /\ Framed(messages') /\ Sent' = Sent + m.size /\ m.size \in Nat
          /\ Len(messages') = Len(messages) + 1
      BY <1>3, <3>1, BeginFrames
    <3>3. received' \in 0..Sent'
      BY <1>1, <1>2, <1>3, <3>1, <3>2
    <3>4. QED
      BY <1>3, <3>2, <3>3, Typed
  <2>3. QED
    BY <1>1, <2>1, <2>2
<1>5. Cursors'
  <2> DEFINE size == Size(HeaderAt(messages', taken))
  <2>1. /\ taken' = taken /\ start' = taken /\ garbage' = garbage
        /\ phase' = IF received' - taken >= 3 /\ size <= received' - taken
                      THEN "request" ELSE "idle"
    BY DEF ClientBytes
  <2>2. Current' = HeaderAt(messages', taken)
    BY <2>1 DEF Current, HeaderAt
  <2>3. size \in Nat
    <3>1. taken \in Nat
      BY <1>3
    <3>2. QED
      BY <1>3, <1>4, <3>1, HeaderIs
  <2>4. taken \in 0..received' /\ received' \in Nat
    BY <1>1, <1>2, <1>3, <1>4
  <2>5. Size(Current') = size
    BY <2>2
  <2>6. phase' = "request" => start' + size <= received'
    <3>1. phase' = "request" => size <= received' - taken
      BY <2>1
    <3>2. taken \in Nat /\ received' \in Nat
      BY <1>3, <2>4
    <3>3. \A x, y, z \in Nat : x <= z - y => y + x <= z
      OBVIOUS
    <3>4. QED
      BY <2>1, <2>3, <3>1, <3>2, <3>3
  <2>7. QED
    BY <1>3, <1>4, <2>1, <2>4, <2>5, <2>6 DEF Cursors, Size
<1>6. SessionOK'
  <2>1. UNCHANGED <<session, secondPacket, hasResponse, server, verdicts>>
    BY DEF ClientBytes
  <2>2. QED
    BY <1>4, <2>1 DEF RequestInv, SessionOK, session, server, verdicts
<1>7. QED
  BY <1>4, <1>5, <1>6 DEF RequestInv

LEMMA LoopMoves ==
    ASSUME RequestInv, phase = "request", NEW r, r \in BOOLEAN, NextRequest(r),
           UNCHANGED <<messages, received, garbage>>
    PROVE  /\ Framed(messages)' /\ Cursors' /\ hasResponse' \in BOOLEAN
           /\ phase' \in {"request", "idle", "respond"}
           /\ taken' = taken \/ taken' = start + Size(Current)
<1> DEFINE size == Size(Current)
           next == start + size
<1>1. /\ Framed(messages) /\ Sent \in Nat /\ received \in 0..Sent /\ taken \in 0..received
      /\ start \in 0..received /\ garbage \in Garbage /\ next <= received
  BY SentIs DEF RequestInv, Cursors
<1>2. size \in Nat /\ size >= 4
  BY <1>1, HeaderIs DEF Current
<1>3. Sent' = Sent /\ (taken' = taken => Current' = Current)
  BY DEF Sent, Current, HeaderAt
<1>4. CASE next + 7 <= received /\ next + size <= received
  <2>1. start' = next /\ hasResponse' = r /\ UNCHANGED <<phase, taken>>
    BY <1>4 DEF NextRequest
  <2>2. Size(Current') = size
    BY <1>3, <2>1
  <2> HIDE DEF size
  <2>3. start' \in 0..received' /\ start' + size <= received'
    BY <1>1, <1>2, <1>4, <2>1
  <2>4. Cursors'
    BY <1>1, <1>3, <2>1, <2>2, <2>3 DEF Cursors, Size
  <2>5. QED
    BY <1>1, <2>1, <2>4
<1>5. CASE ~(next + 7 <= received /\ next + size <= received)
  <2>1. /\ taken' = next /\ hasResponse' = FALSE /\ phase' \in {"respond", "idle"} /\ start' = start
    BY <1>5 DEF NextRequest
  <2> HIDE DEF size
  <2>2. taken' \in 0..received'
    BY <1>1, <1>2, <2>1
  <2>3. Cursors'
    BY <1>1, <1>3, <2>1, <2>2 DEF Cursors
  <2>4. QED
    BY <1>1, <2>1, <2>3 DEF size
<1>6. QED
  BY <1>4, <1>5

\* The steps that do not touch the client's stream.
LEMMA OthersKeep ==
    ASSUME RequestInv, UNCHANGED <<request, garbage, checked, blocked>>,
           phase' \in {"idle", "request", "respond", "answer"},
           phase' = "request" => phase = "request",
           firstRequest' = firstRequest, secondPacket' \in BOOLEAN, hasResponse' = hasResponse,
           lastCommand' = lastCommand, newDb' = newDb, db' \in Db,
           firstRequest => db' = db, serverDb' \in Db, served' \in 0..Len(messages)
    PROVE  RequestInv'
<1>1. /\ messages' = messages /\ received' = received /\ taken' = taken /\ start' = start
      /\ garbage' = garbage /\ checked' = checked /\ blocked' = blocked
  BY DEF request
<1>2. Sent' = Sent /\ Current' = Current
  BY <1>1 DEF Sent, Current, HeaderAt
<1>3. Cursors'
  BY <1>1, <1>2 DEF RequestInv, Cursors, Size
<1>4. SessionOK'
  BY <1>1 DEF RequestInv, SessionOK
<1>5. QED
  BY <1>1, <1>3, <1>4 DEF RequestInv

LEMMA StepRequest == ASSUME RequestInv, [Next]_vars PROVE RequestInv'
<1> /\ Framed(messages) /\ Cursors /\ SessionOK
  BY DEF RequestInv
<1>0. taken \in Nat /\ Current.kind \in RequestKinds /\ Current.db \in Db
      /\ (Current.kind = "oldlogin" => Current.db = NoDatabase)
  <2>1. taken \in Nat /\ garbage \in Garbage
    BY SentIs DEF Cursors
  <2>2. QED
    BY <2>1, HeaderIs DEF Current
<1>1. CASE ClientBytes
  BY <1>1, ClientRequest
<1>2. CASE ParseLogin
  <2>1. /\ phase = "request" /\ NextRequest(hasResponse) /\ firstRequest' = FALSE
        /\ secondPacket' \in BOOLEAN /\ db' \in Db
        /\ UNCHANGED <<lastCommand, newDb, messages, received, serverDb, served, checked,
                       blocked, garbage>>
    BY <1>0, <1>2 DEF ParseLogin, server, verdicts, SessionOK
  <2>2. Framed(messages)' /\ Cursors' /\ hasResponse' \in BOOLEAN
    BY <2>1, LoopMoves DEF SessionOK
  <2>3. SessionOK'
    BY <2>1, <2>2 DEF SessionOK
  <2>4. QED
    BY <2>2, <2>3 DEF RequestInv
<1>3. CASE ParseCommand
  <2>1. /\ phase = "request" /\ NextRequest(hasResponse) /\ lastCommand' = Current.kind
        /\ newDb' = CASE Current.kind = "db" -> Current.db
                      [] Current.kind = "change" -> NoDatabase
                      [] OTHER -> newDb
        /\ UNCHANGED <<firstRequest, secondPacket, db, messages, received, serverDb, served,
                       checked, blocked, garbage>>
    BY <1>3 DEF ParseCommand, server, verdicts
  <2>2. Framed(messages)' /\ Cursors' /\ hasResponse' \in BOOLEAN
    BY <2>1, LoopMoves DEF SessionOK
  <2>3. newDb' \in Db
    BY <1>0, <2>1 DEF SessionOK, Db
  <2>4. SessionOK'
    BY <1>0, <2>1, <2>2, <2>3 DEF SessionOK
  <2>5. QED
    BY <2>2, <2>4 DEF RequestInv
<1>4. CASE ParseQuery
  <2>1. /\ phase = "request" /\ lastCommand' = "query"
        /\ checked' = checked \cup {<<Current.from, Current.to, db>>}
        /\ blocked' = blocked \/ blocked' = blocked \cup {<<Current.from, Current.to>>}
        /\ NextRequest(hasResponse) \/ NextRequest(TRUE)
        /\ UNCHANGED <<firstRequest, secondPacket, db, newDb, messages, received, serverDb,
                       served, garbage>>
    BY <1>4 DEF ParseQuery, server
  <2>2. Framed(messages)' /\ Cursors' /\ hasResponse' \in BOOLEAN
    BY <2>1, LoopMoves DEF SessionOK
  <2>3. blocked' \subseteq {<<c[1], c[2]>> : c \in checked'}
    <3> DEFINE c == <<Current.from, Current.to, db>>
    <3>1. c \in checked' /\ <<c[1], c[2]>> = <<Current.from, Current.to>> /\ checked \subseteq checked'
      BY <2>1
    <3> HIDE DEF c
    <3>2. <<Current.from, Current.to>> \in {<<d[1], d[2]>> : d \in checked'}
      BY <3>1
    <3>3. \A b \in blocked : b \in {<<d[1], d[2]>> : d \in checked'}
      BY <3>1 DEF SessionOK
    <3>4. QED
      BY <2>1, <3>2, <3>3
  <2>4. SessionOK'
    BY <2>1, <2>2, <2>3 DEF SessionOK, RequestKinds
  <2>5. QED
    BY <2>2, <2>4 DEF RequestInv
<1>5. CASE Serve
  <2> DEFINE m == messages[served + 1]
  <2>1. /\ served < Len(messages) /\ served' = served + 1
        /\ serverDb' = serverDb \/ serverDb' = m.db
        /\ UNCHANGED <<phase, request, session, secondPacket, hasResponse, checked, blocked, garbage>>
    BY <1>5 DEF Serve
  <2>2. served + 1 \in 1..Len(messages) /\ served' \in 0..Len(messages)
    BY <2>1, Typed DEF SessionOK
  <2>3. serverDb' \in Db
    BY <2>1, <2>2, Typed DEF SessionOK
  <2>4. QED
    BY <2>1, <2>2, <2>3, OthersKeep DEF SessionOK, Cursors, session
<1>6. CASE NextAnswer
  <2>1. phase' = phase /\ secondPacket' = FALSE /\ db' \in Db /\ (firstRequest => db' = db)
        /\ UNCHANGED <<request, garbage, checked, blocked, firstRequest, hasResponse,
                       lastCommand, newDb, serverDb, served>>
    BY <1>6 DEF NextAnswer, SessionOK, server, verdicts
  <2>2. QED
    BY <2>1, OthersKeep DEF SessionOK, Cursors
<1>7. CASE BackendBytes \/ ResponseTooShort \/ ResponseCut \/ ResponseFramed \/ AnswerDone
           \/ UNCHANGED vars
  <2>1. /\ UNCHANGED <<request, session, secondPacket, hasResponse, served, serverDb, verdicts,
                       garbage>>
        /\ phase' = phase \/ phase' \in {"idle", "respond", "answer"}
    BY <1>7 DEF BackendBytes, ResponseTooShort, ResponseCut, ResponseFramed, AnswerDone, vars,
                server
  <2>2. QED
    BY <2>1, OthersKeep DEF SessionOK, Cursors, session, verdicts
<1>8. QED
  BY <1>1, <1>2, <1>3, <1>4, <1>5, <1>6, <1>7 DEF Next

-----------------------------------------------------------------------------
(* The answers on their way to the client.                                 *)

\* What the client is still to see.
Stream == responseIn \o serverRest

StreamWhole ==
    /\ Whole(Stream) /\ Between(Stream, used)
    /\ lastOut.at = lastOut.of /\ intact

\* Unless a reply has joined a part of a message, the client is behind a whole message and
\* whole messages follow.
ResponseInv ==
    /\ responseIn \in Seq(Byte) /\ serverRest \in Seq(Byte)
    /\ used \in 0..Len(responseIn)
    /\ owed \in {0, 1}
    /\ phase = "answer" => responseIn # <<>>
    /\ phase # "answer" => used = 0
    /\ spliced => blocked # {}
    /\ ~spliced /\ ~cut => StreamWhole

LEMMA StreamIs ==
    ASSUME ResponseInv
    PROVE  /\ Stream \in Seq(Byte) /\ Len(Stream) \in Nat /\ Len(responseIn) \in Nat
           /\ Len(Stream) = Len(responseIn) + Len(serverRest) /\ Len(serverRest) \in Nat
           /\ (responseIn = <<>> <=> Len(responseIn) = 0) /\ (Stream = <<>> <=> Len(Stream) = 0)
           /\ (serverRest = <<>> <=> Len(serverRest) = 0)
           /\ used \in Nat
           /\ \A i \in 1..Len(responseIn) : Stream[i] = responseIn[i]
<1>1. responseIn \in Seq(Byte) /\ serverRest \in Seq(Byte) /\ used \in 0..Len(responseIn)
  BY DEF ResponseInv
<1>2. /\ Stream \in Seq(Byte) /\ Len(Stream) = Len(responseIn) + Len(serverRest)
      /\ Len(responseIn) \in Nat /\ Len(serverRest) \in Nat
      /\ \A i \in 1..Len(responseIn) : Stream[i] = responseIn[i]
  BY <1>1, Parts DEF Stream
<1>3. QED
  BY <1>1, <1>2, Lengths

LEMMA FromStart == ASSUME NEW s \in Seq(Byte), Whole(s) PROVE Between(s, 0)
BY Lengths DEF Whole, Between

LEMMA InitResponse == Init => ResponseInv
<1> SUFFICES ASSUME Init PROVE ResponseInv
  OBVIOUS
<1>1. /\ responseIn = <<>> /\ serverRest = Greeting /\ used = 0 /\ owed = 1 /\ phase = "idle"
      /\ spliced = FALSE /\ lastOut.at = lastOut.of /\ intact
  BY DEF Init, NoByte
<1>2. /\ Greeting \in Seq(Byte) /\ Whole(Greeting) /\ responseIn \in Seq(Byte)
      /\ Len(responseIn) = 0
  BY <1>1, AnswersAre, EmptySeq
<1>3. Stream = Greeting
  BY <1>1, <1>2, ConcatEmptySeq DEF Stream
<1>4. StreamWhole
  BY <1>1, <1>2, <1>3, FromStart DEF StreamWhole
<1>5. QED
  BY <1>1, <1>2, <1>4 DEF ResponseInv

\* The steps that leave the answers alone.
LEMMA AnswersKept ==
    ASSUME ResponseInv, UNCHANGED <<response, serverRest, lastOut, intact, spliced, cut>>,
           owed' \in {0, 1}, blocked \subseteq blocked',
           phase' = "answer" => phase = "answer" \/ Len(responseIn) >= 5,
           phase' # "answer" => phase # "answer"
    PROVE  ResponseInv' /\ Stream' = Stream
<1>1. responseIn' = responseIn /\ used' = used /\ Stream' = Stream
  BY DEF response, Stream
<1>2. StreamWhole' = StreamWhole
  BY <1>1 DEF StreamWhole
<1>3. Len(responseIn) >= 5 => responseIn # <<>>
  BY StreamIs
<1>4. QED
  BY <1>1, <1>2, <1>3 DEF ResponseInv

LEMMA ClientResponse == ASSUME ResponseInv, ClientBytes PROVE ResponseInv' /\ Stream' = Stream
<1>1. /\ UNCHANGED <<response, serverRest, spliced, cut, blocked>>
      /\ phase = "idle" /\ phase' # "answer"
  BY DEF ClientBytes, server, verdicts
<1>2. lastOut' = lastOut /\ intact' = intact /\ owed' \in {0, 1}
  <2>1. CASE UNCHANGED client
    BY <2>1 DEF client, ResponseInv
  <2>2. CASE \E m \in Requests : MayBegin(m) /\ Begin(m)
    <3>1. PICK m \in Requests : MayBegin(m) /\ Begin(m)
      BY <2>2
    <3>2. QED
      BY <3>1 DEF MayBegin, Begin
  <2>3. QED
    BY <2>1, <2>2 DEF ClientBytes
<1>3. QED
  BY <1>1, <1>2, AnswersKept

LEMMA LoopPhase ==
    ASSUME NEW r, NextRequest(r), phase = "request" PROVE phase' # "answer"
BY DEF NextRequest

LEMMA QueryResponse ==
    ASSUME ResponseInv, ParseQuery
    PROVE  ResponseInv' /\ (blocked' = {} => Stream' = Stream /\ UNCHANGED <<client, blocked>>)
<1>1. phase = "request" /\ UNCHANGED <<used, serverRest, cut>>
  BY DEF ParseQuery, server
<1>2. phase' # "answer"
  BY LoopPhase DEF ParseQuery
<1>3. CASE UNCHANGED <<blocked, responseIn, spliced, client>>
  BY <1>1, <1>2, <1>3, AnswersKept DEF response, client, ResponseInv
<1>4. CASE /\ blocked' # {} /\ blocked \subseteq blocked'
           /\ IF responseIn # <<>>
                THEN /\ responseIn' = responseIn \o BlockReply
                     /\ spliced' = TRUE
                     /\ UNCHANGED client
                ELSE /\ Show(BlockReply)
                     /\ UNCHANGED <<responseIn, spliced>>
  <2>0. BlockReply \in Seq(Byte) /\ Len(BlockReply) = 11 /\ Whole(BlockReply)
    BY Messages DEF IsMessage
  <2>1. CASE responseIn # <<>>
    <3>1. responseIn' = responseIn \o BlockReply /\ spliced' = TRUE /\ UNCHANGED client
      BY <1>4, <2>1
    <3>2. responseIn' \in Seq(Byte) /\ Len(responseIn') = Len(responseIn) + 11
          /\ Len(responseIn) \in Nat
      <4>1. responseIn \in Seq(Byte)
        BY DEF ResponseInv
      <4>2. /\ responseIn \o BlockReply \in Seq(Byte) /\ Len(responseIn) \in Nat
            /\ Len(responseIn \o BlockReply) = Len(responseIn) + Len(BlockReply)
        BY <2>0, <4>1, Parts
      <4>3. QED
        BY <2>0, <3>1, <4>2
    <3>3. QED
      BY <1>1, <1>2, <1>4, <3>1, <3>2 DEF ResponseInv, client
  <2>2. CASE responseIn = <<>>
    <3>1. Show(BlockReply) /\ UNCHANGED <<responseIn, spliced>>
      BY <1>4, <2>2
    <3>2. owed' \in {0, 1}
      BY <2>0, <3>1, Counts DEF ResponseInv
    <3>3. ASSUME StreamWhole PROVE StreamWhole'
      <4> DEFINE n == Len(BlockReply)
      <4>1. Behind(BlockReply, n, <<>>) /\ Between(BlockReply, n) /\ n <= n
        BY <2>0, EmptySeq DEF Behind, Between
      <4>2. <<>> \in Seq(Byte) /\ \A i \in 1..n : BlockReply[i] = BlockReply[i]
        BY EmptySeq
      <4>3. lastOut'.at = lastOut'.of /\ intact'
        BY <2>0, <3>1, <3>3, <4>1, <4>2, Released DEF StreamWhole
      <4>4. Stream' = Stream
        BY <1>1, <3>1 DEF Stream
      <4>5. QED
        BY <1>1, <3>3, <4>3, <4>4 DEF StreamWhole
    <3>4. QED
      BY <1>1, <1>2, <1>4, <3>1, <3>2, <3>3 DEF ResponseInv
  <2>3. QED
    BY <2>1, <2>2
<1>5. QED
  BY <1>3, <1>4 DEF ParseQuery

\* The answer that Serve appends.
LEMMA Serves ==
    ASSUME Serve, messages[served + 1].kind # "noreply"
    PROVE  \E a \in {Ok, Error, Result, OldResult} :
             /\ serverRest' = serverRest \o a
             /\ a = Ok /\ messages[served + 1].kind \in {"login", "oldlogin", "change", "db"}
                => serverDb' = messages[served + 1].db
             /\ a # Ok => serverDb' = serverDb
             /\ messages[served + 1].kind \in {"query", "other"} => serverDb' = serverDb
             /\ messages[served + 1].kind = "db" => a \in {Ok, Error}
             /\ messages[served + 1].kind \in {"login", "oldlogin", "change"} => a = Ok
<1> DEFINE m == messages[served + 1]
<1>1. \/ /\ m.kind \in {"login", "oldlogin", "change", "db"}
         /\ serverDb' = m.db
         /\ serverRest' = serverRest \o Ok
      \/ /\ m.kind = "other"
         /\ serverRest' = serverRest \o Ok
         /\ UNCHANGED serverDb
      \/ /\ m.kind \in {"db", "query"}
         /\ serverRest' = serverRest \o Error
         /\ UNCHANGED serverDb
      \/ /\ m.kind = "query"
         /\ \E a \in {Ok, Result, OldResult} : serverRest' = serverRest \o a
         /\ UNCHANGED serverDb
  BY DEF Serve
<1>2. Ok # Error
  BY Messages DEF IsMessage
<1> HIDE DEF m
<1>3. CASE m.kind \in {"login", "oldlogin", "change", "db"} /\ serverDb' = m.db
           /\ serverRest' = serverRest \o Ok
  BY <1>3 DEF m
<1>4. CASE m.kind = "other" /\ serverRest' = serverRest \o Ok /\ serverDb' = serverDb
  BY <1>4 DEF m
<1>5. CASE m.kind \in {"db", "query"} /\ serverRest' = serverRest \o Error /\ serverDb' = serverDb
  BY <1>2, <1>5 DEF m
<1>6. CASE m.kind = "query" /\ serverDb' = serverDb
           /\ \E a \in {Ok, Result, OldResult} : serverRest' = serverRest \o a
  BY <1>6 DEF m
<1>7. QED
  BY <1>1, <1>3, <1>4, <1>5, <1>6

LEMMA ServeResponse ==
    ASSUME ResponseInv, Serve
    PROVE  /\ ResponseInv'
           /\ messages[served + 1].kind = "noreply" => Stream' = Stream
           /\ \A a \in {Ok, Error, Result, OldResult} :
                serverRest' = serverRest \o a => Stream' = Stream \o a
<1>1. /\ phase = "idle" /\ phase' = phase /\ responseIn' = responseIn /\ used' = used
      /\ UNCHANGED <<client, blocked, spliced, cut>>
  BY DEF Serve, response
<1>2. /\ responseIn \in Seq(Byte) /\ serverRest \in Seq(Byte) /\ used = 0
      /\ Stream \in Seq(Byte)
  BY <1>1, StreamIs DEF ResponseInv
<1>3. ASSUME NEW a \in {Ok, Error, Result, OldResult}, serverRest' = serverRest \o a
      PROVE  Stream' = Stream \o a
  <2>1. a \in Seq(Byte)
    BY AnswersAre
  <2>2. (responseIn \o serverRest) \o a = responseIn \o (serverRest \o a)
    BY <1>2, <2>1, ConcatAssociative
  <2>3. QED
    BY <1>1, <1>3, <2>2 DEF Stream
<1>4. CASE messages[served + 1].kind = "noreply"
  <2>1. serverRest' = serverRest
    BY <1>4 DEF Serve
  <2>2. ResponseInv' /\ Stream' = Stream
    BY <1>1, <2>1, AnswersKept DEF response, client, ResponseInv
  <2>3. QED
    BY <1>3, <2>2
<1>5. CASE messages[served + 1].kind # "noreply"
  <2>1. PICK a \in {Ok, Error, Result, OldResult} : serverRest' = serverRest \o a
    BY <1>5, Serves
  <2>2. a \in Seq(Byte) /\ Whole(a)
    BY AnswersAre
  <2>3. serverRest' \in Seq(Byte)
    BY <1>2, <2>1, <2>2, Parts
  <2>4. ASSUME StreamWhole PROVE StreamWhole'
    <3>1. Stream' = Stream \o a
      BY <1>3, <2>1
    <3>2. Whole(Stream') /\ Stream' \in Seq(Byte)
      BY <1>2, <2>2, <2>4, <3>1, WholeConcat, Parts DEF StreamWhole
    <3>3. QED
      BY <1>1, <1>2, <2>4, <3>2, FromStart DEF StreamWhole, client
  <2>5. ResponseInv'
    BY <1>1, <2>3, <2>4 DEF ResponseInv, client
  <2>6. QED
    BY <1>3, <1>5, <2>5
<1>6. QED
  BY <1>4, <1>5

LEMMA BackendResponse ==
    ASSUME ResponseInv, BackendBytes PROVE ResponseInv' /\ Stream' = Stream
<1>1. PICK n \in Chunks :
        /\ n <= Len(serverRest)
        /\ responseIn' = responseIn \o SubSeq(serverRest, 1, n)
        /\ serverRest' = SubSeq(serverRest, n + 1, Len(serverRest))
  BY DEF BackendBytes
<1>2. /\ phase = "idle" /\ phase' = "respond" /\ used' = 0
      /\ UNCHANGED <<client, blocked, spliced, cut>>
  BY DEF BackendBytes, verdicts
<1>3. responseIn \in Seq(Byte) /\ serverRest \in Seq(Byte) /\ used = 0 /\ Len(serverRest) \in Nat
  BY <1>2, StreamIs DEF ResponseInv
<1>4. n \in 0..Len(serverRest)
  BY <1>1, <1>3, MySQLSessionAssumption
<1>5. SubSeq(serverRest, 1, n) \in Seq(Byte) /\ serverRest' \in Seq(Byte)
  BY <1>1, <1>3, <1>4, Beginning, Rest
<1>6. responseIn' \in Seq(Byte) /\ Len(responseIn') \in Nat
  BY <1>1, <1>3, <1>5, Parts, Lengths
<1>7. Stream' = Stream
  BY <1>1, <1>3, <1>4, ChunkArrives DEF Stream
<1>8. StreamWhole' = StreamWhole
  BY <1>2, <1>3, <1>7 DEF StreamWhole, client
<1>9. QED
  BY <1>2, <1>5, <1>6, <1>7, <1>8 DEF ResponseInv, client

\* Bytes from the beginning of response_in are given to the client.
LEMMA Gives ==
    ASSUME ResponseInv, NEW n \in 0..Len(responseIn), Show(SubSeq(responseIn, 1, n)),
           responseIn' = SubSeq(responseIn, n + 1, Len(responseIn)),
           UNCHANGED <<serverRest, spliced, blocked>>, used' = 0, phase' # "answer",
           cut => cut',
           ~spliced /\ ~cut' => Between(Stream, n)
    PROVE  ResponseInv' /\ Behind(Stream, n, Stream')
<1> DEFINE t == SubSeq(responseIn, 1, n)
<1>1. /\ responseIn \in Seq(Byte) /\ serverRest \in Seq(Byte) /\ owed \in {0, 1}
      /\ Stream \in Seq(Byte) /\ Len(Stream) = Len(responseIn) + Len(serverRest)
      /\ Len(responseIn) \in Nat /\ Len(serverRest) \in Nat
      /\ \A i \in 1..Len(responseIn) : Stream[i] = responseIn[i]
  BY StreamIs DEF ResponseInv
<1>2. t \in Seq(Byte) /\ Len(t) = n /\ \A i \in 1..n : t[i] = responseIn[i]
  BY <1>1, Beginning
<1>3. responseIn' \in Seq(Byte) /\ Behind(responseIn, n, responseIn')
  BY <1>1, Rest
<1>4. Stream' = responseIn' \o serverRest
  BY DEF Stream
<1>5. Behind(Stream, n, Stream') /\ Stream' \in Seq(Byte)
  BY <1>1, <1>3, <1>4, BehindBoth, Parts DEF Stream
<1>6. owed' \in {0, 1}
  BY <1>1, <1>2, Counts
<1>7. ASSUME ~spliced', ~cut' PROVE StreamWhole'
  <2>1. StreamWhole /\ Between(Stream, n)
    BY <1>7 DEF ResponseInv
  <2>2. Len(t) <= Len(Stream) /\ \A i \in 1..Len(t) : t[i] = Stream[i]
    BY <1>1, <1>2
  <2> HIDE DEF t
  <2>3. Show(t)
    BY DEF t
  <2>4. Behind(Stream, Len(t), Stream') /\ Between(Stream, Len(t))
    BY <1>2, <1>5, <2>1
  <2>5. Whole(Stream') /\ Between(Stream', 0) /\ lastOut'.at = lastOut'.of /\ intact'
    BY <1>1, <1>2, <1>5, <2>1, <2>2, <2>3, <2>4, Released DEF StreamWhole
  <2>6. QED
    BY <2>5 DEF StreamWhole
<1>8. 0 \in 0..Len(responseIn')
  BY <1>3, Lengths
<1>9. QED
  BY <1>1, <1>3, <1>5, <1>6, <1>7, <1>8 DEF ResponseInv

LEMMA CutResponse ==
    ASSUME ResponseInv, ResponseCut
    PROVE  /\ ResponseInv' /\ Behind(Stream, Len(responseIn), Stream')
           /\ responseIn # <<>> /\ lastOut' = responseIn[Len(responseIn)]
<1> DEFINE n == Len(responseIn)
<1>1. /\ phase = "respond" /\ n \in 5..6 /\ Show(responseIn) /\ responseIn' = <<>>
      /\ cut' = (cut \/ lastOut'.at # lastOut'.of) /\ phase' = "idle"
      /\ UNCHANGED <<serverRest, spliced, blocked, used>>
  BY DEF ResponseCut, server, verdicts
<1>2. /\ responseIn \in Seq(Byte) /\ n \in Nat /\ n \in 0..n /\ responseIn # <<>>
      /\ \A i \in 1..n : Stream[i] = responseIn[i]
      /\ Stream \in Seq(Byte) /\ n <= Len(Stream)
  <2>1. /\ Stream \in Seq(Byte) /\ n \in Nat /\ (responseIn = <<>> <=> n = 0)
        /\ Len(Stream) = n + Len(serverRest) /\ Len(serverRest) \in Nat
        /\ \A i \in 1..n : Stream[i] = responseIn[i]
    BY StreamIs
  <2>2. responseIn \in Seq(Byte)
    BY DEF ResponseInv
  <2>3. n # 0
    BY <1>1
  <2>4. QED
    BY <2>1, <2>2, <2>3
<1>3. SubSeq(responseIn, 1, n) = responseIn
  BY <1>2, SubSeqFull
<1>4. responseIn' = SubSeq(responseIn, n + 1, n)
  BY <1>1, <1>2, SubSeqEmpty
<1>5. lastOut' = responseIn[n]
  BY <1>1, <1>2, Shows
<1>6. used' = 0
  BY <1>1 DEF ResponseInv
<1>7. ASSUME ~spliced, ~cut' PROVE Between(Stream, n)
  <2>1. Whole(Stream) /\ lastOut'.at = lastOut'.of
    BY <1>1, <1>7 DEF ResponseInv, StreamWhole
  <2>2. n \in 1..Len(Stream) /\ Stream[n] = lastOut'
    BY <1>1, <1>2, <1>5, StreamIs
  <2>3. QED
    BY <1>2, <2>1, <2>2, Joint
<1>8. cut => cut'
  BY <1>1
<1>9. ResponseInv' /\ Behind(Stream, n, Stream')
  BY <1>1, <1>2, <1>3, <1>4, <1>6, <1>7, <1>8, Gives
<1>10. QED
  BY <1>2, <1>5, <1>9

LEMMA DoneResponse ==
    ASSUME ResponseInv, AnswerDone
    PROVE  ResponseInv' /\ Behind(Stream, used, Stream') /\ used \in 0..Len(responseIn)
<1>1. /\ Show(SubSeq(responseIn, 1, used)) /\ used' = 0 /\ phase' = "idle"
      /\ responseIn' = SubSeq(responseIn, used + 1, Len(responseIn))
      /\ UNCHANGED <<serverRest, spliced, blocked, cut>>
  BY DEF AnswerDone, server, verdicts
<1>2. used \in 0..Len(responseIn) /\ (~spliced /\ ~cut' => Between(Stream, used))
  BY <1>1 DEF ResponseInv, StreamWhole
<1>3. QED
  BY <1>1, <1>2, Gives

LEMMA AnswerResponse ==
    ASSUME ResponseInv, NextAnswer, garbage \in Garbage
    PROVE  /\ ResponseInv' /\ Stream' = Stream /\ used < Len(responseIn)
           /\ AnswerHead = Stream[used + 1]
           /\ ~spliced /\ ~cut => AnswerHead.at = 1
<1> DEFINE h == AnswerHead
<1>1. /\ phase = "answer" /\ phase' = phase /\ used' = used + AnswerSize
      /\ used = 0 \/ AnswerLeft > 5
      /\ AnswerSize <= AnswerLeft
      /\ UNCHANGED <<responseIn, serverRest, client, blocked, spliced, cut>>
  BY DEF NextAnswer, AnswerComplete, server, verdicts
<1>2. /\ responseIn # <<>> /\ Len(responseIn) \in Nat /\ used \in 0..Len(responseIn)
      /\ Len(responseIn) # 0 /\ responseIn \in Seq(Byte) /\ Stream \in Seq(Byte)
      /\ Len(responseIn) <= Len(Stream)
      /\ \A i \in 1..Len(responseIn) : Stream[i] = responseIn[i]
  BY <1>1, StreamIs DEF ResponseInv
<1>3. used < Len(responseIn) /\ used + 1 \in 1..Len(responseIn) /\ used < Len(Stream)
  BY <1>1, <1>2 DEF AnswerLeft
<1>4. h = Stream[used + 1] /\ h.of \in Nat \ {0}
  BY <1>2, <1>3, AByte DEF AnswerHead
<1>5. AnswerSize \in Nat
  BY <1>4, MySQLSessionAssumption DEF AnswerSize
<1>6. used' \in 0..Len(responseIn')
  BY <1>1, <1>2, <1>3, <1>5 DEF AnswerLeft
<1>7. Stream' = Stream
  BY <1>1 DEF Stream
<1>8. ASSUME ~spliced, ~cut PROVE h.at = 1 /\ StreamWhole'
  <2>1. StreamWhole
    BY <1>8 DEF ResponseInv
  <2>2. h.at = 1
    BY <1>3, <1>4, <2>1 DEF StreamWhole, Between
  <2>3. used' = used + Stream[used + 1].of
    BY <1>1, <1>4, <2>2 DEF AnswerSize
  <2>4. used \in 0..Len(Stream)
    BY <1>2, <1>3, Lengths
  <2>5. Between(Stream, used')
    BY <1>2, <1>3, <2>1, <2>3, <2>4, NextPlace DEF StreamWhole
  <2>6. QED
    BY <1>1, <1>7, <2>1, <2>2, <2>5 DEF StreamWhole, client
<1>9. ResponseInv'
  BY <1>1, <1>6, <1>8 DEF ResponseInv, client
<1>10. QED
  BY <1>3, <1>4, <1>7, <1>8, <1>9

LEMMA StepResponse ==
    ASSUME RequestInv, ResponseInv, [Next]_vars PROVE ResponseInv'
<1>1. CASE ClientBytes
  BY <1>1, ClientResponse
<1>2. CASE ParseLogin
  <2>1. phase = "request" /\ phase' # "answer"
    BY <1>2, LoopPhase DEF ParseLogin
  <2>2. UNCHANGED <<response, serverRest, lastOut, intact, owed, spliced, cut, blocked>>
    BY <1>2 DEF ParseLogin, server, client, verdicts
  <2>3. QED
    BY <2>1, <2>2, AnswersKept DEF ResponseInv
<1>3. CASE ParseCommand
  <2>1. phase = "request" /\ phase' # "answer"
    BY <1>3, LoopPhase DEF ParseCommand
  <2>2. UNCHANGED <<response, serverRest, lastOut, intact, owed, spliced, cut, blocked>>
    BY <1>3 DEF ParseCommand, server, client, verdicts
  <2>3. QED
    BY <2>1, <2>2, AnswersKept DEF ResponseInv
<1>4. CASE ParseQuery
  BY <1>4, QueryResponse
<1>5. CASE Serve
  BY <1>5, ServeResponse
<1>6. CASE BackendBytes
  BY <1>6, BackendResponse
<1>7. CASE ResponseTooShort \/ ResponseFramed
  <2>1. phase = "respond" /\ (phase' = "answer" => Len(responseIn) >= 5)
    <3>1. Len(responseIn) \in Nat
      BY StreamIs
    <3>2. QED
      BY <1>7, <3>1 DEF ResponseTooShort, ResponseFramed
  <2>2. UNCHANGED <<response, serverRest, lastOut, intact, owed, spliced, cut, blocked>>
    BY <1>7 DEF ResponseTooShort, ResponseFramed, server, client, verdicts
  <2>3. QED
    BY <2>1, <2>2, AnswersKept DEF ResponseInv
<1>8. CASE ResponseCut
  BY <1>8, CutResponse
<1>9. CASE NextAnswer
  BY <1>9, AnswerResponse DEF RequestInv, Cursors
<1>10. CASE AnswerDone
  BY <1>10, DoneResponse
<1>11. CASE UNCHANGED vars
  <2>1. UNCHANGED <<phase, response, serverRest, lastOut, intact, owed, spliced, cut, blocked>>
    BY <1>11 DEF vars, server, client, verdicts
  <2>2. QED
    BY <2>1, AnswersKept DEF ResponseInv
<1>12. QED
  BY <1>1, <1>2, <1>3, <1>4, <1>5, <1>6, <1>7, <1>8, <1>9, <1>10, <1>11 DEF Next

-----------------------------------------------------------------------------
(* Queries and the databases they are executed in.                         *)

\* None of what JudgedByItsDatabase excepts has happened.
Calm == blocked = {} /\ ~ChangedUser /\ ~met /\ ~cut

\* The client's messages come one at a time: each is whole before it is taken.
OneByOne ==
    /\ taken = Sent \/ (messages # <<>> /\ taken = Final.from)
    /\ phase = "request" => taken < Sent /\ start = taken /\ received = Sent
    /\ firstRequest <=> (messages = <<>> \/ (Len(messages) = 1 /\ taken < Sent))

\* The backend executes what has been taken, in order; only its last command has an answer
\* the client waits for.
Owing ==
    /\ \A i \in 1..served : messages[i].to <= taken
    /\ \A i \in (served + 1)..(Len(messages) - 1) : messages[i].kind = "noreply"
    /\ owed = 0 /\ served < Len(messages) => Final.kind = "noreply"
    /\ Stream # <<>> => owed = 1 /\ served = Len(messages)
    /\ EndsOnce(Stream)

\* The last message of the client is taken but not executed.
Waiting == served < Len(messages) /\ taken = Sent

\* The connection's database is the backend's, but before the login is executed, and before
\* the answer to a change of database is read.
SameDatabase ==
    IF served = 0 /\ ~firstRequest THEN db = messages[1].db
    ELSE db = serverDb \/ (Stream = Ok /\ lastCommand = "db" /\ used = 0)

Agreed ==
    /\ lastCommand = "db" => served # 0
    /\ Stream # <<>> /\ lastCommand = "db" => Stream \in {Ok, Error}
    /\ Stream = Ok /\ lastCommand = "db" => newDb = serverDb
    /\ SameDatabase
    /\ Waiting /\ Len(messages) > 1 => lastCommand = Final.kind
    /\ Waiting /\ Final.kind = "db" => newDb = Final.db
    /\ Waiting /\ Final.kind = "query" => <<Final.from, Final.to, serverDb>> \in checked

Judged == misjudged = {} /\ OneByOne /\ Owing /\ Agreed

JudgeInv == Calm => Judged

LEMMA InitJudge == Init => JudgeInv
<1> SUFFICES ASSUME Init PROVE Judged
  BY DEF JudgeInv
<1>1. /\ messages = <<>> /\ Len(messages) = 0 /\ Sent = 0 /\ taken = 0 /\ phase = "idle"
      /\ firstRequest = TRUE /\ served = 0 /\ owed = 1 /\ lastCommand = "other"
      /\ db = NoDatabase /\ serverDb = NoDatabase /\ misjudged = {} /\ Stream = Greeting
  <2>1. <<>> \o Greeting = Greeting
    BY AnswersAre, ConcatEmptySeq
  <2>2. QED
    BY <2>1 DEF Init, Sent, Stream
<1>2. OneByOne
  BY <1>1 DEF OneByOne
<1>3. Owing
  BY <1>1, AnswersAre DEF Owing
<1>4. Agreed
  BY <1>1 DEF Agreed, SameDatabase, Waiting
<1>5. QED
  BY <1>1, <1>2, <1>3, <1>4 DEF Judged

\* What is excepted stays so.
LEMMA CalmBefore == ASSUME RequestInv, [Next]_vars, Calm' PROVE Calm
<1>1. DOMAIN messages = 1..Len(messages) /\ Len(messages) \in Nat
  BY Typed DEF RequestInv
<1>2. CASE ClientBytes
  <2>1. UNCHANGED <<blocked, cut>>
    BY <1>2 DEF ClientBytes, verdicts
  <2>2. CASE UNCHANGED <<messages, met, client>>
    BY <2>1, <2>2 DEF Calm, ChangedUser
  <2>3. CASE \E m \in Requests : MayBegin(m) /\ Begin(m)
    <3>1. PICK m \in Requests : MayBegin(m) /\ Begin(m)
      BY <2>3
    <3>2. /\ Framed(messages') /\ Len(messages') = Len(messages) + 1
          /\ \A i \in 1..Len(messages) : messages'[i] = messages[i]
      BY <3>1, BeginFrames DEF RequestInv
    <3>3. DOMAIN messages' = 1..Len(messages')
      BY <3>2, Typed
    <3>4. ASSUME ChangedUser PROVE ChangedUser'
      <4>1. PICK i \in 1..Len(messages) : messages[i].kind = "change"
        BY <1>1, <3>4 DEF ChangedUser
      <4>2. i \in DOMAIN messages' /\ messages'[i].kind = "change"
        BY <1>1, <3>2, <3>3, <4>1
      <4>3. QED
        BY <4>2 DEF ChangedUser
    <3>5. ~met
      BY <3>1 DEF Begin, Calm
    <3>6. QED
      BY <2>1, <3>4, <3>5 DEF Calm
  <2>4. QED
    BY <1>2, <2>2, <2>3 DEF ClientBytes
<1>3. CASE ParseLogin \/ ParseCommand \/ Serve \/ BackendBytes \/ ResponseTooShort
           \/ ResponseFramed \/ NextAnswer \/ AnswerDone \/ UNCHANGED vars
  <2>1. UNCHANGED <<messages, blocked, met, cut>>
    BY <1>3 DEF ParseLogin, ParseCommand, Serve, BackendBytes, ResponseTooShort,
                ResponseFramed, NextAnswer, AnswerDone, vars, request, verdicts
  <2>2. QED
    BY <2>1 DEF Calm, ChangedUser
<1>4. CASE ParseQuery
  <2>1. UNCHANGED <<messages, met, cut>> /\ blocked \subseteq blocked'
    BY <1>4 DEF ParseQuery
  <2>2. QED
    BY <2>1 DEF Calm, ChangedUser
<1>5. CASE ResponseCut
  <2>1. UNCHANGED <<messages, met, blocked>> /\ (cut => cut')
    BY <1>5 DEF ResponseCut, request, verdicts
  <2>2. QED
    BY <2>1 DEF Calm, ChangedUser
<1>6. QED
  BY <1>2, <1>3, <1>4, <1>5 DEF Next

\* Steps after which all is as before.
LEMMA JudgedStill ==
    ASSUME Judged, UNCHANGED <<request, firstRequest, lastCommand, db, newDb, served, serverDb,
                               owed, checked, misjudged, Stream, used>>,
           phase' = "request" => phase = "request"
    PROVE  Judged'
<1>1. /\ messages' = messages /\ taken' = taken /\ start' = start /\ received' = received
      /\ Sent' = Sent /\ Final' = Final /\ Waiting' = Waiting
  BY DEF request, Sent, Final, Waiting
<1>2. OneByOne'
  BY <1>1 DEF Judged, OneByOne
<1>3. Owing'
  BY <1>1 DEF Judged, Owing
<1>4. Agreed'
  BY <1>1 DEF Judged, Agreed, SameDatabase
<1>5. QED
  BY <1>2, <1>3, <1>4 DEF Judged

LEMMA ClientJudged ==
    ASSUME RequestInv, ResponseInv, Judged, ClientBytes, ~met' PROVE Judged'
<1>1. PICK n \in Chunks :
        /\ received' = received + n
        /\ \/ n <= Sent - received /\ UNCHANGED <<messages, met, client>>
           \/ \E m \in Requests :
                /\ MayBegin(m)
                /\ Sent - received < n /\ n <= Sent - received + m.size
                /\ Begin(m)
  BY DEF ClientBytes
<1>2. n \in Nat /\ n >= 1
  BY MySQLSessionAssumption
<1> DEFINE size == Size(HeaderAt(messages', taken))
<1>3. /\ taken' = taken /\ start' = taken
      /\ phase' = "request" => size <= received' - taken
      /\ UNCHANGED <<firstRequest, lastCommand, db, newDb, served, serverDb, checked, misjudged,
                     used, garbage>>
  BY DEF ClientBytes, session, response, server, verdicts
<1>4. /\ Framed(messages) /\ Sent \in Nat /\ received \in 0..Sent /\ taken \in 0..received
      /\ served \in 0..Len(messages) /\ Len(messages) \in Nat
      /\ (messages = <<>> <=> Len(messages) = 0)
      /\ (messages = <<>> => Sent = 0)
  BY SentIs, Typed DEF RequestInv, Cursors, SessionOK
<1>5. Stream' = Stream
  BY ClientResponse
<1>6. /\ Framed(messages') /\ received' \in 0..Sent' /\ Sent' \in Nat /\ taken \in Nat
  <2>1. RequestInv'
    BY ClientRequest
  <2>2. Framed(messages)' /\ Cursors'
    BY <2>1 DEF RequestInv
  <2>3. Sent' \in Nat
    <3>1. messages' # <<>> => messages'[Len(messages')].to \in Nat
      BY <2>2, Typed
    <3>2. QED
      BY <3>1 DEF Sent
  <2>4. QED
    BY <1>4, <2>2, <2>3 DEF Cursors
\* A complete message is the last one.
<1>7. ASSUME phase' = "request", messages' # <<>>, taken = Final'.from, Sent' = Final'.to
      PROVE  received' = Sent'
  <2>1. HeaderAt(messages', taken) = Final'
    BY <1>6, <1>7, HeaderOfFinal DEF Final
  <2>2. size = Sent' - taken
    BY <1>7, <2>1 DEF Size
  <2>3. \A x, y, z \in Nat : x - y <= z - y /\ z <= x => z = x
    OBVIOUS
  <2>4. received' \in Nat /\ received' <= Sent'
    BY <1>6
  <2>5. QED
    BY <1>3, <1>6, <1>7, <2>2, <2>3, <2>4
<1> HIDE DEF size
<1>8. CASE n <= Sent - received /\ UNCHANGED <<messages, met, client>>
  <2>1. Sent' = Sent /\ Final' = Final /\ messages' = messages /\ Waiting' = Waiting
        /\ owed' = owed
    BY <1>3, <1>8 DEF Sent, Final, Waiting, client
  <2>2. taken < Sent
    BY <1>2, <1>4, <1>8
  <2>3. messages # <<>> /\ taken = Final.from /\ Sent = Final.to
    BY <1>4, <2>2, SentIs DEF Judged, OneByOne
  <2>4. OneByOne'
    BY <1>3, <1>7, <2>1, <2>2, <2>3 DEF Judged, OneByOne
  <2>5. Owing'
    BY <1>3, <1>5, <2>1 DEF Judged, Owing
  <2>6. Agreed'
    BY <1>3, <1>5, <2>1 DEF Judged, Agreed, SameDatabase
  <2>7. QED
    BY <1>3, <2>4, <2>5, <2>6 DEF Judged
<1>9. CASE \E m \in Requests :
             /\ MayBegin(m)
             /\ Sent - received < n /\ n <= Sent - received + m.size
             /\ Begin(m)
  <2>1. PICK m \in Requests : MayBegin(m) /\ Begin(m)
    BY <1>9
  <2>2. /\ Sent' = Sent + m.size /\ m.size \in Nat /\ m.size >= 5
        /\ Len(messages') = Len(messages) + 1 /\ messages' # <<>>
        /\ \A i \in 1..Len(messages) : messages'[i] = messages[i]
        /\ Final' = [kind |-> m.kind, db |-> m.db, from |-> Sent, to |-> Sent + m.size]
    BY <1>4, <2>1, BeginFrames
  <2>3. taken = Sent /\ owed = 0
    <3>1. ~(taken < Sent)
      BY <2>1 DEF Begin
    <3>2. QED
      BY <1>4, <2>1, <3>1 DEF MayBegin
  <2>4. taken < Sent' /\ Final'.from = taken /\ Final'.to = Sent' /\ Final'.kind = m.kind
    BY <1>4, <2>2, <2>3
  <2>5. OneByOne'
    <3>1. firstRequest' <=> (messages' = <<>> \/ (Len(messages') = 1 /\ taken' < Sent'))
      <4>1. firstRequest <=> messages = <<>>
        BY <1>4, <2>3 DEF Judged, OneByOne
      <4>2. QED
        BY <1>3, <1>4, <2>2, <2>4, <4>1
    <3>2. phase' = "request" => taken' < Sent' /\ start' = taken' /\ received' = Sent'
      BY <1>3, <1>7, <2>2, <2>4
    <3>3. QED
      BY <1>3, <2>2, <2>4, <3>1, <3>2 DEF OneByOne
  <2>6. Stream = <<>> /\ Stream' = <<>>
    BY <1>5, <2>3 DEF Judged, Owing
  <2>7. Owing'
    <3>1. \A i \in 1..served' : messages'[i].to <= taken'
      <4>1. \A i \in 1..served : i \in 1..Len(messages)
        BY <1>4
      <4>2. QED
        BY <1>3, <2>2, <4>1 DEF Judged, Owing
    <3>2. ASSUME NEW i \in (served' + 1)..(Len(messages') - 1)
          PROVE  messages'[i].kind = "noreply"
      <4>1. i \in (served + 1)..Len(messages) /\ i \in 1..Len(messages)
        BY <1>3, <1>4, <2>2
      <4>2. messages'[i] = messages[i]
        BY <2>2, <4>1
      <4>3. CASE i = Len(messages)
        <5>1. served < Len(messages)
          BY <1>4, <4>1
        <5>2. Final.kind = "noreply"
          BY <2>3, <5>1 DEF Judged, Owing
        <5>3. QED
          BY <4>2, <4>3, <5>2 DEF Final
      <4>4. CASE i # Len(messages)
        <5>1. i \in (served + 1)..(Len(messages) - 1)
          BY <1>4, <4>1, <4>4
        <5>2. QED
          BY <4>2, <5>1 DEF Judged, Owing
      <4>5. QED
        BY <4>3, <4>4
    <3>3. owed' = 0 => Final'.kind = "noreply"
      BY <2>1, <2>3, <2>4 DEF Begin
    <3>4. EndsOnce(Stream') /\ Stream' = <<>>
      BY <1>5, <2>6 DEF Judged, Owing
    <3>5. QED
      BY <3>1, <3>2, <3>3, <3>4 DEF Owing
  <2>8. Agreed'
    <3>1. ~Waiting'
      BY <1>3, <1>6, <2>4 DEF Waiting
    <3>2. SameDatabase'
      <4>1. CASE served = 0 /\ ~firstRequest
        <5>1. messages # <<>>
          BY <4>1 DEF Judged, OneByOne
        <5>2. messages'[1] = messages[1]
          BY <1>4, <2>2, <5>1
        <5>3. QED
          BY <1>3, <4>1, <5>2 DEF Judged, Agreed, SameDatabase
      <4>2. CASE ~(served = 0 /\ ~firstRequest)
        BY <1>3, <1>5, <4>2 DEF Judged, Agreed, SameDatabase
      <4>3. QED
        BY <4>1, <4>2
    <3>3. QED
      BY <1>3, <1>5, <3>1, <3>2 DEF Judged, Agreed
  <2>9. QED
    BY <1>3, <2>5, <2>7, <2>8 DEF Judged
<1>10. QED
  BY <1>1, <1>8, <1>9

\* In the loop of parseRequest the buffer holds the client's last message, and nothing else.
LEMMA InLoop ==
    ASSUME RequestInv, ResponseInv, Judged, phase = "request"
    PROVE  /\ messages # <<>> /\ Current = Final /\ Sent = Final.to /\ taken < Sent
           /\ start + Size(Current) = received /\ received = Sent
           /\ served < Len(messages) /\ Stream = <<>>
<1>1. /\ Framed(messages) /\ Sent \in Nat /\ taken \in Nat
      /\ Len(messages) \in Nat /\ (messages = <<>> <=> Len(messages) = 0)
      /\ served \in 0..Len(messages)
      /\ \A i \in 1..Len(messages) : messages[i].from \in Nat /\ messages[i].to \in Nat
  BY SentIs, Typed DEF RequestInv, Cursors, SessionOK
<1>2. taken < Sent /\ start = taken /\ received = Sent
  BY DEF Judged, OneByOne
<1>3. messages # <<>> /\ taken = Final.from
  BY <1>1, <1>2 DEF Judged, OneByOne
<1>4. Sent = Final.to
  BY <1>1, <1>3, SentIs
<1>5. Current = Final
  BY <1>1, <1>3, HeaderOfFinal DEF Current, Final
<1>6. start + Size(Current) = received
  BY <1>1, <1>2, <1>3, <1>4, <1>5 DEF Size
<1>7. served # Len(messages)
  <2> SUFFICES ASSUME served = Len(messages) PROVE FALSE
    OBVIOUS
  <2>1. served \in 1..served
    BY <1>1, <1>3
  <2>2. messages[served].to <= taken
    BY <2>1 DEF Judged, Owing
  <2>3. QED
    BY <1>1, <1>2, <1>4, <2>2 DEF Final
<1>8. served < Len(messages) /\ Stream = <<>>
  BY <1>1, <1>7 DEF Judged, Owing
<1>9. QED
  BY <1>2, <1>3, <1>4, <1>5, <1>6, <1>8

\* So the loop ends with it.
LEMMA LoopEnds ==
    ASSUME RequestInv, ResponseInv, Judged, phase = "request", NEW r, NextRequest(r),
           UNCHANGED <<messages, received, served, owed>>, firstRequest' = FALSE,
           Stream' = Stream
    PROVE  /\ OneByOne' /\ Owing' /\ Waiting' /\ phase' # "request"
           /\ Final' = Final /\ Stream' = <<>>
<1>1. /\ messages # <<>> /\ Current = Final /\ Sent = Final.to /\ taken < Sent
      /\ start + Size(Current) = received /\ received = Sent
      /\ served < Len(messages) /\ Stream = <<>>
  BY InLoop
<1>2. /\ Framed(messages) /\ Sent \in Nat /\ taken \in Nat
      /\ Len(messages) \in Nat /\ (messages = <<>> <=> Len(messages) = 0)
      /\ served \in 0..Len(messages)
      /\ \A i \in 1..Len(messages) : messages[i].from \in Nat /\ messages[i].to \in Nat
  BY SentIs, Typed DEF RequestInv, Cursors, SessionOK
<1>3. taken' = Sent /\ phase' # "request"
  <2> DEFINE next == start + Size(Current)
  <2>1. ~(next + 7 <= received)
    BY <1>1, <1>2
  <2> HIDE DEF next
  <2>2. taken' = next /\ phase' = IF r /\ responseIn' # <<>> THEN "respond" ELSE "idle"
    BY <2>1 DEF NextRequest, next
  <2>3. QED
    BY <1>1, <2>2 DEF next
<1>4. Sent' = Sent /\ Final' = Final
  BY DEF Sent, Final
<1>5. OneByOne'
  BY <1>1, <1>2, <1>3, <1>4 DEF OneByOne
<1>6. \A i \in 1..served : messages[i].to <= Sent
  <2> SUFFICES ASSUME NEW i \in 1..served PROVE messages[i].to <= Sent
    OBVIOUS
  <2>1. messages[i].to <= taken /\ messages[i].to \in Nat
    BY <1>2 DEF Judged, Owing
  <2>2. QED
    BY <1>1, <1>2, <2>1
<1>7. Owing'
  BY <1>1, <1>3, <1>4, <1>6 DEF Judged, Owing
<1>8. QED
  BY <1>1, <1>3, <1>4, <1>5, <1>7 DEF Waiting

\* Behind the login a command is executed only after it.
LEMMA LoginFirst ==
    ASSUME RequestInv, Judged, Len(messages) > 1 PROVE served # 0
<1>1. Len(messages) \in Nat /\ 1 \in 1..Len(messages)
  BY Typed DEF RequestInv
<1>2. messages[1].kind \in {"login", "oldlogin"}
  BY <1>1 DEF RequestInv, Framed
<1>3. SUFFICES ASSUME served = 0 PROVE FALSE
  OBVIOUS
<1>4. 1 \in (served + 1)..(Len(messages) - 1)
  BY <1>1, <1>3
<1>5. messages[1].kind = "noreply"
  BY <1>4 DEF Judged, Owing
<1>6. QED
  BY <1>2, <1>5

LEMMA LoginJudged ==
    ASSUME RequestInv, ResponseInv, Judged, ParseLogin PROVE Judged'
<1>1. /\ phase = "request" /\ firstRequest /\ firstRequest' = FALSE /\ NextRequest(hasResponse)
      /\ \/ Current.kind = "login" /\ db' = Current.db
         \/ Current.kind = "oldlogin" /\ db' = db
      /\ UNCHANGED <<messages, received, served, owed, responseIn, serverRest, used, lastCommand,
                     newDb, serverDb, checked, misjudged>>
  BY DEF ParseLogin, response, server, client, verdicts
<1>2. /\ messages # <<>> /\ Current = Final /\ taken < Sent /\ served < Len(messages)
      /\ Stream = <<>>
  BY <1>1, InLoop
<1>3. Stream' = Stream
  BY <1>1 DEF Stream
<1>4. OneByOne' /\ Owing' /\ Waiting' /\ Final' = Final
  BY <1>1, <1>3, LoopEnds
<1>5. Len(messages) = 1 /\ served = 0 /\ Final = messages[1]
  <2>1. Len(messages) = 1
    BY <1>1, <1>2 DEF Judged, OneByOne
  <2>2. served \in 0..Len(messages)
    BY DEF RequestInv, SessionOK
  <2>3. QED
    BY <1>2, <2>1, <2>2 DEF Final
<1>6. db' = messages[1].db /\ Final.kind \in {"login", "oldlogin"}
  <2>1. Final.kind = "oldlogin" => Final.db = NoDatabase
    BY <1>5 DEF RequestInv, Framed
  <2>2. db = NoDatabase
    BY <1>1 DEF RequestInv, SessionOK
  <2>3. QED
    BY <1>1, <1>2, <1>5, <2>1, <2>2
<1>7. Agreed'
  BY <1>1, <1>2, <1>3, <1>4, <1>5, <1>6 DEF Judged, Agreed, SameDatabase
<1>8. QED
  BY <1>1, <1>4, <1>7 DEF Judged

\* Of a command that comes the backend has the same database.
LEMMA BeforeCommand ==
    ASSUME RequestInv, ResponseInv, Judged, phase = "request", ~firstRequest
    PROVE  Len(messages) > 1 /\ served # 0 /\ db = serverDb /\ Stream = <<>>
           /\ Ok # <<>>
<1>1. messages # <<>> /\ taken < Sent /\ Stream = <<>>
  BY InLoop
<1>2. Len(messages) \in Nat /\ Len(messages) # 0
  BY <1>1, Typed DEF RequestInv
<1>3. Len(messages) > 1
  BY <1>1, <1>2 DEF Judged, OneByOne
<1>4. Ok # <<>>
  BY AnswersAre
<1>5. QED
  BY <1>1, <1>3, <1>4, LoginFirst DEF Judged, Agreed, SameDatabase

LEMMA CommandJudged ==
    ASSUME RequestInv, ResponseInv, Judged, ParseCommand, ~ChangedUser PROVE Judged'
<1>1. /\ phase = "request" /\ ~firstRequest /\ firstRequest' = firstRequest
      /\ NextRequest(hasResponse) /\ Current.kind # "query" /\ lastCommand' = Current.kind
      /\ Current.kind = "db" => newDb' = Current.db
      /\ UNCHANGED <<messages, received, served, owed, responseIn, serverRest, used, db,
                     serverDb, checked, misjudged>>
  BY DEF ParseCommand, response, server, client, verdicts
<1>2. Stream' = Stream
  BY <1>1 DEF Stream
<1>3. Len(messages) > 1 /\ served # 0 /\ db = serverDb /\ Stream = <<>> /\ Ok # <<>>
  BY <1>1, BeforeCommand
<1>4. firstRequest' = FALSE
  BY <1>1 DEF RequestInv, SessionOK
<1>5. OneByOne' /\ Owing' /\ Waiting' /\ Final' = Final /\ Current = Final
  BY <1>1, <1>2, <1>4, LoopEnds, InLoop
<1>6. Agreed'
  BY <1>1, <1>2, <1>3, <1>5 DEF Agreed, SameDatabase
<1>7. QED
  BY <1>1, <1>5, <1>6 DEF Judged

LEMMA QueryJudged ==
    ASSUME RequestInv, ResponseInv, Judged, ParseQuery, blocked' = {} PROVE Judged'
<1>1. /\ phase = "request" /\ ~firstRequest /\ firstRequest' = firstRequest
      /\ Current.kind = "query" /\ lastCommand' = "query"
      /\ checked' = checked \cup {<<Current.from, Current.to, db>>}
      /\ NextRequest(hasResponse) \/ NextRequest(TRUE)
      /\ UNCHANGED <<messages, received, served, used, db, newDb, serverDb, misjudged>>
  BY DEF ParseQuery, server
<1>2. Stream' = Stream /\ owed' = owed
  BY QueryResponse DEF client
<1>3. Len(messages) > 1 /\ served # 0 /\ db = serverDb /\ Stream = <<>> /\ Ok # <<>>
  BY <1>1, BeforeCommand
<1>4. firstRequest' = FALSE
  BY <1>1 DEF RequestInv, SessionOK
<1>5. OneByOne' /\ Owing' /\ Waiting' /\ Final' = Final /\ Current = Final
  BY <1>1, <1>2, <1>4, LoopEnds, InLoop
<1>6. <<Final.from, Final.to, serverDb>> \in checked'
  BY <1>1, <1>3, <1>5
<1>7. Agreed'
  BY <1>1, <1>2, <1>3, <1>5, <1>6 DEF Agreed, SameDatabase
<1>8. QED
  BY <1>1, <1>5, <1>7 DEF Judged

-----------------------------------------------------------------------------
\* A command that is executed and answered is the last one.
LEMMA ServesLast ==
    ASSUME RequestInv, Judged, Serve, messages[served + 1].kind # "noreply"
    PROVE  /\ served + 1 = Len(messages) /\ messages[served + 1] = Final /\ Waiting
           /\ messages # <<>>
<1>1. /\ Len(messages) \in Nat /\ served \in 0..Len(messages) /\ served < Len(messages)
      /\ messages[served + 1].to <= taken
  BY Typed DEF RequestInv, SessionOK, Serve
<1>2. served + 1 = Len(messages)
  <2> SUFFICES ASSUME served + 1 # Len(messages) PROVE FALSE
    OBVIOUS
  <2>1. served + 1 \in (served + 1)..(Len(messages) - 1)
    BY <1>1
  <2>2. QED
    BY <2>1 DEF Judged, Owing
<1>3. messages[served + 1] = Final
  BY <1>2 DEF Final
<1>4. messages # <<>>
  BY <1>1, <1>2, Typed DEF RequestInv
<1>5. taken = Sent
  <2>1. Sent = Final.to /\ Sent \in Nat /\ taken \in Nat /\ taken <= Sent
    BY <1>4, SentIs DEF RequestInv, Cursors
  <2>2. QED
    BY <1>1, <1>3, <2>1
<1>6. QED
  BY <1>1, <1>2, <1>3, <1>4, <1>5 DEF Waiting

LEMMA ServeJudged ==
    ASSUME RequestInv, ResponseInv, Judged, Serve, ~ChangedUser PROVE Judged'
<1> DEFINE m == messages[served + 1]
<1>1. /\ phase = "idle" /\ phase' = phase /\ served' = served + 1 /\ served < Len(messages)
      /\ m.to <= taken
      /\ misjudged' = IF m.kind = "query" /\ <<m.from, m.to, serverDb>> \notin checked
                        THEN misjudged \cup {<<m.from, m.to>>} ELSE misjudged
      /\ UNCHANGED <<messages, received, taken, start, firstRequest, lastCommand, db, newDb,
                     used, owed, checked>>
  BY DEF Serve, request, session, response, client
<1>2. /\ Framed(messages) /\ Len(messages) \in Nat /\ served \in 0..Len(messages)
      /\ taken \in Nat /\ DOMAIN messages = 1..Len(messages)
      /\ \A i \in 1..Len(messages) : messages[i].to \in Nat
      /\ used = 0
  BY <1>1, SentIs, Typed DEF RequestInv, Cursors, SessionOK, ResponseInv
<1>3. Sent' = Sent /\ Final' = Final
  BY <1>1 DEF Sent, Final
<1>4. OneByOne'
  BY <1>1, <1>3 DEF Judged, OneByOne
<1>5. served + 1 \in 1..Len(messages) /\ served # Len(messages)
  BY <1>1, <1>2
<1>6. Stream = <<>> /\ Ok # <<>>
  BY <1>5, AnswersAre DEF Judged, Owing
<1>7. ~firstRequest
  <2>1. messages # <<>>
    <3>1. Len(messages) # 0
      <4>1. served \in Nat /\ Len(messages) \in Nat /\ served < Len(messages)
        BY <1>1, <1>2
      <4>2. QED
        BY <4>1
    <3>2. QED
      BY <1>2, <3>1, Typed
  <2>2. ASSUME Len(messages) = 1, taken < Sent PROVE FALSE
    <3>1. m = Final /\ Sent = Final.to
      BY <1>2, <1>5, <2>1, <2>2, SentIs DEF Final
    <3>2. QED
      BY <1>1, <1>2, <1>5, <2>2, <3>1
  <2>3. QED
    BY <2>1, <2>2 DEF Judged, OneByOne
<1>8. m.kind # "change"
  BY <1>2, <1>5 DEF ChangedUser
<1>9. (\A i \in 1..served' : messages[i].to <= taken)
      /\ \A i \in (served' + 1)..(Len(messages) - 1) : messages[i].kind = "noreply"
  <2>1. \A i \in 1..served' : i \in 1..served \/ i = served + 1
    BY <1>1, <1>2
  <2>2. \A i \in (served' + 1)..(Len(messages) - 1) : i \in (served + 1)..(Len(messages) - 1)
    BY <1>1, <1>2
  <2>3. QED
    BY <1>1, <2>1, <2>2 DEF Judged, Owing
<1>10. served' # 0 /\ served' <= Len(messages) /\ (served' < Len(messages) => served < Len(messages))
  BY <1>1, <1>2
<1>11. CASE m.kind = "noreply"
  <2>1. serverDb' = serverDb /\ Stream' = Stream
    BY <1>11, ServeResponse DEF Serve
  <2>2. misjudged' = {}
    BY <1>1, <1>11 DEF Judged
  <2>3. Owing'
    BY <1>1, <1>3, <1>6, <1>9, <1>10, <2>1 DEF Judged, Owing
  <2>4. served # 0
    <3>1. served = 0 => m.kind \in {"login", "oldlogin"}
      BY <1>2, <1>5 DEF Framed
    <3>2. QED
      BY <1>11, <3>1
  <2>5. db = serverDb
    BY <1>6, <2>4 DEF Judged, Agreed, SameDatabase
  <2>6. Waiting' => Waiting
    BY <1>1, <1>3 DEF Waiting
  <2>7. Agreed'
    BY <1>1, <1>3, <1>6, <1>10, <2>1, <2>5, <2>6 DEF Judged, Agreed, SameDatabase
  <2>8. QED
    BY <1>4, <2>2, <2>3, <2>7 DEF Judged
<1>12. CASE m.kind # "noreply"
  <2>1. served + 1 = Len(messages) /\ m = Final /\ Waiting
    BY <1>12, ServesLast
  <2>2. PICK a \in {Ok, Error, Result, OldResult} :
          /\ serverRest' = serverRest \o a
          /\ a = Ok /\ m.kind \in {"login", "oldlogin", "change", "db"} => serverDb' = m.db
          /\ a # Ok => serverDb' = serverDb
          /\ m.kind \in {"query", "other"} => serverDb' = serverDb
          /\ m.kind = "db" => a \in {Ok, Error}
          /\ m.kind \in {"login", "oldlogin", "change"} => a = Ok
    BY <1>12, Serves
  <2>3. Stream' = a
    <3>1. Stream' = Stream \o a
      BY <2>2, ServeResponse
    <3>2. QED
      BY <1>6, <3>1, AnswersAre, ConcatEmptySeq
  <2>4. misjudged' = {}
    BY <1>1, <2>1 DEF Judged, Agreed
  <2>5. owed = 1
    BY <1>1, <1>12, <2>1 DEF Judged, Owing, ResponseInv
  <2>6. Owing'
    BY <1>1, <1>3, <1>9, <2>1, <2>3, <2>5, AnswersAre DEF Owing
  <2>7. ~Waiting'
    BY <1>1, <1>2, <2>1 DEF Waiting
  <2>8. m.kind \in RequestKinds
    BY <1>2, <1>5, Typed
  <2>9. ASSUME lastCommand = "db" PROVE m.kind = "db" /\ newDb = m.db
    <3>1. served # 0
      BY <2>9 DEF Judged, Agreed
    <3>2. Len(messages) > 1
      BY <1>2, <2>1, <3>1
    <3>3. QED
      BY <2>1, <2>9, <3>2 DEF Judged, Agreed
  <2>10. db = serverDb' \/ (a = Ok /\ lastCommand = "db")
    <3>1. CASE served = 0
      <4>1. m.kind \in {"login", "oldlogin"} /\ m = messages[1]
        BY <1>2, <1>5, <3>1 DEF Framed
      <4>2. QED
        BY <1>7, <2>2, <3>1, <4>1 DEF Judged, Agreed, SameDatabase
    <3>2. CASE served # 0
      <4>1. db = serverDb
        BY <1>6, <3>2 DEF Judged, Agreed, SameDatabase
      <4>2. m.kind \notin {"login", "oldlogin"}
        <5>1. served + 1 # 1
          BY <1>2, <3>2
        <5>2. QED
          BY <1>2, <1>5, <5>1 DEF Framed
      <4>3. CASE m.kind = "db"
        <5>1. Len(messages) > 1
          BY <1>2, <2>1, <3>2
        <5>2. lastCommand = "db"
          BY <2>1, <4>3, <5>1 DEF Judged, Agreed
        <5>3. QED
          BY <2>2, <4>1, <5>2
      <4>4. CASE m.kind \in {"query", "other"}
        BY <2>2, <4>1, <4>4
      <4>5. QED
        BY <1>8, <1>12, <2>8, <4>2, <4>3, <4>4 DEF RequestKinds
    <3>3. QED
      BY <3>1, <3>2
  <2>11. Agreed'
    <3>1. lastCommand = "db" => a \in {Ok, Error} /\ (a = Ok => newDb = serverDb')
      BY <2>2, <2>9
    <3>2. SameDatabase'
      BY <1>1, <1>2, <1>10, <2>3, <2>10 DEF SameDatabase
    <3>3. QED
      BY <1>1, <1>10, <2>3, <2>7, <3>1, <3>2 DEF Agreed
  <2>12. QED
    BY <1>4, <2>4, <2>6, <2>11 DEF Judged
<1>13. QED
  BY <1>11, <1>12

\* The client counts an answer when it sees the last byte of it.
LEMMA ShownOwing ==
    ASSUME RequestInv, ResponseInv, Owing, NEW t \in Seq(Byte), Show(t), Len(t) <= Len(Stream),
           \A i \in 1..Len(t) : t[i] = Stream[i], Behind(Stream, Len(t), Stream'),
           Stream' \in Seq(Byte), UNCHANGED <<messages, taken, served>>
    PROVE  Owing'
<1> DEFINE n == Len(t)
<1>1. /\ Stream \in Seq(Byte) /\ n \in Nat /\ Len(Stream) \in Nat /\ (t = <<>> <=> n = 0)
      /\ (Stream = <<>> <=> Len(Stream) = 0) /\ (Stream' = <<>> <=> Len(Stream') = 0)
      /\ Len(Stream') = Len(Stream) - n /\ \A i \in 1..Len(Stream') : Stream'[i] = Stream[n + i]
  BY Lengths, StreamIs DEF Behind
<1>2. Final' = Final
  BY DEF Final
<1>3. \A i \in 1..Len(Stream) : IsEnd(Stream[i]) <=> i = Len(Stream)
  BY DEF Owing, EndsOnce
<1>4. EndsOnce(Stream')
  <2> SUFFICES ASSUME NEW i \in 1..Len(Stream') PROVE IsEnd(Stream'[i]) <=> i = Len(Stream')
    BY DEF EndsOnce
  <2>1. n + i \in 1..Len(Stream) /\ (n + i = Len(Stream) <=> i = Len(Stream'))
    BY <1>1
  <2>2. Stream'[i] = Stream[n + i]
    BY <1>1
  <2>3. QED
    BY <1>3, <2>1, <2>2
<1>5. CASE Stream' # <<>>
  <2>1. ASSUME NEW i \in 1..n PROVE ~IsEnd(t[i])
    <3>1. i \in 1..Len(Stream) /\ i # Len(Stream)
      BY <1>1, <1>5
    <3>2. QED
      BY <1>3, <3>1
  <2>2. owed' = owed
    BY <2>1, Counts DEF ResponseInv
  <2>3. Stream # <<>>
    BY <1>1, <1>5
  <2>4. QED
    BY <1>2, <1>4, <2>2, <2>3 DEF Owing
<1>6. CASE Stream' = <<>> /\ Stream # <<>>
  <2>1. n = Len(Stream) /\ t # <<>>
    BY <1>1, <1>6
  <2>2. served = Len(messages) /\ Len(messages) \in Nat
    BY <1>6, Typed DEF Owing, RequestInv
  <2>3. ~(served < Len(messages))
    BY <2>2
  <2>4. QED
    BY <1>2, <1>4, <1>6, <2>3 DEF Owing
<1>7. CASE Stream = <<>> /\ Stream' = <<>>
  <2>1. t = <<>>
    BY <1>1, <1>7
  <2>2. owed' = owed
    BY <2>1, Counts DEF ResponseInv, client
  <2>3. QED
    BY <1>2, <1>4, <1>7, <2>2 DEF Owing
<1>8. CASE Stream = <<>> /\ Stream' # <<>>
  BY <1>1, <1>8
<1>9. QED
  BY <1>5, <1>6, <1>7, <1>8

LEMMA CutJudged ==
    ASSUME RequestInv, ResponseInv, Judged, ResponseCut, ~cut' PROVE Judged'
<1> DEFINE n == Len(responseIn)
<1>1. /\ phase' = "idle" /\ n \in 5..6 /\ Show(responseIn)
      /\ lastOut'.at = lastOut'.of
      /\ UNCHANGED <<messages, received, taken, start, firstRequest, lastCommand, db, newDb,
                     used, served, serverDb, checked, misjudged>>
  BY DEF ResponseCut, request, session, server, verdicts
<1>2. ResponseInv' /\ Behind(Stream, n, Stream') /\ lastOut' = responseIn[n]
  BY CutResponse
<1>3. /\ responseIn \in Seq(Byte) /\ n <= Len(Stream)
      /\ \A i \in 1..n : responseIn[i] = Stream[i]
  BY StreamIs DEF ResponseInv
<1>4. Stream' \in Seq(Byte)
  <2>1. responseIn' \in Seq(Byte) /\ serverRest' \in Seq(Byte)
    BY <1>2 DEF ResponseInv
  <2>2. QED
    BY <2>1, Parts DEF Stream
<1>5. Owing'
  BY <1>1, <1>2, <1>3, <1>4, ShownOwing DEF Judged
<1>6. Sent' = Sent /\ Final' = Final /\ Waiting' = Waiting
  BY <1>1 DEF Sent, Final, Waiting
<1>7. OneByOne'
  BY <1>1, <1>6 DEF Judged, OneByOne
<1>8. Stream # <<>> /\ n \in 1..n
  <2>1. Len(Stream) \in Nat /\ (Stream = <<>> <=> Len(Stream) = 0)
    BY StreamIs
  <2>2. n \in 1..n /\ n >= 5
    <3>1. \A k \in 5..6 : k \in 1..k /\ k >= 5
      OBVIOUS
    <3>2. QED
      BY <1>1, <3>1
  <2>3. Len(Stream) # 0
    BY <1>3, <2>1, <2>2
  <2>4. QED
    BY <2>1, <2>2, <2>3
\* The answer to a change of database is not cut so that its last byte is shown.
<1>9. lastCommand # "db"
  <2> SUFFICES ASSUME lastCommand = "db" PROVE FALSE
    OBVIOUS
  <2>1. Stream \in {Ok, Error}
    BY <1>8 DEF Judged, Agreed
  <2>2. \A i \in 5..6 : Stream[i].at # Stream[i].of
    <3>1. /\ \A i \in 1..11 : Ok[i].at = i /\ Ok[i].of = 11
          /\ \A i \in 1..15 : Error[i].at = i /\ Error[i].of = 15
      BY Messages DEF IsMessage
    <3>2. QED
      BY <2>1, <3>1
  <2>3. lastOut' = Stream[n]
    BY <1>2, <1>3, <1>8
  <2>4. QED
    BY <1>1, <2>2, <2>3
<1>10. Agreed'
  BY <1>1, <1>6, <1>9 DEF Judged, Agreed, SameDatabase
<1>11. QED
  BY <1>1, <1>5, <1>7, <1>10 DEF Judged

\* Of the answer to a change of database a part is never between messages.
LEMMA NoPart ==
    ASSUME NEW s \in {Ok, Error}, NEW p \in 0..Len(s), Between(s, p)
    PROVE  p = 0 \/ p = Len(s)
<1>1. /\ Len(Ok) = 11 /\ Len(Error) = 15
      /\ \A i \in 1..11 : Ok[i].at = i
      /\ \A i \in 1..15 : Error[i].at = i
  BY Messages DEF IsMessage
<1>2. SUFFICES ASSUME p # 0, p # Len(s) PROVE FALSE
  OBVIOUS
<1>3. Len(s) \in Nat /\ p < Len(s) /\ p + 1 \in 1..Len(s) /\ p + 1 # 1
  BY <1>1, <1>2
<1>4. s[p + 1].at = p + 1
  <2>1. CASE s = Ok
    <3>1. p + 1 \in 1..11
      BY <1>1, <1>3, <2>1
    <3>2. QED
      BY <1>1, <2>1, <3>1
  <2>2. CASE s = Error
    <3>1. p + 1 \in 1..15
      BY <1>1, <1>3, <2>2
    <3>2. QED
      BY <1>1, <2>2, <3>1
  <2>3. QED
    BY <2>1, <2>2
<1>5. QED
  BY <1>3, <1>4 DEF Between

LEMMA DoneJudged ==
    ASSUME RequestInv, ResponseInv, Judged, AnswerDone, ~spliced, ~cut PROVE Judged'
<1> DEFINE t == SubSeq(responseIn, 1, used)
<1>1. /\ phase' = "idle" /\ Show(t) /\ used' = 0
      /\ UNCHANGED <<messages, received, taken, start, firstRequest, lastCommand, db, newDb,
                     served, serverDb, checked, misjudged>>
  BY DEF AnswerDone, request, session, server, verdicts
<1>2. ResponseInv' /\ Behind(Stream, used, Stream') /\ used \in 0..Len(responseIn)
  BY DoneResponse
<1>3. /\ responseIn \in Seq(Byte) /\ Len(responseIn) \in Nat /\ Len(responseIn) <= Len(Stream)
      /\ \A i \in 1..Len(responseIn) : responseIn[i] = Stream[i]
      /\ Stream \in Seq(Byte) /\ Len(Stream) \in Nat
  BY StreamIs DEF ResponseInv
<1>4. t \in Seq(Byte) /\ Len(t) = used /\ \A i \in 1..used : t[i] = responseIn[i]
  BY <1>2, <1>3, Beginning
<1>5. Stream' \in Seq(Byte)
  <2>1. responseIn' \in Seq(Byte) /\ serverRest' \in Seq(Byte)
    BY <1>2 DEF ResponseInv
  <2>2. QED
    BY <2>1, Parts DEF Stream
<1> HIDE DEF t
<1>6. Len(t) <= Len(Stream) /\ (\A i \in 1..Len(t) : t[i] = Stream[i])
      /\ Behind(Stream, Len(t), Stream')
  BY <1>2, <1>3, <1>4
<1>7. Owing'
  BY <1>1, <1>4, <1>5, <1>6, ShownOwing DEF Judged
<1>8. Sent' = Sent /\ Final' = Final /\ Waiting' = Waiting
  BY <1>1 DEF Sent, Final, Waiting
<1>9. OneByOne'
  BY <1>1, <1>8 DEF Judged, OneByOne
<1>10. Agreed'
  <2>1. CASE lastCommand # "db"
    BY <1>1, <1>8, <2>1 DEF Judged, Agreed, SameDatabase
  <2>2. CASE used = 0
    <3>1. Len(Stream') = Len(Stream) /\ \A i \in 1..Len(Stream') : Stream'[i] = Stream[0 + i]
      BY <1>2, <1>3, <2>2 DEF Behind
    <3>2. \A i \in 1..Len(Stream) : 0 + i = i
      BY <1>3
    <3>3. Stream' = Stream
      BY <1>3, <1>5, <3>1, <3>2, SeqEqual
    <3>4. QED
      BY <1>1, <1>8, <2>2, <3>3 DEF Judged, Agreed, SameDatabase
  <2>3. CASE lastCommand = "db" /\ used # 0
    <3>1. Stream # <<>>
      BY <1>2, <1>3, <2>3, Lengths
    <3>2. Stream \in {Ok, Error}
      BY <2>3, <3>1 DEF Judged, Agreed
    <3>3. used = Len(Stream)
      BY <1>2, <1>3, <2>3, <3>2, NoPart DEF ResponseInv, StreamWhole
    <3>4. Stream' = <<>>
      BY <1>2, <1>3, <1>5, <3>3, Lengths DEF Behind
    <3>5. Ok # <<>>
      BY AnswersAre
    <3>6. QED
      BY <1>1, <1>8, <2>3, <3>4, <3>5 DEF Judged, Agreed, SameDatabase
  <2>4. QED
    BY <2>1, <2>2, <2>3
<1>11. QED
  BY <1>1, <1>7, <1>9, <1>10 DEF Judged

LEMMA AnswerJudged ==
    ASSUME RequestInv, ResponseInv, Judged, NextAnswer, ~spliced, ~cut PROVE Judged'
<1>1. /\ phase = "answer" /\ phase' = phase
      /\ db' = IF ChangesDb /\ ~firstRequest THEN newDb ELSE db
      /\ UNCHANGED <<messages, received, taken, start, firstRequest, lastCommand, newDb,
                     served, serverDb, owed, checked, misjudged>>
  BY DEF NextAnswer, request, server, client, verdicts
<1>2. /\ Stream' = Stream /\ used < Len(responseIn) /\ AnswerHead = Stream[used + 1]
      /\ AnswerHead.at = 1
  BY AnswerResponse DEF RequestInv, Cursors
<1>3. /\ Stream \in Seq(Byte) /\ Len(responseIn) <= Len(Stream) /\ used \in Nat
      /\ Len(Stream) \in Nat /\ Len(responseIn) \in Nat /\ (Stream = <<>> <=> Len(Stream) = 0)
  BY StreamIs
<1>4. Stream # <<>> /\ used \in 0..Len(Stream) /\ used # Len(Stream)
  BY <1>2, <1>3
<1>5. Sent' = Sent /\ Final' = Final /\ Waiting' = Waiting
  BY <1>1 DEF Sent, Final, Waiting
<1>6. OneByOne'
  BY <1>1, <1>5 DEF Judged, OneByOne
<1>7. Owing'
  BY <1>1, <1>2, <1>5 DEF Judged, Owing
<1>8. served = Len(messages)
  BY <1>4 DEF Judged, Owing
<1>9. ~(served = 0 /\ ~firstRequest)
  <2>1. served = 0 => messages = <<>>
    BY <1>8, Typed DEF RequestInv
  <2>2. QED
    BY <2>1 DEF Judged, OneByOne
<1>10. db' = serverDb
  <2>1. db = serverDb \/ (Stream = Ok /\ lastCommand = "db" /\ used = 0)
    BY <1>9 DEF Judged, Agreed, SameDatabase
  <2>2. CASE lastCommand # "db"
    BY <1>1, <2>1, <2>2 DEF ChangesDb
  <2>3. CASE lastCommand = "db"
    <3>1. Stream \in {Ok, Error}
      BY <1>4, <2>3 DEF Judged, Agreed
    <3>2. used = 0
      BY <1>4, <3>1, NoPart DEF ResponseInv, StreamWhole
    <3>3. Ok[1].kind = "ok" /\ Error[1].kind = "error"
      BY Messages DEF IsMessage
    <3>4. CASE Stream = Ok
      <4>1. ChangesDb
        BY <1>2, <2>3, <3>2, <3>3, <3>4 DEF ChangesDb
      <4>2. ~firstRequest
        <5>1. served # 0
          BY <2>3 DEF Judged, Agreed
        <5>2. Len(messages) \in Nat /\ messages # <<>> /\ served \in 1..served
          BY <1>8, <5>1, Typed DEF RequestInv
        <5>3. Final.to <= taken /\ Sent = Final.to /\ Sent \in Nat /\ taken \in Nat
          BY <1>8, <5>2, SentIs DEF Judged, Owing, Final, RequestInv, Cursors
        <5>4. QED
          BY <5>2, <5>3 DEF Judged, OneByOne
      <4>3. newDb = serverDb
        BY <2>3, <3>4 DEF Judged, Agreed
      <4>4. QED
        BY <1>1, <4>1, <4>2, <4>3
    <3>5. CASE Stream # Ok
      <4>1. Stream = Error
        BY <3>1, <3>5
      <4>2. ~ChangesDb
        BY <1>2, <3>2, <3>3, <4>1 DEF ChangesDb
      <4>3. QED
        BY <1>1, <2>1, <3>5, <4>2
    <3>6. QED
      BY <3>4, <3>5
  <2>4. QED
    BY <2>2, <2>3
<1>11. Agreed'
  BY <1>1, <1>2, <1>5, <1>9, <1>10 DEF Judged, Agreed, SameDatabase
<1>12. QED
  BY <1>1, <1>6, <1>7, <1>11 DEF Judged

LEMMA StepJudge ==
    ASSUME RequestInv, ResponseInv, JudgeInv, [Next]_vars PROVE JudgeInv'
<1> SUFFICES ASSUME Calm' PROVE Judged'
  BY DEF JudgeInv
<1>1. Calm /\ Judged
  BY CalmBefore DEF JudgeInv
<1>2. ~spliced /\ ~cut /\ ~ChangedUser
  BY <1>1 DEF Calm, ResponseInv
<1>3. blocked' = {} /\ ~met' /\ ~cut'
  BY DEF Calm
<1>4. CASE ClientBytes
  BY <1>1, <1>3, <1>4, ClientJudged
<1>5. CASE ParseLogin
  BY <1>1, <1>5, LoginJudged
<1>6. CASE ParseCommand
  BY <1>1, <1>2, <1>6, CommandJudged
<1>7. CASE ParseQuery
  BY <1>1, <1>3, <1>7, QueryJudged
<1>8. CASE Serve
  BY <1>1, <1>2, <1>8, ServeJudged
<1>9. CASE BackendBytes
  <2>1. Stream' = Stream
    BY <1>9, BackendResponse
  <2>2. UNCHANGED <<request, firstRequest, lastCommand, db, newDb, served, serverDb, owed,
                    checked, misjudged, used>> /\ phase' # "request"
    BY <1>9 DEF BackendBytes, session, client, verdicts, ResponseInv
  <2>3. QED
    BY <1>1, <2>1, <2>2, JudgedStill
<1>10. CASE ResponseTooShort \/ ResponseFramed \/ UNCHANGED vars
  <2>1. UNCHANGED <<request, firstRequest, lastCommand, db, newDb, served, serverDb, owed,
                    checked, misjudged, used, Stream>> /\ (phase' = "request" => phase = "request")
    BY <1>10 DEF ResponseTooShort, ResponseFramed, vars, session, response, server, client,
                 verdicts, Stream
  <2>2. QED
    BY <1>1, <2>1, JudgedStill
<1>11. CASE ResponseCut
  BY <1>1, <1>3, <1>11, CutJudged
<1>12. CASE NextAnswer
  BY <1>1, <1>2, <1>12, AnswerJudged
<1>13. CASE AnswerDone
  BY <1>1, <1>2, <1>13, DoneJudged
<1>14. QED
  BY <1>4, <1>5, <1>6, <1>7, <1>8, <1>9, <1>10, <1>11, <1>12, <1>13 DEF Next

-----------------------------------------------------------------------------
Inv == RequestInv /\ ResponseInv /\ JudgeInv

THEOREM Invariance == Spec => []Inv
<1>1. Init => Inv
  BY InitRequest, InitResponse, InitJudge DEF Inv
<1>2. Inv /\ [Next]_vars => Inv'
  BY StepRequest, StepResponse, StepJudge DEF Inv
<1>3. QED
  BY <1>1, <1>2, PTL DEF Spec

\* The state of a MySQL connection has its types: its cursors stay within what has arrived
\* and the client waits for one answer at most, however the streams are cut.
THEOREM TypeCorrect == Spec => []TypeOK
<1>1. Inv => TypeOK
  <2> SUFFICES ASSUME Inv PROVE TypeOK
    OBVIOUS
  <2>1. owed \in 0..MaxRequests + 1
    BY MySQLSessionAssumption DEF Inv, ResponseInv
  <2>2. QED
    BY <2>1 DEF Inv, RequestInv, Framed, Cursors, SessionOK, ResponseInv, TypeOK, Db
<1>2. QED
  BY <1>1, Invariance, PTL

\* The client sees whole messages, unless a reply has joined a part of one.
THEOREM AnswersAreWhole == Spec => []WholeAnswers
<1>1. Inv => WholeAnswers
  BY DEF Inv, ResponseInv, StreamWhole, WholeAnswers
<1>2. QED
  BY <1>1, Invariance, PTL

\* Each query the backend executes was judged by the permissions of the database it is
\* executed in, but in the cases that JudgedByItsDatabase names.
THEOREM JudgedRight == Spec => []JudgedByItsDatabase
<1>1. Inv => JudgedByItsDatabase
  BY DEF Inv, JudgeInv, Judged, Calm, JudgedByItsDatabase
<1>2. QED
  BY <1>1, Invariance, PTL
=============================================================================
