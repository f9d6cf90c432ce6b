------------------------------ MODULE PgSession ------------------------------
(***************************************************************************)
(* Framing and verdicts on a PostgreSQL connection (PgSQLConnection in      *)
(* src/pgsql/pgsql_con.cpp).  Relay takes parseRequest and parseResponse   *)
(* for what they may do to the buffers; this module says when they do it.  *)
(*                                                                         *)
(* Both peers send messages that recv cuts anywhere.  The client's bytes   *)
(* are positions of its stream, so request_in is taken + 1 .. received.  A *)
(* message is known by the interval of positions it occupies.  The loops   *)
(* over the messages of a buffer run one message per step; the event loop  *)
(* is single-threaded, so no callback comes in between.                    *)
(*                                                                         *)
(* A header that is read where no message begins has arbitrary contents,   *)
(* the constant Garbage; they are the same whenever it is read again.      *)
(***************************************************************************)
EXTENDS Integers, MessageBytes

CONSTANTS Requests,      \* the client's messages: records of kind and size
          Answers,       \* the backend's messages: records of kind and size
          Garbage,       \* what a header inside a message may be read as
          Chunks,        \* numbers of bytes a recv may return
          MaxRequests,   \* bound: messages of the client
          MaxAnswers     \* bound: messages of the backend

RequestKinds == {"ssl", "startup", "password", "query", "parse", "other"}
AnswerKinds  == {"auth", "error", "data"}

ASSUME PgSessionAssumption ==
    /\ Requests \subseteq [kind : RequestKinds, size : Nat \ (0..4)]
    /\ Answers \subseteq [kind : AnswerKinds, size : Nat \ (0..4)]
    /\ Garbage \subseteq [kind : RequestKinds \cup AnswerKinds, size : Nat \ {0}]
    /\ Chunks \subseteq Nat \ {0}
    /\ MaxRequests \in Nat /\ MaxAnswers \in Nat

VARIABLES
    phase,         \* "idle", "request", "fast", "parse" or "closed"
    firstRequest,  \* Connection::first_request
    secondPacket,  \* Connection::SecondPacket
    messages,      \* the client's messages begun so far
    received,      \* bytes received from the client
    taken,         \* bytes that have left request_in
    start,         \* the cursor of parseRequest
    hasResponse,   \* its result of that name
    responseIn,    \* response_in
    used,          \* the cursor of parseResponse
    serverRest,    \* what the backend has still to send of its current message
    answers,       \* the number of messages the backend has begun
    garbage,       \* contents of a header that is none
    dropped,       \* history: intervals that left request_in without being released
    checked,       \* history: intervals shown to check_query
    lastOut,       \* history: the last byte given to the client
    intact,        \* history: the client has seen whole messages only
    spliced        \* history: a reply has joined a part of a message

request  == <<messages, received, taken, start, firstRequest>>
response == <<responseIn, used, secondPacket, serverRest, answers>>
client   == <<lastOut, intact>>
verdicts == <<dropped, checked>>
vars     == <<phase, request, response, client, verdicts, hasResponse, garbage, spliced>>

-----------------------------------------------------------------------------
\* The byte stream to the client.

Byte == [kind : AnswerKinds \cup {"reply", "ssl"}, at : Nat, of : Nat]

\* blockResponse: a row description, a completed command and ReadyForQuery.
BlockReply == Bytes("reply", 7) \o Bytes("reply", 12) \o Bytes("reply", 6)

\* The answer to an SSL request.
SslReply == Bytes("ssl", 1)

Show(bytes) ==
    IF bytes = <<>> THEN UNCHANGED client
    ELSE /\ lastOut' = bytes[Len(bytes)]
         /\ intact' = (intact /\ Continues(lastOut, bytes))

-----------------------------------------------------------------------------
\* The byte stream from the client.

Sent == IF messages = <<>> THEN 0 ELSE messages[Len(messages)].to

\* The header behind position p.
HeaderAt(msgs, p) ==
    IF \E i \in DOMAIN msgs : msgs[i].from = p
      THEN LET m == CHOOSE m \in {msgs[i] : i \in DOMAIN msgs} : m.from = p
           IN  [kind |-> m.kind, size |-> m.to - m.from]
      ELSE garbage

Message(m, p) == [kind |-> m.kind, from |-> p, to |-> p + m.size]

\* A client begins with SSL requests or its startup message, waits for each to
\* be taken, and may pipeline messages only after the startup message.
MayBegin(m) ==
    /\ Len(messages) < MaxRequests
    /\ m.kind \in {"ssl", "startup"} <=>
         \A i \in DOMAIN messages : messages[i].kind = "ssl"
    /\ firstRequest => taken = Sent

-----------------------------------------------------------------------------
Init ==
    /\ phase = "idle"
    /\ firstRequest = TRUE /\ secondPacket = FALSE
    /\ messages = <<>> /\ received = 0 /\ taken = 0 /\ start = 0
    /\ hasResponse = FALSE
    /\ responseIn = <<>> /\ used = 0
    /\ serverRest = <<>> /\ answers = 0
    /\ garbage \in Garbage
    /\ dropped = {} /\ checked = {}
    /\ lastOut = NoByte /\ intact = TRUE /\ spliced = FALSE

-----------------------------------------------------------------------------
\* parseResponse, entered when response_in holds bytes.  A login message or an
\* error at its beginning sends it to parse_response.
AnswerPhase(bytes) ==
    LET kind == IF bytes[1].at = 1 THEN bytes[1].kind ELSE garbage.kind
    IN  IF firstRequest \/ secondPacket \/ kind \in {"auth", "error"}
          THEN "parse" ELSE "fast"

\* The reply of parseRequest joins response_in behind what waits there, or goes
\* to the client.
PushReply(bytes) ==
    IF responseIn # <<>>
      THEN /\ responseIn' = responseIn \o bytes
           /\ spliced' = TRUE
           /\ UNCHANGED client
      ELSE /\ Show(bytes)
           /\ UNCHANGED <<responseIn, spliced>>

\* Where ProxyValidateClientRequest goes when parseRequest is done.
AfterRequest(replied) ==
    /\ hasResponse' = FALSE
    /\ IF replied /\ responseIn' # <<>>
         THEN phase' = AnswerPhase(responseIn') /\ used' = 0
         ELSE phase' = "idle" /\ UNCHANGED used

-----------------------------------------------------------------------------
\* parseRequest.

\* Fewer than five bytes wait for more.
RequestTooShort ==
    /\ received' - taken < 5
    /\ phase' = "idle"
    /\ UNCHANGED <<taken, start, firstRequest, hasResponse, response, client,
                   verdicts, spliced>>

\* Eight bytes are taken for an SSL request: they are dropped and answered "N".
RequestOfEight ==
    /\ received' - taken = 8
    /\ PushReply(SslReply)
    /\ AfterRequest(TRUE)
    /\ taken' = received'
    /\ dropped' = dropped \cup {<<taken, received'>>}
    /\ UNCHANGED <<start, firstRequest, secondPacket, serverRest, answers,
                   checked>>

\* The startup message is released with all that came with it, or waits to be
\* complete; one of fewer than 13 bytes closes the connection.
RequestFirst ==
    LET full == received' - taken
        size == HeaderAt(messages', taken).size
    IN  /\ firstRequest /\ full >= 5 /\ full # 8
        /\ \/ /\ size > full
              /\ phase' = "idle" /\ UNCHANGED <<taken, firstRequest>>
           \/ /\ size <= full /\ size < 13
              /\ phase' = "closed" /\ UNCHANGED <<taken, firstRequest>>
           \/ /\ size <= full /\ size >= 13
              /\ phase' = "idle" /\ taken' = received' /\ firstRequest' = FALSE
        /\ UNCHANGED <<start, hasResponse, response, client, verdicts, spliced>>

\* Other buffers are framed, message by message.
RequestFramed ==
    /\ ~firstRequest /\ received' - taken >= 5 /\ received' - taken # 8
    /\ phase' = "request"
    /\ start' = taken
    /\ UNCHANGED <<taken, firstRequest, hasResponse, response, client, verdicts,
                   spliced>>

\* The client's next bytes arrive, up to the end of its message or into the next.
ClientBytes ==
    /\ phase = "idle"
    /\ \E n \in Chunks :
         /\ received' = received + n
         /\ \/ n <= Sent - received /\ UNCHANGED messages
            \/ \E m \in Requests :
                 /\ MayBegin(m)
                 /\ Sent - received < n /\ n <= Sent - received + m.size
                 /\ messages' = Append(messages, Message(m, Sent))
    /\ \/ RequestTooShort
       \/ RequestOfEight
       \/ RequestFirst
       \/ RequestFramed
    /\ UNCHANGED garbage

\* The complete message at the loop's cursor, as parse_request sees it.
Current  == HeaderAt(messages, start)
Complete == start + Current.size <= received
Interval == <<start, start + Current.size>>

\* Mutant: prepared statements are not examined.
IsQuery_SimpleOnly(m) == m.kind = "query" /\ m.size # 16

\* parse_request takes any message of 16 bytes for a cancel request.
IsQuery(m) == m.kind \in {"query", "parse"} /\ m.size # 16

\* Mutant: a header is expected in six bytes.
NextRequest_OffByOne(replied) ==
    LET next == start + Current.size
    IN  IF next + 6 <= received
          THEN /\ phase' = "request" /\ start' = next
               /\ hasResponse' = replied
               /\ UNCHANGED <<taken, used>>
          ELSE /\ taken' = next
               /\ UNCHANGED start
               /\ AfterRequest(replied)

\* The cursor moves behind the message; the loop goes on while a header follows.
NextRequest(replied) ==
    LET next == start + Current.size
    IN  IF next + 5 <= received
          THEN /\ phase' = "request" /\ start' = next
               /\ hasResponse' = replied
               /\ UNCHANGED <<taken, used>>
          ELSE /\ taken' = next
               /\ UNCHANGED start
               /\ AfterRequest(replied)

\* parse_request of a message that is not a query.
ParseOther ==
    /\ phase = "request" /\ Complete /\ ~IsQuery(Current)
    /\ secondPacket' = (secondPacket \/ (Current.kind = "password" /\ Current.size # 16))
    /\ UNCHANGED <<responseIn, spliced, client, checked>>
    /\ NextRequest(hasResponse)
    /\ UNCHANGED <<messages, received, firstRequest, serverRest, answers, dropped,
                   garbage>>

\* parse_request of a query or a prepared statement: check_query refuses it, and
\* a reply is made up, or it does not.  Its bytes are released either way.
ParseQuery ==
    /\ phase = "request" /\ Complete /\ IsQuery(Current)
    /\ checked' = checked \cup {Interval}
    /\ \/ UNCHANGED <<responseIn, spliced, client>> /\ NextRequest(hasResponse)
       \/ PushReply(BlockReply) /\ NextRequest(TRUE)
    /\ UNCHANGED <<messages, received, firstRequest, secondPacket, serverRest,
                   answers, dropped, garbage>>

\* Mutant: the buffer is popped to the end of the message.
RequestDone_PopsMessage ==
    /\ phase = "request" /\ ~Complete
    /\ taken' = start + Current.size
    /\ UNCHANGED <<messages, received, start, firstRequest, responseIn, secondPacket,
                   serverRest, answers, client, verdicts, garbage, spliced>>
    /\ AfterRequest(hasResponse)

\* The buffer ends inside a message.
RequestDone ==
    /\ phase = "request" /\ ~Complete
    /\ taken' = start
    /\ UNCHANGED <<messages, received, start, firstRequest, responseIn, secondPacket,
                   serverRest, answers, client, verdicts, garbage, spliced>>
    /\ AfterRequest(hasResponse)

-----------------------------------------------------------------------------
\* parseResponse.

\* The backend's next bytes arrive; it sends nothing before the startup message.
BackendBytes ==
    /\ phase = "idle" /\ ~firstRequest
    /\ \E n \in Chunks :
         \/ /\ n <= Len(serverRest)
            /\ responseIn' = responseIn \o SubSeq(serverRest, 1, n)
            /\ serverRest' = SubSeq(serverRest, n + 1, Len(serverRest))
            /\ UNCHANGED answers
         \/ \E m \in Answers :
              LET rest == serverRest \o Bytes(m.kind, m.size)
              IN  /\ answers < MaxAnswers
                  /\ Len(serverRest) < n /\ n <= Len(rest)
                  /\ responseIn' = responseIn \o SubSeq(rest, 1, n)
                  /\ serverRest' = SubSeq(rest, n + 1, Len(rest))
                  /\ answers' = answers + 1
    /\ phase' = AnswerPhase(responseIn')
    /\ used' = 0
    /\ UNCHANGED <<request, secondPacket, client, verdicts, hasResponse, garbage,
                   spliced>>

AnswerLeft == Len(responseIn) - used

\* The size in the header at the cursor of parseResponse.
AnswerSize ==
    LET b == responseIn[used + 1]
    IN  IF b.at = 1 /\ b.kind # "ssl" THEN b.of ELSE garbage.size

\* Mutant: a message that ends with the buffer is not complete.
AnswerComplete_Strict == AnswerLeft >= 5 /\ AnswerSize < AnswerLeft

AnswerComplete == AnswerLeft >= 5 /\ AnswerSize <= AnswerLeft

NextAnswer ==
    /\ phase \in {"fast", "parse"} /\ AnswerComplete
    /\ used' = used + AnswerSize
    /\ UNCHANGED <<phase, request, responseIn, secondPacket, serverRest, answers,
                   client, verdicts, hasResponse, garbage, spliced>>

\* Mutant: the whole buffer is released, an incomplete message with it.
Release_All ==
    /\ phase' = "idle"
    /\ used' = 0
    /\ Show(responseIn)
    /\ responseIn' = <<>>

\* What the cursor has passed goes to the client.
Release ==
    /\ phase' = "idle"
    /\ used' = 0
    /\ Show(SubSeq(responseIn, 1, used))
    /\ responseIn' = SubSeq(responseIn, used + 1, Len(responseIn))

\* Outside the login, the complete messages are released.
FastDone ==
    /\ phase = "fast" /\ ~AnswerComplete
    /\ Release
    /\ UNCHANGED <<request, secondPacket, serverRest, answers, verdicts, hasResponse,
                   garbage, spliced>>

\* parse_response has seen complete messages only.
ParseDone ==
    /\ phase = "parse" /\ AnswerLeft < 5 /\ Len(responseIn) >= 3
    /\ Release
    /\ secondPacket' = FALSE
    /\ UNCHANGED <<request, serverRest, answers, verdicts, hasResponse, garbage, spliced>>

\* parse_response returns false, and everything waits for the rest.
ParseWaits ==
    /\ phase = "parse"
    /\ Len(responseIn) < 3 \/ (AnswerLeft >= 5 /\ ~AnswerComplete)
    /\ phase' = "idle" /\ used' = 0
    /\ UNCHANGED <<request, responseIn, secondPacket, serverRest, answers, client,
                   verdicts, hasResponse, garbage, spliced>>

Next ==
    \/ ClientBytes
    \/ ParseOther
    \/ ParseQuery
    \/ RequestDone
    \/ BackendBytes
    \/ NextAnswer
    \/ FastDone
    \/ ParseDone
    \/ ParseWaits

\* The steps of a callback follow each other, and a peer ends what it has begun.
Fairness ==
    /\ WF_vars(ParseOther) /\ WF_vars(ParseQuery) /\ WF_vars(RequestDone)
    /\ WF_vars(NextAnswer) /\ WF_vars(FastDone)
    /\ WF_vars(ParseDone) /\ WF_vars(ParseWaits)
    /\ WF_vars(serverRest # <<>> /\ BackendBytes)

Spec == Init /\ [][Next]_vars /\ Fairness

-----------------------------------------------------------------------------
\* Type invariant.
TypeOK ==
    /\ phase \in {"idle", "request", "fast", "parse", "closed"}
    /\ firstRequest \in BOOLEAN /\ secondPacket \in BOOLEAN /\ hasResponse \in BOOLEAN
    /\ messages \in Seq([kind : RequestKinds, from : Nat, to : Nat])
    /\ Len(messages) <= MaxRequests
    /\ received \in 0..Sent /\ taken \in 0..received /\ start \in 0..received
    /\ responseIn \in Seq(Byte) /\ used \in 0..Len(responseIn)
    /\ serverRest \in Seq(Byte) /\ answers \in 0..MaxAnswers
    /\ garbage \in Garbage
    /\ dropped \subseteq Nat \X Nat
    /\ checked \subseteq Nat \X Nat
    /\ intact \in BOOLEAN /\ spliced \in BOOLEAN

Boundaries == {0} \cup {messages[i].to : i \in DOMAIN messages}

\* Only whole messages were dropped so far.
InFrame == \A d \in dropped : d[1] \in Boundaries /\ d[2] \in Boundaries

\* However recv cut the stream, each query that left request_in was shown to
\* check_query, unless it was dropped or has the 16 bytes of a cancel request.
QueriesChecked ==
    InFrame =>
        \A i \in DOMAIN messages :
            LET m == messages[i]
            IN  m.to <= taken /\ m.kind \in {"query", "parse"} /\ m.to - m.from # 16
                    => <<m.from, m.to>> \in checked \cup dropped

\* No complete message of the client waits for bytes that come after it.
NothingCompleteWaits ==
    phase = "idle" /\ taken \in Boundaries =>
        \A i \in DOMAIN messages : messages[i].to <= received => messages[i].to <= taken

\* The client sees whole messages in order, of the backend and of the firewall,
\* unless a reply was pushed behind a part of a message.
WholeAnswers == intact \/ spliced

\* Once the backend has sent its message the client gets it, also when it was
\* held back behind a login message, unless a reply was pushed in between.
AnswersArrive ==
    (responseIn # <<>>) ~> (responseIn = <<>> \/ spliced)
=============================================================================
