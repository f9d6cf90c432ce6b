---------------------------- MODULE MySQLSession ----------------------------
(***************************************************************************)
(* Framing, verdicts and the current database on a MySQL connection        *)
(* (MySQLConnection in src/mysql/mysql_con.cpp).  The client's bytes are   *)
(* positions of its stream, as in PgSession; nothing of it is discarded,   *)
(* so the backend sees the same stream.                                    *)
(*                                                                         *)
(* A client waits for the greeting, and for the answer to each command but *)
(* those that have none (closing a statement, sending long data).  The     *)
(* backend executes its commands in order.  StartResponse sends an error   *)
(* answer through ParseResponsePacket, which then changes nothing, and is  *)
(* left out.                                                               *)
(***************************************************************************)
EXTENDS Integers, FiniteSets, MessageBytes

CONSTANTS Databases,     \* names of databases
          NoDatabase,    \* no database is selected
          Requests,      \* the client's messages: records of kind, size and db
          Garbage,       \* sizes a header inside a message may be read as
          Chunks,        \* numbers of bytes a recv may return
          MaxRequests    \* bound: messages of the client

\* "noreply" has no answer; "other" is a command that is not examined.
RequestKinds == {"login", "oldlogin", "query", "db", "change", "noreply", "other"}

ASSUME MySQLSessionAssumption ==
    /\ Requests \subseteq [kind : RequestKinds, size : Nat \ (0..4),
                           db : Databases \cup {NoDatabase}]
    \* ParseRequestPacket leaves the login of an old client early only without a database.
    /\ \A m \in Requests : m.kind = "oldlogin" => m.db = NoDatabase
    /\ Garbage \subseteq Nat \ (0..3)
    /\ Chunks \subseteq Nat \ {0}
    /\ MaxRequests \in Nat

VARIABLES
    phase,         \* "idle", "request", "respond" or "answer"
    firstRequest,  \* Connection::first_request
    secondPacket,  \* Connection::SecondPacket
    lastCommand,   \* lastCommandId
    db,            \* the database whose permissions the connection has
    newDb,         \* db_new_name
    messages,      \* the client's messages begun so far
    received,      \* bytes received from the client
    taken,         \* bytes that have left request_in, released
    start,         \* the cursor of parseRequest
    hasResponse,   \* its result of that name
    responseIn,    \* response_in
    used,          \* the cursor of parseResponse
    serverRest,    \* what the backend has still to send
    served,        \* the number of messages the backend has executed
    serverDb,      \* the backend's current database
    owed,          \* answers the client waits for
    garbage,       \* the size in a header that is none
    checked,       \* history: intervals shown to check_query, and for which database
    blocked,       \* history: those it refused
    misjudged,     \* history: queries executed that were not checked for the
                   \* database they were executed in
    lastOut,       \* history: the last byte given to the client
    intact,        \* history: the client has seen whole messages only
    spliced,       \* history: a reply has joined a part of a message
    met,           \* history: a message began behind another in request_in
    cut            \* history: a part of a login message was released

request  == <<messages, received, taken, start>>
session  == <<firstRequest, lastCommand, db, newDb>>
response == <<responseIn, used>>
server   == <<serverRest, served, serverDb>>
client   == <<lastOut, intact, owed>>
verdicts == <<checked, blocked, misjudged>>
vars     == <<phase, request, session, secondPacket, hasResponse, response, server,
              client, verdicts, garbage, spliced, met, cut>>

-----------------------------------------------------------------------------
Greeting == Bytes("greeting", 30)

\* blockResponse: an OK message.
BlockReply == Bytes("reply", 11)

Ok    == Bytes("ok", 11)
Error == Bytes("error", 15)

\* A result of one row, ended as by the protocols since and before version 4.1.
Result    == Bytes("row", 5) \o Bytes("eof", 9)
OldResult == Bytes("row", 5) \o Bytes("eof", 5)

\* The messages that end an answer.
Ends == {"greeting", "reply", "ok", "error", "eof"}

Monus(m, n) == IF n >= m THEN 0 ELSE m - n

\* Bytes go to the client, which counts the answers.
Show(bytes) ==
    IF bytes = <<>> THEN UNCHANGED client
    ELSE /\ lastOut' = bytes[Len(bytes)]
         /\ intact' = (intact /\ Continues(lastOut, bytes))
         /\ LET ended == {i \in DOMAIN bytes : bytes[i].kind \in Ends
                                               /\ bytes[i].at = bytes[i].of}
            IN  owed' = Monus(owed, Cardinality(ended))

Sent == IF messages = <<>> THEN 0 ELSE messages[Len(messages)].to

\* The message whose header is read behind position p.
HeaderAt(msgs, p) ==
    IF \E i \in DOMAIN msgs : msgs[i].from = p
      THEN CHOOSE m \in {msgs[i] : i \in DOMAIN msgs} : m.from = p
      ELSE [kind |-> "other", db |-> NoDatabase, from |-> p, to |-> p + garbage]

Size(m) == m.to - m.from

-----------------------------------------------------------------------------
Init ==
    /\ phase = "idle"
    /\ firstRequest = TRUE /\ secondPacket = FALSE
    /\ lastCommand = "other"
    /\ db = NoDatabase /\ newDb = NoDatabase
    /\ messages = <<>> /\ received = 0 /\ taken = 0 /\ start = 0
    /\ hasResponse = FALSE
    /\ responseIn = <<>> /\ used = 0
    /\ serverRest = Greeting /\ served = 0 /\ serverDb = NoDatabase
    /\ owed = 1
    /\ garbage \in Garbage
    /\ checked = {} /\ blocked = {} /\ misjudged = {}
    /\ lastOut = NoByte /\ intact = TRUE
    /\ spliced = FALSE /\ met = FALSE /\ cut = FALSE
-----------------------------------------------------------------------------
\* parseRequest.

MayBegin(m) ==
    /\ Len(messages) < MaxRequests
    /\ owed = 0
    /\ m.kind \in {"login", "oldlogin"} <=> messages = <<>>

Begin(m) ==
    /\ messages' = Append(messages, [kind |-> m.kind, db |-> m.db,
                                     from |-> Sent, to |-> Sent + m.size])
    /\ owed' = IF m.kind = "noreply" THEN owed ELSE owed + 1
    /\ met' = (met \/ taken < Sent)
    /\ UNCHANGED <<lastOut, intact>>

\* The client's next bytes arrive.  parseRequest waits for a whole message.
ClientBytes ==
    /\ phase = "idle"
    /\ \E n \in Chunks :
         /\ received' = received + n
         /\ \/ n <= Sent - received /\ UNCHANGED <<messages, met, client>>
            \/ \E m \in Requests :
                 /\ MayBegin(m)
                 /\ Sent - received < n /\ n <= Sent - received + m.size
                 /\ Begin(m)
    /\ LET full == received' - taken
       IN  phase' = IF full >= 3 /\ Size(HeaderAt(messages', taken)) <= full
                      THEN "request" ELSE "idle"
    /\ start' = taken
    /\ UNCHANGED <<taken, session, secondPacket, hasResponse, response, server,
                   verdicts, garbage, spliced, cut>>

\* The loop's message: its header is read at the beginning of the buffer, in
\* every iteration.
Current == HeaderAt(messages, taken)

\* Mutant: the loop goes on with a message that is not complete.
NextRequest_Incomplete(replied) ==
    LET next == start + Size(Current)
    IN  IF next + 7 <= received
          THEN /\ start' = next /\ hasResponse' = replied
               /\ UNCHANGED <<phase, taken>>
          ELSE /\ taken' = next
               /\ hasResponse' = FALSE
               /\ phase' = IF replied /\ responseIn' # <<>> THEN "respond" ELSE "idle"
               /\ UNCHANGED start

\* The cursor moves on by the message's size; the loop goes on while the buffer
\* may hold another one.
NextRequest(replied) ==
    LET next == start + Size(Current)
    IN  IF next + 7 <= received /\ next + Size(Current) <= received
          THEN /\ start' = next /\ hasResponse' = replied
               /\ UNCHANGED <<phase, taken>>
          ELSE /\ taken' = next
               /\ hasResponse' = FALSE
               /\ phase' = IF replied /\ responseIn' # <<>> THEN "respond" ELSE "idle"
               /\ UNCHANGED start

\* ParseRequestPacket of the first request: the database of the login is taken.
\* Old clients without a database leave it early.
ParseLogin ==
    /\ phase = "request" /\ firstRequest
    /\ \/ /\ Current.kind = "login"
          /\ firstRequest' = FALSE /\ secondPacket' = TRUE
          /\ db' = Current.db
       \/ /\ Current.kind = "oldlogin"
          /\ firstRequest' = FALSE
          /\ UNCHANGED <<secondPacket, db>>
    /\ UNCHANGED <<lastCommand, newDb, messages, received, response, server, client,
                   verdicts, garbage, spliced, met, cut>>
    /\ NextRequest(hasResponse)

\* ParseRequestPacket of a command that is not examined.  A change of user looks
\* for the name of the database where the user's name ends, and finds none.
ParseCommand ==
    /\ phase = "request" /\ ~firstRequest /\ Current.kind # "query"
    /\ lastCommand' = Current.kind
    /\ newDb' = CASE Current.kind = "db" -> Current.db
                  [] Current.kind = "change" -> NoDatabase
                  [] OTHER -> newDb
    /\ UNCHANGED <<firstRequest, db, secondPacket, messages, received, response, server,
                   client, verdicts, garbage, spliced, met, cut>>
    /\ NextRequest(hasResponse)

\* ParseRequestPacket of a query: check_query judges it for the database db.  If
\* it refuses, an OK is made up; the bytes are released either way.
ParseQuery ==
    /\ phase = "request" /\ ~firstRequest /\ Current.kind = "query"
    /\ lastCommand' = "query"
    /\ checked' = checked \cup {<<Current.from, Current.to, db>>}
    /\ \/ /\ UNCHANGED <<blocked, responseIn, spliced, client>>
          /\ NextRequest(hasResponse)
       \/ /\ blocked' = blocked \cup {<<Current.from, Current.to>>}
          /\ IF responseIn # <<>>
               THEN /\ responseIn' = responseIn \o BlockReply
                    /\ spliced' = TRUE
                    /\ UNCHANGED client
               ELSE /\ Show(BlockReply)
                    /\ UNCHANGED <<responseIn, spliced>>
          /\ NextRequest(TRUE)
    /\ UNCHANGED <<firstRequest, db, newDb, secondPacket, messages, received, used,
                   server, misjudged, garbage, met, cut>>

-----------------------------------------------------------------------------
\* The backend.

\* It executes its next message when it has all of it.
Serve ==
    /\ phase = "idle"
    /\ served < Len(messages) /\ messages[served + 1].to <= taken
    /\ LET m == messages[served + 1]
       IN  /\ served' = served + 1
           /\ \/ /\ m.kind = "noreply" /\ UNCHANGED <<serverRest, serverDb>>
              \/ /\ m.kind \in {"login", "oldlogin", "change", "db"}
                 /\ serverDb' = m.db
                 /\ serverRest' = serverRest \o Ok
              \/ /\ m.kind = "other"
                 /\ serverRest' = serverRest \o Ok
                 /\ UNCHANGED serverDb
              \/ /\ m.kind \in {"db", "query"}
                 /\ serverRest' = serverRest \o Error
                 /\ UNCHANGED serverDb
              \/ /\ m.kind = "query"
                 /\ \E a \in {Ok, Result, OldResult} : serverRest' = serverRest \o a
                 /\ UNCHANGED serverDb
           /\ misjudged' = IF m.kind = "query" /\ <<m.from, m.to, serverDb>> \notin checked
                             THEN misjudged \cup {<<m.from, m.to>>} ELSE misjudged
    /\ UNCHANGED <<phase, request, session, secondPacket, hasResponse, response, client,
                   checked, blocked, garbage, spliced, met, cut>>

\* Some of its bytes arrive.
BackendBytes ==
    /\ phase = "idle" /\ serverRest # <<>>
    /\ \E n \in Chunks :
         /\ n <= Len(serverRest)
         /\ responseIn' = responseIn \o SubSeq(serverRest, 1, n)
         /\ serverRest' = SubSeq(serverRest, n + 1, Len(serverRest))
    /\ phase' = "respond"
    /\ used' = 0
    /\ UNCHANGED <<request, session, secondPacket, hasResponse, served, serverDb, client,
                   verdicts, garbage, spliced, met, cut>>

-----------------------------------------------------------------------------
\* parseResponse.

\* Fewer than five bytes wait; so do fewer than seven of the answer to a change
\* of database.
ResponseTooShort ==
    /\ phase = "respond"
    /\ \/ Len(responseIn) < 5
       \/ Len(responseIn) < 7 /\ lastCommand = "db" /\ ~firstRequest /\ ~secondPacket
    /\ phase' = "idle"
    /\ UNCHANGED <<request, session, secondPacket, hasResponse, response, server, client,
                   verdicts, garbage, spliced, met, cut>>

\* During the login, fewer than seven bytes are released as they are.
ResponseCut ==
    /\ phase = "respond" /\ Len(responseIn) \in 5..6
    /\ firstRequest \/ secondPacket
    /\ Show(responseIn)
    /\ responseIn' = <<>>
    /\ cut' = (cut \/ lastOut'.at # lastOut'.of)
    /\ phase' = "idle"
    /\ UNCHANGED <<request, session, secondPacket, hasResponse, used, server, verdicts,
                   garbage, spliced, met>>

ResponseFramed ==
    /\ phase = "respond"
    /\ \/ Len(responseIn) >= 7
       \/ Len(responseIn) >= 5 /\ lastCommand # "db" /\ ~firstRequest /\ ~secondPacket
    /\ phase' = "answer"
    /\ UNCHANGED <<request, session, secondPacket, hasResponse, response, server, client,
                   verdicts, garbage, spliced, met, cut>>

AnswerLeft == Len(responseIn) - used
AnswerHead == responseIn[used + 1]
AnswerSize == IF AnswerHead.at = 1 THEN AnswerHead.of ELSE garbage

\* Mutant: a message that ends with the buffer is not complete.
AnswerComplete_Strict ==
    /\ used = 0 \/ AnswerLeft > 5
    /\ AnswerSize < AnswerLeft

\* Behind a message the loop goes on if more than five bytes follow.
AnswerComplete ==
    /\ used = 0 \/ AnswerLeft > 5
    /\ AnswerSize <= AnswerLeft

\* Mutant: an error answer changes the database, too.
ChangesDb_AnyAnswer == lastCommand = "db"

\* ParseResponsePacket: any answer but an error, while the last command sent is
\* a change of database, carries it out.
ChangesDb == lastCommand = "db" /\ ~(AnswerHead.at = 1 /\ AnswerHead.kind = "error")

NextAnswer ==
    /\ phase = "answer" /\ AnswerComplete
    /\ used' = used + AnswerSize
    /\ secondPacket' = FALSE
    /\ db' = IF ChangesDb /\ ~firstRequest THEN newDb ELSE db
    /\ UNCHANGED <<phase, request, firstRequest, lastCommand, newDb, hasResponse,
                   responseIn, server, client, verdicts, garbage, spliced, met, cut>>

\* Mutant: an incomplete message is released with the others.
AnswerDone_ReleasesAll ==
    /\ phase = "answer" /\ ~AnswerComplete
    /\ Show(responseIn)
    /\ responseIn' = <<>>
    /\ used' = 0
    /\ phase' = "idle"
    /\ UNCHANGED <<request, session, secondPacket, hasResponse, server, verdicts, garbage,
                   spliced, met, cut>>

\* The complete messages are released.
AnswerDone ==
    /\ phase = "answer" /\ ~AnswerComplete
    /\ Show(SubSeq(responseIn, 1, used))
    /\ responseIn' = SubSeq(responseIn, used + 1, Len(responseIn))
    /\ used' = 0
    /\ phase' = "idle"
    /\ UNCHANGED <<request, session, secondPacket, hasResponse, server, verdicts, garbage,
                   spliced, met, cut>>

Next ==
    \/ ClientBytes
    \/ ParseLogin
    \/ ParseCommand
    \/ ParseQuery
    \/ Serve
    \/ BackendBytes
    \/ ResponseTooShort
    \/ ResponseCut
    \/ ResponseFramed
    \/ NextAnswer
    \/ AnswerDone

\* The steps of a callback follow each other, the backend executes and answers,
\* and the client ends the message it has begun.
Fairness ==
    /\ WF_vars(ParseLogin) /\ WF_vars(ParseCommand) /\ WF_vars(ParseQuery)
    /\ WF_vars(ResponseTooShort) /\ WF_vars(ResponseCut) /\ WF_vars(ResponseFramed)
    /\ WF_vars(NextAnswer) /\ WF_vars(AnswerDone)
    /\ WF_vars(Serve) /\ WF_vars(BackendBytes)
    /\ WF_vars(received < Sent /\ ClientBytes)

Spec == Init /\ [][Next]_vars /\ Fairness

-----------------------------------------------------------------------------
\* Type invariant.
TypeOK ==
    /\ phase \in {"idle", "request", "respond", "answer"}
    /\ firstRequest \in BOOLEAN /\ secondPacket \in BOOLEAN /\ hasResponse \in BOOLEAN
    /\ lastCommand \in RequestKinds
    /\ {db, newDb, serverDb} \subseteq Databases \cup {NoDatabase}
    /\ Len(messages) <= MaxRequests /\ served \in 0..Len(messages)
    /\ received \in 0..Sent /\ taken \in 0..received /\ start \in 0..received
    /\ used \in 0..Len(responseIn)
    /\ owed \in 0..MaxRequests + 1
    /\ garbage \in Garbage
    /\ blocked \subseteq {<<c[1], c[2]>> : c \in checked}

ChangedUser == \E i \in DOMAIN messages : messages[i].kind = "change"

\* The backend executes no query but those judged by the permissions of the
\* database it executes them in, through logins and failed and successful changes
\* of database.  But a change of user is not followed, after a blocked query the
\* answers are one behind, of two messages that met in the buffer the header of
\* the first is read for both, and the answer to a change of database is not seen
\* when it is cut like a login message.
JudgedByItsDatabase == misjudged = {} \/ blocked # {} \/ ChangedUser \/ met \/ cut

\* The client sees whole messages in order, the backend's and the firewall's,
\* unless a reply was pushed behind a part of a message, in response_in (spliced)
\* or at the client (cut).
WholeAnswers == intact \/ spliced \/ cut

\* Each command is answered, however the streams are cut: unless two messages met,
\* a reply was pushed into a message, a login message was cut behind its header,
\* or the answer's last message has five bytes.
CommandsAnswered ==
    owed > 0 ~> (owed = 0 \/ met \/ spliced \/ cut \/ Len(responseIn) = 5)
=============================================================================
