------------------------------- MODULE Relay --------------------------------
(***************************************************************************)
(* One proxied connection (src/proxy.cpp): two non-blocking sockets, four  *)
(* buffers and the libevent callbacks that move bytes between them.        *)
(*                                                                         *)
(*   client -> requestIn -parseRequest-> requestOut -> backend             *)
(*   client <- responseOut <-parseResponse- responseIn <- backend          *)
(*                                                                         *)
(* The event loop is single-threaded, so a callback is one action.  A byte *)
(* is represented by its position in the stream of the peer that sent it,  *)
(* a reply the firewall makes up itself by Reply.  The two protocol hooks  *)
(* (parseRequest and parseResponse of MySQLConnection and PgSQLConnection) *)
(* are represented by everything they may do to the buffers: release a     *)
(* prefix, discard the whole request buffer (PgSQL only), make up replies, *)
(* refuse the request (PgSQL only), or lose the greeting (MySQL only).  A  *)
(* byte keeps its position when parseResponse clears the compression and   *)
(* SSL flags in the greeting.                                              *)
(***************************************************************************)
EXTENDS Integers, Sequences

CONSTANTS DBType,      \* protocol of the connection, "mysql" or "pgsql"
          SockCap,     \* bytes a kernel send buffer holds
          MaxChunk,    \* bytes one recv returns at most
          MaxClient,   \* bound: bytes the client sends
          MaxServer,   \* bound: bytes the backend sends
          MaxReplies   \* bound: replies the firewall makes up

ASSUME RelayAssumption ==
    /\ DBType \in {"mysql", "pgsql"}
    /\ SockCap \in Nat \ {0}
    /\ MaxChunk \in Nat \ {0}
    /\ MaxClient \in Nat
    /\ MaxServer \in Nat
    /\ MaxReplies \in Nat

VARIABLES
    open,           \* the Connection object exists and its events are registered
    firstResponse,  \* Connection::first_response
    requestIn, requestOut, responseIn, responseOut,   \* the four Buffers
    proxyWriter,    \* proxy_event_writer is registered
    backendWriter,  \* backend_event_writer is registered
    clientLink,     \* the client's socket: "up" or "broken"
    backendLink,    \* the backend's socket: "connecting", "up" or "broken"
    clientSock,     \* bytes the kernel holds for the client
    backendSock,    \* bytes the kernel holds for the backend
    clientGot,      \* history: bytes the client has read
    backendGot,     \* history: bytes the backend has read
    clientSent,     \* history: number of bytes received from the client
    serverSent,     \* history: number of bytes received from the backend
    replies,        \* history: number of replies made up
    asked,          \* history: the client's bytes not discarded, in order
    answered        \* history: backend bytes not lost and replies, in order of arrival

buffers == <<requestIn, requestOut, responseIn, responseOut>>
writers == <<proxyWriter, backendWriter>>
links   == <<clientLink, backendLink>>
socks   == <<clientSock, backendSock>>
got     == <<clientGot, backendGot>>
history == <<clientSent, serverSent, replies, asked, answered>>
vars    == <<open, firstResponse, buffers, writers, links, socks, got, history>>

Reply == 0
Byte  == Nat    \* a position in a peer's stream, or Reply

ChunkAfter(n, k) == [i \in 1..k |-> n + i]
Replies(k)       == [i \in 1..k |-> Reply]
Take(s, n)       == SubSeq(s, 1, n)
Drop(s, n)       == SubSeq(s, n + 1, Len(s))

-----------------------------------------------------------------------------
\* Proxy::PrepareNewConn and Server_cb: the client is accepted, the connect to
\* the backend is under way, read events are registered and writers are not.
Init ==
    /\ open = TRUE
    /\ firstResponse = TRUE
    /\ requestIn = <<>> /\ requestOut = <<>>
    /\ responseIn = <<>> /\ responseOut = <<>>
    /\ proxyWriter = FALSE /\ backendWriter = FALSE
    /\ clientLink = "up"
    /\ backendLink \in {"connecting", "up"}
    /\ clientSock = <<>> /\ backendSock = <<>>
    /\ clientGot = <<>> /\ backendGot = <<>>
    /\ clientSent = 0 /\ serverSent = 0 /\ replies = 0
    /\ asked = <<>> /\ answered = <<>>

-----------------------------------------------------------------------------
\* What send() may accept of out: nothing while the connect is pending or the
\* kernel's buffer is full (EAGAIN), some of it otherwise.
Sendable(link, sock, out) ==
    {n \in 0..Len(out) :
        IF link = "up" /\ Len(sock) < SockCap /\ out # <<>>
          THEN n > 0 /\ Len(sock) + n <= SockCap
          ELSE n = 0}

\* Proxy_write_cb, called when response_out holds out.  It returns false
\* exactly when ProxyWriteFails(out).
ProxyWriteFails(out) == clientLink = "broken" /\ out # <<>>

\* Mutant: the writer is not registered after a partial send.
ProxyWrite_NoWriter(out) ==
    \/ /\ ProxyWriteFails(out)
       /\ responseOut' = out
       /\ UNCHANGED <<clientSock, proxyWriter>>
    \/ /\ ~ProxyWriteFails(out)
       /\ \E n \in Sendable(clientLink, clientSock, out) :
            /\ clientSock' = clientSock \o Take(out, n)
            /\ responseOut' = Drop(out, n)
            /\ proxyWriter' = (proxyWriter /\ n < Len(out))

ProxyWrite(out) ==
    \/ /\ ProxyWriteFails(out)
       /\ responseOut' = out
       /\ UNCHANGED <<clientSock, proxyWriter>>
    \/ /\ ~ProxyWriteFails(out)
       /\ \E n \in Sendable(clientLink, clientSock, out) :
            /\ clientSock' = clientSock \o Take(out, n)
            /\ responseOut' = Drop(out, n)
            /\ proxyWriter' = (n < Len(out))

\* Backend_write_cb, called when request_out holds out.  A failed send is
\* forgiven, and tried again, until the first response was parsed.
BackendWriteFails(out) ==
    backendLink = "broken" /\ out # <<>> /\ ~firstResponse'

\* Mutants of Backend_write_cb: what was sent stays in request_out; no writer after
\* a forgiven failure.
BackendWrite_ResendsAll(out) ==
    \E n \in Sendable(backendLink, backendSock, out) :
        /\ backendSock' = backendSock \o Take(out, n)
        /\ requestOut' = out
        /\ backendWriter' = (n < Len(out))

BackendWrite_ForgetsFailed(out) ==
    \/ /\ backendLink = "broken" /\ out # <<>>
       /\ requestOut' = out
       /\ UNCHANGED <<backendSock, backendWriter>>
    \/ /\ backendLink # "broken" \/ out = <<>>
       /\ \E n \in Sendable(backendLink, backendSock, out) :
            /\ backendSock' = backendSock \o Take(out, n)
            /\ requestOut' = Drop(out, n)
            /\ backendWriter' = (n < Len(out))

BackendWrite(out) ==
    \/ /\ backendLink = "broken" /\ out # <<>>
       /\ requestOut' = out
       /\ backendWriter' = (backendWriter \/ firstResponse')
       /\ UNCHANGED backendSock
    \/ /\ backendLink # "broken" \/ out = <<>>
       /\ \E n \in Sendable(backendLink, backendSock, out) :
            /\ backendSock' = backendSock \o Take(out, n)
            /\ requestOut' = Drop(out, n)
            /\ backendWriter' = (n < Len(out))

\* ProxyValidateServerResponse, called when response_in holds in: parseResponse
\* releases its first k bytes.
ServerResponse(in, k) ==
    /\ firstResponse' = (firstResponse /\ DBType = "mysql")
    /\ responseIn' = Drop(in, k)
    /\ IF k = 0
         THEN UNCHANGED <<responseOut, clientSock, proxyWriter>>
         ELSE ProxyWrite(responseOut \o Take(in, k))

ServerResponseFails(k) == k > 0 /\ clientLink = "broken"

-----------------------------------------------------------------------------
\* Callbacks of the client's socket.

\* Mutant: a made-up reply goes straight to response_out.
JoinsResponseIn_Never(r) == FALSE

\* Made-up replies wait behind a partial packet of the backend if there is one.
JoinsResponseIn(r) == r > 0 /\ responseIn # <<>>

\* r made-up replies join response_in when that is not empty, and response_out
\* otherwise; in the first case parseResponse then releases k bytes.
QueueReplies(r, k) ==
    IF JoinsResponseIn(r)
      THEN ServerResponse(responseIn \o Replies(r), k)
      ELSE /\ UNCHANGED <<responseIn, firstResponse>>
           /\ IF r = 0
                THEN UNCHANGED <<responseOut, clientSock, proxyWriter>>
                ELSE ProxyWrite(responseOut \o Replies(r))

\* The first t bytes of in are released to the backend, unless the reply's write
\* has failed already.
SendRequest(in, t, failed) ==
    LET out == requestOut \o Take(in, t)
    IN  /\ requestIn' = Drop(in, t)
        /\ IF t = 0 \/ failed
             THEN /\ requestOut' = out
                  /\ UNCHANGED <<backendSock, backendWriter>>
                  /\ open' = ~failed
             ELSE /\ BackendWrite(out)
                  /\ open' = ~BackendWriteFails(out)

\* ProxyValidateClientRequest when parseRequest accepts: in is request_in with
\* the new bytes, r replies are made up, t bytes are released.  The result of
\* writing a reply counts only if it went through parseResponse.
Forward(in, t, r) ==
    \E k \in 0..(Len(responseIn) + r) :
        /\ JoinsResponseIn(r) \/ k = 0
        /\ QueueReplies(r, k)
        /\ SendRequest(in, t, JoinsResponseIn(r) /\ ServerResponseFails(k))

\* PgSQLConnection::parseRequest refuses a startup message: the connection is
\* closed with the bytes unread.
Refuse(in) ==
    /\ DBType = "pgsql"
    /\ requestIn' = in
    /\ open' = FALSE
    /\ UNCHANGED <<requestOut, responseIn, responseOut, firstResponse, writers,
                   socks>>

\* Proxy_cb with EV_READ and data.
ClientReadable ==
    /\ open /\ clientLink = "up"
    /\ \E n \in 1..MaxChunk :
         LET in == requestIn \o ChunkAfter(clientSent, n)
         IN  /\ clientSent + n <= MaxClient
             /\ clientSent' = clientSent + n
             /\ \/ \E t \in 0..Len(in), r \in 0..(MaxReplies - replies) :
                     /\ Forward(in, t, r)
                     /\ asked' = asked \o ChunkAfter(clientSent, n)
                     /\ answered' = answered \o Replies(r)
                     /\ replies' = replies + r
                \/ /\ Refuse(in)
                   /\ asked' = asked \o ChunkAfter(clientSent, n)
                   /\ UNCHANGED <<answered, replies>>
    /\ UNCHANGED <<links, got, serverSent>>

\* Proxy_cb with EV_READ on a PgSQL connection whose request_in holds an
\* 8-byte message: the message is answered and the whole buffer discarded.
ClientReadableDiscard ==
    /\ open /\ clientLink = "up"
    /\ DBType = "pgsql"
    /\ \E n \in 1..MaxChunk :
         /\ clientSent + n <= MaxClient
         /\ clientSent' = clientSent + n
    /\ replies < MaxReplies
    /\ replies' = replies + 1
    /\ Forward(<<>>, 0, 1)
    /\ asked' = Take(asked, Len(asked) - Len(requestIn))
    /\ answered' = answered \o Replies(1)
    /\ UNCHANGED <<links, got, serverSent>>

\* CloseConnection: both sockets are closed, the events deleted, the object freed.
CloseConnection ==
    /\ open' = FALSE
    /\ UNCHANGED <<firstResponse, buffers, writers, links, socks, got, history>>

\* Mutant: an error of recv is treated like EAGAIN.
ClientReadFails_ErrorIgnored == open /\ clientLink = "up" /\ CloseConnection

\* Proxy_cb with EV_READ when recv reports the end of the stream or an error.
ClientReadFails == open /\ CloseConnection

\* Proxy_cb with EV_WRITE.
ClientWritable ==
    /\ open /\ proxyWriter
    /\ clientLink = "broken" \/ Len(clientSock) < SockCap
    /\ ProxyWrite(responseOut)
    /\ open' = ~ProxyWriteFails(responseOut)
    /\ UNCHANGED <<firstResponse, requestIn, requestOut, responseIn,
                   backendWriter, links, backendSock, got, history>>

-----------------------------------------------------------------------------
\* Callbacks of the backend's socket.

\* Backend_cb with EV_READ and data.
BackendReadable ==
    /\ open /\ backendLink = "up"
    /\ \E n \in 1..MaxChunk :
         LET chunk == ChunkAfter(serverSent, n)
             in    == responseIn \o chunk
         IN  /\ serverSent + n <= MaxServer
             /\ serverSent' = serverSent + n
             /\ answered' = answered \o chunk
             /\ \E k \in 0..Len(in) :
                  /\ ServerResponse(in, k)
                  /\ open' = ~ServerResponseFails(k)
    /\ UNCHANGED <<requestIn, requestOut, backendWriter, links, backendSock,
                   got, clientSent, replies, asked>>

\* Backend_cb with EV_READ on a MySQL connection without a login yet, when the
\* greeting does not come alone: ParseResponsePacket pops the greeting, and the pop
\* that ends parseResponse puts the bytes behind it in its place, so that its d bytes
\* are lost.  How many follow is read from memory the first pop has shifted.
BackendReadableLost ==
    /\ open /\ backendLink = "up"
    /\ DBType = "mysql"
    /\ requestOut = <<>> /\ backendSock = <<>> /\ backendGot = <<>>
    /\ \E n \in 1..MaxChunk :
         LET in == responseIn \o ChunkAfter(serverSent, n)
         IN  /\ serverSent + n <= MaxServer
             /\ serverSent' = serverSent + n
             /\ \E d \in 1..Len(in) :
                  /\ answered' = Take(answered, Len(answered) - Len(responseIn))
                                    \o Drop(in, d)
                  /\ \E k \in 1..(Len(in) - d) :
                       /\ ServerResponse(Drop(in, d), k)
                       /\ open' = ~ServerResponseFails(k)
    /\ UNCHANGED <<requestIn, requestOut, backendWriter, links, backendSock,
                   got, clientSent, replies, asked>>

\* Backend_cb with EV_READ when recv reports the end of the stream or an error.
BackendReadFails == open /\ backendLink # "connecting" /\ CloseConnection

\* Backend_cb with EV_WRITE.
BackendWritable ==
    /\ open /\ backendWriter
    /\ \/ backendLink = "broken"
       \/ backendLink = "up" /\ Len(backendSock) < SockCap
    /\ UNCHANGED firstResponse
    /\ BackendWrite(requestOut)
    /\ open' = ~BackendWriteFails(requestOut)
    /\ UNCHANGED <<requestIn, responseIn, responseOut, proxyWriter, links,
                   clientSock, got, history>>

-----------------------------------------------------------------------------
\* The environment.

\* Proxy::Close, when the proxy is shut down or removed.
ProxyClosed == open /\ CloseConnection

\* The pending connect to the backend ends.
ConnectDone ==
    /\ backendLink = "connecting"
    /\ backendLink' \in {"up", "broken"}
    /\ UNCHANGED <<open, firstResponse, buffers, writers, clientLink, socks,
                   got, history>>

ClientBreaks ==
    /\ clientLink = "up"
    /\ clientLink' = "broken"
    /\ UNCHANGED <<open, firstResponse, buffers, writers, backendLink, socks,
                   got, history>>

BackendBreaks ==
    /\ backendLink = "up"
    /\ backendLink' = "broken"
    /\ UNCHANGED <<open, firstResponse, buffers, writers, clientLink, socks,
                   got, history>>

\* A peer reads bytes its kernel received; closing the sockets is graceful, so
\* it may still do so afterwards.
ClientReads ==
    /\ clientLink = "up"
    /\ \E n \in 1..Len(clientSock) :
         /\ clientGot' = clientGot \o Take(clientSock, n)
         /\ clientSock' = Drop(clientSock, n)
    /\ UNCHANGED <<open, firstResponse, buffers, writers, links, backendSock,
                   backendGot, history>>

BackendReads ==
    /\ backendLink = "up"
    /\ \E n \in 1..Len(backendSock) :
         /\ backendGot' = backendGot \o Take(backendSock, n)
         /\ backendSock' = Drop(backendSock, n)
    /\ UNCHANGED <<open, firstResponse, buffers, writers, links, clientSock,
                   clientGot, history>>

-----------------------------------------------------------------------------
Next ==
    \/ ClientReadable
    \/ ClientReadableDiscard
    \/ ClientReadFails
    \/ ClientWritable
    \/ BackendReadable
    \/ BackendReadableLost
    \/ BackendReadFails
    \/ BackendWritable
    \/ ProxyClosed
    \/ ConnectDone
    \/ ClientBreaks
    \/ BackendBreaks
    \/ ClientReads
    \/ BackendReads

\* libevent reports a ready descriptor again until its callback has dealt with
\* it, so the callbacks of writable sockets and of broken ones are fair.  The
\* rest is what the proxy needs from its peers: they read what they are sent,
\* and a connect ends.
Fairness ==
    /\ WF_vars(ClientWritable)
    /\ WF_vars(BackendWritable)
    /\ WF_vars(clientLink = "broken" /\ ClientReadFails)
    /\ WF_vars(backendLink = "broken" /\ BackendReadFails)
    /\ WF_vars(ConnectDone)
    /\ WF_vars(ClientReads)
    /\ WF_vars(BackendReads)

Spec == Init /\ [][Next]_vars /\ Fairness

-----------------------------------------------------------------------------
\* Type invariant: every variable keeps its type and the
\* kernel never holds more than its buffer.
TypeOK ==
    /\ open \in BOOLEAN /\ firstResponse \in BOOLEAN
    /\ requestIn \in Seq(Byte) /\ requestOut \in Seq(Byte)
    /\ responseIn \in Seq(Byte) /\ responseOut \in Seq(Byte)
    /\ proxyWriter \in BOOLEAN /\ backendWriter \in BOOLEAN
    /\ clientLink \in {"up", "broken"}
    /\ backendLink \in {"connecting", "up", "broken"}
    /\ clientSock \in Seq(Byte) /\ Len(clientSock) <= SockCap
    /\ backendSock \in Seq(Byte) /\ Len(backendSock) <= SockCap
    /\ clientGot \in Seq(Byte) /\ backendGot \in Seq(Byte)
    /\ clientSent \in 0..MaxClient /\ serverSent \in 0..MaxServer
    /\ replies \in 0..MaxReplies
    /\ asked \in Seq(Byte) /\ answered \in Seq(Byte)

\* Through partial sends, full sockets, pipelined reads and made-up replies, the
\* client's bytes are, in order and once each, at the backend, in the kernel, in
\* request_out or in request_in (append, pop and chop_back of Buffer, and the
\* length socket_write reports).
RequestStream ==
    asked = backendGot \o backendSock \o requestOut \o requestIn

\* The same of the other direction; in particular a reply the firewall makes up
\* overtakes nothing the backend sent before it, whichever queue it joins.
ResponseStream ==
    answered = clientGot \o clientSock \o responseOut \o responseIn

\* Both directions are intact: nothing is lost, doubled or overtaken in the buffers.
BothStreams == RequestStream /\ ResponseStream

\* While the connection lives, request_out waits if and only if the writer event
\* is registered: nothing is left behind without an event to send it, and an
\* idle connection does not spin on a writable socket.
BackendWriterArmed == open => (backendWriter <=> requestOut # <<>>)

\* The same of response_out, except that a failed write of a made-up reply
\* leaves it waiting on a broken socket, whose next read closes the connection.
ProxyWriterArmed ==
    open => /\ proxyWriter => responseOut # <<>>
            /\ responseOut # <<>> => proxyWriter \/ clientLink = "broken"

\* What waits has an event that will move it, and nothing else has, on both sides.
BothWriters == BackendWriterArmed /\ ProxyWriterArmed

BytesOf(s) == {s[i] : i \in DOMAIN s}

\* Each byte released to the backend reaches it unless the connection closes.
RequestDelivered ==
    \A b \in 1..MaxClient :
        b \in BytesOf(requestOut) ~> (b \in BytesOf(backendGot) \/ ~open)

\* Each byte released to the client reaches it unless the connection closes.
ResponseDelivered ==
    \A b \in 1..MaxServer :
        b \in BytesOf(responseOut) ~> (b \in BytesOf(clientGot) \/ ~open)

\* What a buffer of either direction holds is not held for ever.
Delivered == RequestDelivered /\ ResponseDelivered

\* A connection with a broken socket is closed, also when the failed write was
\* forgiven (first_response) or its result ignored (a made-up reply).
BrokenIsClosed ==
    clientLink = "broken" \/ backendLink = "broken" ~> ~open

\* Each direction is a BytePipe; only PgSQL's request direction may discard.
Request  == INSTANCE BytePipe WITH stream <- asked, delivered <- backendGot,
                                   MayDiscard <- (DBType = "pgsql")
Response == INSTANCE BytePipe WITH stream <- answered, delivered <- clientGot,
                                   MayDiscard <- FALSE

\* The request direction implements the pipe: bytes the backend has read are
\* never taken back, changed or repeated.
RequestIsPipe  == Request!PipeSpec

\* The response direction of PgSQL implements a pipe that discards nothing.
ResponseIsPipe == Response!PipeSpec

\* Both directions of a PgSQL connection are pipes, whatever the other one does.
BothArePipes == RequestIsPipe /\ ResponseIsPipe
=============================================================================
