----------------------------- MODULE SocketServer -----------------------------
(***************************************************************************)
(* The daemon's socket (daemon.py MemoryServer) and the calls of its        *)
(* clients (client.py): one request per connection, both cut into pieces    *)
(* that travel one by one.  The server's loop is one thread: an event is    *)
(* handled, and a whole request dispatched, in one step.  Deadlines are     *)
(* absolute, and passing one is a step of its own: nothing that is sent or  *)
(* received in between puts it off.                                         *)
(***************************************************************************)
EXTENDS Naturals, Sequences, FiniteSets, Functions

CONSTANTS Call,            \* calls of all clients, one connection each
          MaxConnections,  \* MAX_CONNECTIONS, also of the backlog
          MaxStops         \* bound: how often the daemon stops

ASSUME ServerAssumption == MaxConnections \in Nat \ {0} /\ MaxStops \in Nat

VARIABLES kind,      \* of a call: "large" has no end within the frame limit
          client,    \* DaemonClient._unix_exchange of a call
          sent,      \* pieces of the request that the client sent
          received,  \* pieces of the response that the client has
          backlog,   \* connections that wait to be accepted
          conn,      \* MemoryServer.connections and their selector events
          buffer,    \* _Connection.buffer, in pieces
          offset,    \* _Connection.offset, in pieces
          ran,       \* how often the request of a call was dispatched
          up, stops  \* the daemon serves; how often it stopped

calls == <<client, sent, received>>
server == <<backlog, conn, buffer, offset, ran, up, stops>>
socketVars == <<kind, calls, server>>

Whole == 2    \* pieces of a request or a response, and MAX_FRAME_BYTES
Window == 1   \* pieces of a response that fit between server and client

Idle == "none"
Calling == {"sending", "receiving"}
Gone == {"answered", "failed"}         \* the client closed its socket
Open == {i \in Call : conn[i] \in {"reading", "writing"}}

SocketInit ==
    /\ client = [i \in Call |-> Idle]
    /\ sent = [i \in Call |-> 0] /\ received = [i \in Call |-> 0]
    /\ backlog = <<>>
    /\ conn = [i \in Call |-> Idle]
    /\ buffer = [i \in Call |-> 0] /\ offset = [i \in Call |-> 0]
    /\ ran = [i \in Call |-> 0]
    /\ up = TRUE /\ stops = 0

-----------------------------------------------------------------------------
(***************************************************************************)
(* The client of a call.                                                    *)
(***************************************************************************)
Becomes(i, stage) == client' = [client EXCEPT ![i] = stage]

Connect(i) ==
    /\ client[i] = Idle
    /\ up /\ Len(backlog) < MaxConnections
    /\ Becomes(i, "sending")
    /\ backlog' = Append(backlog, i)
    /\ conn' = [conn EXCEPT ![i] = "backlog"]
    /\ UNCHANGED <<sent, received, buffer, offset, ran, up, stops>>

\* No socket, nobody who listens, or no place in the backlog.
ConnectFails(i) ==
    /\ client[i] = Idle
    /\ ~up \/ Len(backlog) = MaxConnections
    /\ Becomes(i, "failed")
    /\ UNCHANGED <<sent, received, server>>

\* A request too large has another piece.
Length(i) == IF kind[i] = "large" THEN Whole + 1 ELSE Whole

Send(i) ==
    /\ client[i] = "sending" /\ conn[i] # "closed"
    /\ sent' = [sent EXCEPT ![i] = @ + 1]
    /\ Becomes(i, IF sent'[i] = Length(i) THEN "receiving" ELSE "sending")
    /\ UNCHANGED <<received, server>>

Receive(i) ==
    /\ client[i] = "receiving" /\ received[i] < offset[i]
    /\ received' = [received EXCEPT ![i] = @ + 1]
    /\ Becomes(i, IF received'[i] = Whole THEN "answered" ELSE "receiving")
    /\ UNCHANGED <<sent, server>>

\* The server closed: a broken pipe, or an end before the newline.
CutOff(i) ==
    /\ conn[i] = "closed"
    /\ client[i] = "sending" \/ (client[i] = "receiving" /\ received[i] = offset[i])
    /\ Becomes(i, "failed")
    /\ UNCHANGED <<sent, received, server>>

\* CLIENT_TIMEOUT: the client leaves, what it sent stays.
ClientDeadline(i) ==
    /\ client[i] \in Calling
    /\ Becomes(i, "failed")
    /\ UNCHANGED <<sent, received, server>>

-----------------------------------------------------------------------------
(***************************************************************************)
(* The server's loop.                                                       *)
(***************************************************************************)
\* Mutant: the limit is only that of the backlog.
AdmitAll == {backlog[n] : n \in DOMAIN backlog}

\* Whoever finds a place; the others are closed.
Admit == {backlog[n] : n \in {m \in DOMAIN backlog : m + Cardinality(Open) <= MaxConnections}}

\* _accept: everybody who waits
Accept ==
    /\ up /\ backlog # <<>>
    /\ conn' = [i \in Call |-> IF i \in Admit THEN "reading"
                               ELSE IF i \in Range(backlog) THEN "closed" ELSE conn[i]]
    /\ backlog' = <<>>
    /\ UNCHANGED <<calls, buffer, offset, ran, up, stops>>

Closes(i) == conn' = [conn EXCEPT ![i] = "closed"]
Respond(i) == conn' = [conn EXCEPT ![i] = "writing"]
Dispatch(i) == ran' = [ran EXCEPT ![i] = @ + 1]

\* _read: a piece; the last one is dispatched and answered, and so is one too
\* many, by an error.
Read(i) ==
    /\ conn[i] = "reading" /\ buffer[i] < sent[i]
    /\ buffer' = [buffer EXCEPT ![i] = @ + 1]
    /\ \/ buffer'[i] < Whole /\ UNCHANGED <<conn, ran>>
       \/ buffer'[i] = Whole /\ kind[i] # "large" /\ Dispatch(i) /\ Respond(i)
       \/ buffer'[i] = Whole /\ kind[i] = "large" /\ Respond(i) /\ UNCHANGED ran
    /\ UNCHANGED <<calls, backlog, offset, up, stops>>

\* Mutant: what was sent before the end is taken for the request.
EndsRequest(i) ==
    /\ conn[i] = "reading" /\ buffer[i] = sent[i] /\ client[i] \in Gone
    /\ Dispatch(i) /\ Respond(i)
    /\ UNCHANGED <<calls, backlog, buffer, offset, up, stops>>

\* _read: the client has gone
ReadEnd(i) ==
    /\ conn[i] = "reading" /\ buffer[i] = sent[i] /\ client[i] \in Gone
    /\ Closes(i)
    /\ UNCHANGED <<calls, backlog, buffer, offset, ran, up, stops>>

\* _write: as much as fits, and the connection ends with the response
Write(i) ==
    /\ conn[i] = "writing"
    /\ client[i] \notin Gone /\ offset[i] < received[i] + Window
    /\ offset' = [offset EXCEPT ![i] = @ + 1]
    /\ IF offset'[i] = Whole THEN Closes(i) ELSE UNCHANGED conn
    /\ UNCHANGED <<calls, backlog, buffer, ran, up, stops>>

WriteFails(i) ==
    /\ conn[i] = "writing" /\ client[i] \in Gone
    /\ Closes(i)
    /\ UNCHANGED <<calls, backlog, buffer, offset, ran, up, stops>>

\* READ_TIMEOUT since it was admitted, or WRITE_TIMEOUT since the dispatch
Deadline(i) ==
    /\ conn[i] \in {"reading", "writing"}
    /\ Closes(i)
    /\ UNCHANGED <<calls, backlog, buffer, offset, ran, up, stops>>

\* The process stops or ends, and every connection with it.
Stop ==
    /\ up /\ stops < MaxStops
    /\ up' = FALSE /\ stops' = stops + 1
    /\ conn' = [i \in Call |-> IF conn[i] = Idle THEN Idle ELSE "closed"]
    /\ backlog' = <<>>
    /\ UNCHANGED <<calls, buffer, offset, ran>>

Start ==
    /\ ~up /\ up' = TRUE
    /\ UNCHANGED <<calls, backlog, conn, buffer, offset, ran, stops>>

-----------------------------------------------------------------------------
ClientStep(i) == Send(i) \/ Receive(i) \/ CutOff(i) \/ ClientDeadline(i)
ConnectionStep(i) == Read(i) \/ ReadEnd(i) \/ Write(i) \/ WriteFails(i) \/ Deadline(i)
SocketStep ==
    /\ \/ \E i \in Call : ClientStep(i) \/ ConnectionStep(i)
       \/ Accept \/ Stop \/ Start
    /\ UNCHANGED kind

\* Clients' and connections' deadlines pass; the loop accepts, reads and writes.
ServerFairness ==
    /\ \A i \in Call : WF_socketVars(ClientDeadline(i) /\ UNCHANGED kind)
    /\ \A i \in Call : WF_socketVars(Deadline(i) /\ UNCHANGED kind)
    /\ WF_socketVars(Accept /\ UNCHANGED kind)

SocketTypeOK ==
    /\ client \in [Call -> {Idle} \cup Calling \cup Gone]
    /\ conn \in [Call -> {Idle, "backlog", "reading", "writing", "closed"}]
    /\ {sent, buffer} \subseteq [Call -> 0 .. Whole + 1]
    /\ {received, offset} \subseteq [Call -> 0 .. Whole]
    /\ ran \in [Call -> Nat]
    /\ Len(backlog) <= MaxConnections /\ Cardinality(Open) <= MaxConnections

-----------------------------------------------------------------------------
(***************************************************************************)
(* A call as its client sees it, and its request as the daemon does.        *)
(***************************************************************************)
Knows(i) ==
    IF client[i] \in Calling THEN "waits"
    ELSE IF client[i] = "failed" THEN "gaveup"
    ELSE IF client[i] = "answered" THEN "answered" ELSE "idle"

Effect(i) ==
    IF ran[i] > 0 THEN IF ran[i] = 1 /\ buffer[i] = Whole THEN "applied" ELSE "torn"
    ELSE IF conn[i] \in {"writing", "closed"} \/ (conn[i] = Idle /\ client[i] = "failed") THEN "never"
    ELSE IF conn[i] \in {"backlog", "reading"} THEN "possible" ELSE "none"

E == INSTANCE Exchange WITH knows <- [i \in Call |-> Knows(i)], effect <- [i \in Call |-> Effect(i)]

\* A request of a client takes effect at most once and as a whole, though the
\* client may have left; an answer comes after that; and clients and requests are
\* settled in the end, whatever is slow, lost, refused, cut off or restarted.
Exchanges == E!Spec

=============================================================================
