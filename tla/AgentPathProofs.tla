--------------------------- MODULE AgentPathProofs ---------------------------
(***************************************************************************)
(* Proofs about AgentPath, for any number of frames, calls, connections and *)
(* stops.  Three arguments on one invariant: clients, connections and the   *)
(* server's limits (SInv, LimitInv, PlacesInv); with it every step is a     *)
(* step of Exchange or leaves it alone; and the bridge's account of pieces, *)
(* of the one answer on its way and of what was answered, which the         *)
(* server's part makes true (the rest of PathInv).                          *)
(***************************************************************************)
EXTENDS AgentPath, FiniteSetTheorems, TLAPS

-----------------------------------------------------------------------------
(***************************************************************************)
(* The invariant: how far client and connection of a call are together.     *)
(***************************************************************************)
ServerTypes ==
    /\ client \in [Call -> {Idle} \cup Calling \cup Gone]
    /\ conn \in [Call -> {Idle, "backlog", "reading", "writing", "closed"}]
    /\ sent \in [Call -> Nat] /\ received \in [Call -> Nat]
    /\ buffer \in [Call -> Nat] /\ offset \in [Call -> Nat]
    /\ ran \in [Call -> Nat]
    /\ backlog \in Seq(Call)

\* Whoever waits to be accepted is a connection that nobody has read from.
QueueInv == \A n \in DOMAIN backlog : conn[backlog[n]] = "backlog"

\* A client without a connection has not begun or could not connect.
ConnectedInv ==
    \A i \in Call : /\ client[i] = Idle => conn[i] = Idle
                    /\ conn[i] = Idle => client[i] \in {Idle, "failed"}

\* A request is dispatched once, whole and before it is answered.
DispatchAt(i) ==
    /\ conn[i] = "reading" => buffer[i] < Whole
    /\ conn[i] \in {Idle, "backlog"} => buffer[i] = 0
    /\ conn[i] \in {Idle, "backlog", "reading"} => ran[i] = 0 /\ offset[i] = 0
    /\ ran[i] = 0 \/ (ran[i] = 1 /\ buffer[i] = Whole)
    /\ received[i] <= offset[i]
DispatchInv == \A i \in Call : DispatchAt(i)

SInv == ServerTypes /\ QueueInv /\ ConnectedInv /\ DispatchInv

\* What a step does to clients and server: the bridge's own do nothing.
SocketMove ==
    \/ UNCHANGED <<calls, server>>
    \/ \E i \in Call : Connect(i) \/ ConnectFails(i) \/ ClientStep(i) \/ ConnectionStep(i)
    \/ Accept \/ Stop \/ Start

LEMMA Moves == [Next]_vars => SocketMove
    BY PathAssumption DEF Next, vars, socketVars, Calls, OthersCall, Others, SocketStep, SocketMove

\* Whoever is accepted or closed was waiting.
LEMMA Waiting ==
    ASSUME ServerTypes, QueueInv
    PROVE  \A i \in Admit \cup Range(backlog) : i \in Call /\ conn[i] = "backlog"
    BY SMTT(30) DEF ServerTypes, QueueInv, Admit, Range

\* A read moves its own connection only, and to "writing" with the last piece.
LEMMA Reading ==
    ASSUME ServerTypes, NEW i \in Call, Read(i)
    PROVE  /\ UNCHANGED <<client, sent, received, backlog, offset>>
           /\ conn[i] = "reading" /\ buffer'[i] = buffer[i] + 1
           /\ conn' \in [Call -> {Idle, "backlog", "reading", "writing", "closed"}]
           /\ ran' \in [Call -> Nat] /\ buffer' \in [Call -> Nat]
           /\ \A j \in Call \ {i} : conn'[j] = conn[j] /\ ran'[j] = ran[j] /\ buffer'[j] = buffer[j]
           /\ \/ conn'[i] = "reading" /\ ran'[i] = ran[i] /\ buffer[i] + 1 < Whole
              \/ /\ conn'[i] = "writing" /\ buffer[i] + 1 = Whole
                 /\ (ran'[i] = ran[i] /\ kind[i] = "large") \/ ran'[i] = ran[i] + 1
    <1>. USE DEF ServerTypes, Read, calls
    <1>1. CASE buffer'[i] < Whole /\ UNCHANGED <<conn, ran>>
        BY <1>1
    <1>2. CASE buffer'[i] = Whole /\ Dispatch(i) /\ Respond(i)
        BY <1>2 DEF Dispatch, Respond
    <1>3. CASE buffer'[i] = Whole /\ kind[i] = "large" /\ Respond(i) /\ UNCHANGED ran
        BY <1>3 DEF Respond
    <1>. QED
        BY <1>1, <1>2, <1>3

\* A write moves its own connection only, and ends it with the last piece.
LEMMA Writing ==
    ASSUME ServerTypes, NEW i \in Call, Write(i)
    PROVE  /\ UNCHANGED <<client, sent, received, backlog, buffer, ran>>
           /\ conn[i] = "writing" /\ offset' = [offset EXCEPT ![i] = @ + 1]
           /\ conn' \in [Call -> {Idle, "backlog", "reading", "writing", "closed"}]
           /\ \A j \in Call \ {i} : conn'[j] = conn[j]
           /\ conn'[i] = "closed" \/ (conn'[i] = "writing" /\ offset[i] + 1 # Whole)
    <1>. USE DEF ServerTypes, Write, calls
    <1>1. CASE offset'[i] # Whole /\ UNCHANGED conn
        BY <1>1
    <1>2. CASE Closes(i)
        BY <1>2 DEF Closes
    <1>. QED
        BY <1>1, <1>2

\* Every step keeps the types.
LEMMA NextTypes ==
    ASSUME ServerTypes, SocketMove
    PROVE  ServerTypes'
    <1>. USE ServerAssumption DEF ServerTypes, Idle, Calling, Gone, Whole, calls, server
    <1>1. ASSUME NEW i \in Call, Connect(i) PROVE ServerTypes'
        BY <1>1 DEF Connect, Becomes
    <1>2. ASSUME NEW i \in Call, ConnectFails(i) PROVE ServerTypes'
        BY <1>2 DEF ConnectFails, Becomes
    <1>3. ASSUME NEW i \in Call, Send(i) PROVE ServerTypes'
        BY <1>3 DEF Send, Becomes, Length
    <1>4. ASSUME NEW i \in Call, Receive(i) PROVE ServerTypes'
        BY <1>4 DEF Receive, Becomes
    <1>5. ASSUME NEW i \in Call, CutOff(i) PROVE ServerTypes'
        BY <1>5 DEF CutOff, Becomes
    <1>6. ASSUME NEW i \in Call, ClientDeadline(i) PROVE ServerTypes'
        BY <1>6 DEF ClientDeadline, Becomes
    <1>7. ASSUME NEW i \in Call, Read(i) PROVE ServerTypes'
        BY <1>7, Reading, SMTT(30)
    <1>8. ASSUME NEW i \in Call, ReadEnd(i) PROVE ServerTypes'
        BY <1>8 DEF ReadEnd, Closes
    <1>9. ASSUME NEW i \in Call, Write(i) PROVE ServerTypes'
        <2>a. offset' = [offset EXCEPT ![i] = @ + 1]
            BY <1>9, Writing
        <2>1. offset' \in [Call -> Nat]
            <3>1. offset \in [Call -> Nat] /\ offset[i] + 1 \in Nat
                OBVIOUS
            <3>. QED BY <2>a, <3>1
        <2>2. conn' \in [Call -> {Idle, "backlog", "reading", "writing", "closed"}]
            BY <1>9, Writing
        <2>3. UNCHANGED <<client, sent, received, backlog, buffer, ran>>
            BY <1>9, Writing
        <2>. QED
            BY <2>1, <2>2, <2>3
    <1>10. ASSUME NEW i \in Call, WriteFails(i) PROVE ServerTypes'
        BY <1>10 DEF WriteFails, Closes
    <1>11. ASSUME NEW i \in Call, Deadline(i) PROVE ServerTypes'
        BY <1>11 DEF Deadline, Closes
    <1>12. CASE Accept
        BY <1>12 DEF Accept
    <1>13. CASE Stop
        BY <1>13 DEF Stop
    <1>14. CASE Start
        BY <1>14 DEF Start
    <1>15. CASE UNCHANGED <<calls, server>>
        BY <1>15
    <1>. QED
        BY <1>1, <1>2, <1>3, <1>4, <1>5, <1>6, <1>7, <1>8, <1>9, <1>10, <1>11, <1>12, <1>13, <1>14, <1>15
        DEF SocketMove, ClientStep, ConnectionStep

\* The backlog holds connections that were not accepted.
LEMMA NextQueue ==
    ASSUME ServerTypes, QueueInv, ConnectedInv, SocketMove
    PROVE  QueueInv'
    <1>. USE ServerAssumption DEF ServerTypes, QueueInv, ConnectedInv, Idle, calls, server
    <1>1. ASSUME NEW i \in Call, Connect(i) PROVE QueueInv'
        BY <1>1, SMTT(60) DEF Connect, Becomes
    <1>2. ASSUME NEW i \in Call, ConnectFails(i) PROVE QueueInv'
        BY <1>2 DEF ConnectFails, Becomes
    <1>3. ASSUME NEW i \in Call, Send(i) PROVE QueueInv'
        BY <1>3 DEF Send, Becomes, Length
    <1>4. ASSUME NEW i \in Call, Receive(i) PROVE QueueInv'
        BY <1>4 DEF Receive, Becomes
    <1>5. ASSUME NEW i \in Call, CutOff(i) PROVE QueueInv'
        BY <1>5 DEF CutOff, Becomes
    <1>6. ASSUME NEW i \in Call, ClientDeadline(i) PROVE QueueInv'
        BY <1>6 DEF ClientDeadline, Becomes
    <1>7. ASSUME NEW i \in Call, Read(i) PROVE QueueInv'
        BY <1>7, Reading
    <1>8. ASSUME NEW i \in Call, ReadEnd(i) PROVE QueueInv'
        BY <1>8 DEF ReadEnd, Closes
    <1>9. ASSUME NEW i \in Call, Write(i) PROVE QueueInv'
        BY <1>9, Writing
    <1>10. ASSUME NEW i \in Call, WriteFails(i) PROVE QueueInv'
        BY <1>10 DEF WriteFails, Closes
    <1>11. ASSUME NEW i \in Call, Deadline(i) PROVE QueueInv'
        BY <1>11, SMTT(30) DEF Deadline, Closes
    <1>12. CASE Accept
        BY <1>12, Waiting DEF Accept
    <1>13. CASE Stop
        BY <1>13 DEF Stop
    <1>14. CASE Start
        BY <1>14 DEF Start
    <1>15. CASE UNCHANGED <<calls, server>>
        BY <1>15
    <1>. QED
        BY <1>1, <1>2, <1>3, <1>4, <1>5, <1>6, <1>7, <1>8, <1>9, <1>10, <1>11, <1>12, <1>13, <1>14, <1>15
        DEF SocketMove, ClientStep, ConnectionStep

\* A client has its connection from connect on.
LEMMA NextConnected ==
    ASSUME ServerTypes, QueueInv, ConnectedInv, SocketMove
    PROVE  ConnectedInv'
    <1>. USE ServerAssumption DEF ServerTypes, ConnectedInv, Idle, Calling, Gone, calls, server
    <1>1. ASSUME NEW i \in Call, Connect(i) PROVE ConnectedInv'
        BY <1>1 DEF Connect, Becomes
    <1>2. ASSUME NEW i \in Call, ConnectFails(i) PROVE ConnectedInv'
        BY <1>2 DEF ConnectFails, Becomes
    <1>3. ASSUME NEW i \in Call, Send(i) PROVE ConnectedInv'
        BY <1>3 DEF Send, Becomes, Length
    <1>4. ASSUME NEW i \in Call, Receive(i) PROVE ConnectedInv'
        BY <1>4 DEF Receive, Becomes
    <1>5. ASSUME NEW i \in Call, CutOff(i) PROVE ConnectedInv'
        BY <1>5 DEF CutOff, Becomes
    <1>6. ASSUME NEW i \in Call, ClientDeadline(i) PROVE ConnectedInv'
        BY <1>6 DEF ClientDeadline, Becomes
    <1>7. ASSUME NEW i \in Call, Read(i) PROVE ConnectedInv'
        BY <1>7, Reading
    <1>8. ASSUME NEW i \in Call, ReadEnd(i) PROVE ConnectedInv'
        BY <1>8 DEF ReadEnd, Closes
    <1>9. ASSUME NEW i \in Call, Write(i) PROVE ConnectedInv'
        BY <1>9, Writing
    <1>10. ASSUME NEW i \in Call, WriteFails(i) PROVE ConnectedInv'
        BY <1>10 DEF WriteFails, Closes
    <1>11. ASSUME NEW i \in Call, Deadline(i) PROVE ConnectedInv'
        BY <1>11 DEF Deadline, Closes
    <1>12. CASE Accept
        BY <1>12, Waiting DEF Accept
    <1>13. CASE Stop
        BY <1>13 DEF Stop
    <1>14. CASE Start
        BY <1>14 DEF Start
    <1>15. CASE UNCHANGED <<calls, server>>
        BY <1>15
    <1>. QED
        BY <1>1, <1>2, <1>3, <1>4, <1>5, <1>6, <1>7, <1>8, <1>9, <1>10, <1>11, <1>12, <1>13, <1>14, <1>15
        DEF SocketMove, ClientStep, ConnectionStep

\* A request is dispatched in the step that reads its end, and the connection turns.
LEMMA NextDispatch ==
    ASSUME ServerTypes, QueueInv, ConnectedInv, DispatchInv, SocketMove
    PROVE  DispatchInv'
    <1>. USE ServerAssumption
         DEF ServerTypes, DispatchInv, DispatchAt, ConnectedInv, Idle, Whole, calls, server
    <1>1. ASSUME NEW i \in Call, Connect(i) PROVE DispatchInv'
        BY <1>1 DEF Connect, Becomes
    <1>2. ASSUME NEW i \in Call, ConnectFails(i) PROVE DispatchInv'
        BY <1>2 DEF ConnectFails, Becomes
    <1>3. ASSUME NEW i \in Call, Send(i) PROVE DispatchInv'
        BY <1>3 DEF Send, Becomes, Length
    <1>4. ASSUME NEW i \in Call, Receive(i) PROVE DispatchInv'
        BY <1>4 DEF Receive, Becomes
    <1>5. ASSUME NEW i \in Call, CutOff(i) PROVE DispatchInv'
        BY <1>5 DEF CutOff, Becomes
    <1>6. ASSUME NEW i \in Call, ClientDeadline(i) PROVE DispatchInv'
        BY <1>6 DEF ClientDeadline, Becomes
    <1>7. ASSUME NEW i \in Call, Read(i) PROVE DispatchInv'
        <2>1. SUFFICES ASSUME NEW j \in Call PROVE DispatchAt(j)'
            OBVIOUS
        <2>2. CASE j = i
            BY <1>7, <2>2, Reading
        <2>3. CASE j # i
            BY <1>7, <2>3, Reading, SMTT(30)
        <2>. QED
            BY <2>2, <2>3
    <1>8. ASSUME NEW i \in Call, ReadEnd(i) PROVE DispatchInv'
        BY <1>8 DEF ReadEnd, Closes
    <1>9. ASSUME NEW i \in Call, Write(i) PROVE DispatchInv'
        <2>1. SUFFICES ASSUME NEW j \in Call PROVE DispatchAt(j)'
            OBVIOUS
        <2>2. CASE j = i
            BY <1>9, <2>2, Writing, SMTT(30)
        <2>3. CASE j # i
            BY <1>9, <2>3, Writing, SMTT(30)
        <2>. QED
            BY <2>2, <2>3
    <1>10. ASSUME NEW i \in Call, WriteFails(i) PROVE DispatchInv'
        BY <1>10 DEF WriteFails, Closes
    <1>11. ASSUME NEW i \in Call, Deadline(i) PROVE DispatchInv'
        BY <1>11 DEF Deadline, Closes
    <1>12. CASE Accept
        <2>1. SUFFICES ASSUME NEW j \in Call PROVE DispatchAt(j)'
            OBVIOUS
        <2>2. CASE j \in Admit \cup Range(backlog)
            <3>1. conn[j] = "backlog"
                BY <2>2, Waiting
            <3>2. conn'[j] \in {"reading", "closed"}
                BY <1>12, <2>2 DEF Accept
            <3>3. UNCHANGED <<received, buffer, offset, ran>>
                BY <1>12 DEF Accept
            <3>. QED
                BY <3>1, <3>2, <3>3
        <2>3. CASE j \notin Admit \cup Range(backlog)
            BY <1>12, <2>3 DEF Accept
        <2>. QED
            BY <2>2, <2>3
    <1>13. CASE Stop
        BY <1>13 DEF Stop
    <1>14. CASE Start
        BY <1>14 DEF Start
    <1>15. CASE UNCHANGED <<calls, server>>
        BY <1>15
    <1>. QED
        BY <1>1, <1>2, <1>3, <1>4, <1>5, <1>6, <1>7, <1>8, <1>9, <1>10, <1>11, <1>12, <1>13, <1>14, <1>15
        DEF SocketMove, ClientStep, ConnectionStep

\* The invariant holds in every state.
LEMMA ServerInvariant == Spec => []SInv
    <1>1. Init => SInv
        BY DEF Init, SocketInit, SInv, ServerTypes, QueueInv, ConnectedInv, DispatchInv, DispatchAt,
               Idle, Calling, Gone, Whole
    <1>2. SInv /\ [Next]_vars => SInv'
        BY Moves, NextTypes, NextQueue, NextConnected, NextDispatch DEF SInv
    <1>. QED
        BY <1>1, <1>2, PTL DEF Spec

\* What is sent, read, written and received is within a request and a response,
\* and a response is to a request that was dispatched or too large.
LimitAt(i) ==
    /\ sent[i] <= Length(i) /\ (client[i] \in {Idle, "sending"} => sent[i] < Length(i))
    /\ buffer[i] <= Whole /\ offset[i] <= Whole
    /\ conn[i] # "closed" => offset[i] < Whole
    /\ offset[i] > 0 \/ conn[i] = "writing" => ran[i] = 1 \/ kind[i] = "large"
    /\ client[i] = "answered" => received[i] > 0
LimitInv == \A i \in Call : LimitAt(i)

\* They hold on for a call that nothing happens to.
LEMMA LimitStays ==
    ASSUME NEW j \in Call, LimitAt(j), UNCHANGED kind,
           client'[j] = client[j], sent'[j] = sent[j], received'[j] = received[j],
           conn'[j] = conn[j], buffer'[j] = buffer[j], offset'[j] = offset[j], ran'[j] = ran[j]
    PROVE  LimitAt(j)'
    BY DEF LimitAt, Length

\* Every step keeps these limits.
LEMMA NextLimits ==
    ASSUME SInv, LimitInv, SocketMove, UNCHANGED kind
    PROVE  LimitInv'
    <1>. USE ServerAssumption
         DEF SInv, ServerTypes, DispatchInv, DispatchAt, ConnectedInv, LimitInv, LimitAt,
             Idle, Calling, Gone, Whole, Length, calls, server
    <1>1. ASSUME NEW i \in Call, Connect(i) PROVE LimitInv'
        BY <1>1 DEF Connect, Becomes
    <1>2. ASSUME NEW i \in Call, ConnectFails(i) PROVE LimitInv'
        BY <1>2 DEF ConnectFails, Becomes
    <1>3. ASSUME NEW i \in Call, Send(i) PROVE LimitInv'
        BY <1>3, SMTT(30) DEF Send, Becomes, Length
    <1>4. ASSUME NEW i \in Call, Receive(i) PROVE LimitInv'
        <2>1. SUFFICES ASSUME NEW j \in Call PROVE LimitAt(j)'
            OBVIOUS
        <2>2. CASE j = i
            <3>1. received'[i] = received[i] + 1 /\ UNCHANGED <<sent, conn, buffer, offset, ran>>
                BY <1>4 DEF Receive
            <3>2. client'[i] \in {"answered", "receiving"}
                BY <1>4 DEF Receive, Becomes
            <3>. QED
                BY <2>2, <3>1, <3>2
        <2>3. CASE j # i
            BY <1>4, <2>3, LimitStays DEF Receive, Becomes
        <2>. QED
            BY <2>2, <2>3
    <1>5. ASSUME NEW i \in Call, CutOff(i) PROVE LimitInv'
        BY <1>5 DEF CutOff, Becomes
    <1>6. ASSUME NEW i \in Call, ClientDeadline(i) PROVE LimitInv'
        BY <1>6 DEF ClientDeadline, Becomes
    <1>7. ASSUME NEW i \in Call, Read(i) PROVE LimitInv'
        <2>1. SUFFICES ASSUME NEW j \in Call PROVE LimitAt(j)'
            OBVIOUS
        <2>2. CASE j = i
            BY <1>7, <2>2, Reading, SMTT(30)
        <2>3. CASE j # i
            BY <1>7, <2>3, LimitStays, Reading, SMTT(30)
        <2>. QED
            BY <2>2, <2>3
    <1>8. ASSUME NEW i \in Call, ReadEnd(i) PROVE LimitInv'
        BY <1>8 DEF ReadEnd, Closes
    <1>9. ASSUME NEW i \in Call, Write(i) PROVE LimitInv'
        <2>1. SUFFICES ASSUME NEW j \in Call PROVE LimitAt(j)'
            OBVIOUS
        <2>2. CASE j = i
            BY <1>9, <2>2, Writing, SMTT(30)
        <2>3. CASE j # i
            BY <1>9, <2>3, LimitStays, Writing, SMTT(30)
        <2>. QED
            BY <2>2, <2>3
    <1>10. ASSUME NEW i \in Call, WriteFails(i) PROVE LimitInv'
        BY <1>10 DEF WriteFails, Closes
    <1>11. ASSUME NEW i \in Call, Deadline(i) PROVE LimitInv'
        BY <1>11 DEF Deadline, Closes
    <1>12. CASE Accept
        <2>1. SUFFICES ASSUME NEW j \in Call PROVE LimitAt(j)'
            OBVIOUS
        <2>2. CASE j \in Admit \cup Range(backlog)
            <3>1. conn[j] = "backlog"
                BY <2>2, Waiting
            <3>2. conn'[j] \in {"reading", "closed"}
                BY <1>12, <2>2 DEF Accept
            <3>3. UNCHANGED <<client, sent, received, buffer, offset, ran>>
                BY <1>12 DEF Accept
            <3>. QED
                BY <3>1, <3>2, <3>3
        <2>3. CASE j \notin Admit \cup Range(backlog)
            BY <1>12, <2>3 DEF Accept
        <2>. QED
            BY <2>2, <2>3
    <1>13. CASE Stop
        BY <1>13 DEF Stop
    <1>14. CASE Start
        BY <1>14 DEF Start
    <1>15. CASE UNCHANGED <<calls, server>>
        BY <1>15
    <1>. QED
        BY <1>1, <1>2, <1>3, <1>4, <1>5, <1>6, <1>7, <1>8, <1>9, <1>10, <1>11, <1>12, <1>13, <1>14, <1>15
        DEF SocketMove, ClientStep, ConnectionStep

\* The limit of the backlog and of the connections.
PlacesInv ==
    /\ Len(backlog) <= MaxConnections
    /\ IsFiniteSet(Open) /\ Cardinality(Open) <= MaxConnections

\* No more are admitted than there are places.
LEMMA AdmittedFit ==
    ASSUME ServerTypes, PlacesInv
    PROVE  IsFiniteSet(Open \cup Admit) /\ Cardinality(Open \cup Admit) <= MaxConnections
    <1>. DEFINE free == MaxConnections - Cardinality(Open)
                first == {m \in DOMAIN backlog : m + Cardinality(Open) <= MaxConnections}
    <1>1. free \in Nat /\ Cardinality(Open) \in Nat
        BY ServerAssumption, FS_CardinalityType DEF PlacesInv
    <1>2. first \subseteq 1 .. free
        <2>1. DOMAIN backlog = 1 .. Len(backlog) /\ Len(backlog) \in Nat
            BY DEF ServerTypes
        <2>. QED BY <2>1, <1>1, ServerAssumption
    <1>3. IsFiniteSet(1 .. free) /\ Cardinality(1 .. free) = free
        BY <1>1, FS_Interval
    <1>4. IsFiniteSet(first) /\ Cardinality(first) <= free
        <2>. HIDE DEF first
        <2>. QED BY <1>2, <1>3, FS_Subset
    <1>5. IsFiniteSet(Admit) /\ Cardinality(Admit) <= Cardinality(first)
        <2>. DEFINE f == [m \in first |-> backlog[m]]
        <2>1. f \in Surjection(first, Admit)
            BY DEF Surjection, Admit
        <2>. HIDE DEF f, first
        <2>. QED BY <2>1, <1>4, FS_Surjection
    <1>6. IsFiniteSet(Open \cup Admit)
        BY <1>5, FS_Union DEF PlacesInv
    <1>7. Cardinality(Open \cup Admit) = Cardinality(Open) + Cardinality(Admit) - Cardinality(Open \cap Admit)
        BY <1>5, FS_Union DEF PlacesInv
    <1>8. Cardinality(Open \cap Admit) \in Nat /\ Cardinality(Admit) \in Nat /\ Cardinality(first) \in Nat
        <2>1. IsFiniteSet(Open \cap Admit)
            BY <1>5, FS_Intersection DEF PlacesInv
        <2>. HIDE DEF first
        <2>. QED BY <2>1, <1>4, <1>5, FS_CardinalityType
    <1>. QED
        <2>. HIDE DEF first
        <2>. QED BY <1>1, <1>4, <1>5, <1>6, <1>7, <1>8, ServerAssumption

\* A set of connections that are open already is within the limit.
LEMMA FewerOpen ==
    ASSUME PlacesInv, Open' \subseteq Open, Len(backlog') <= MaxConnections
    PROVE  PlacesInv'
    <1>1. IsFiniteSet(Open') /\ Cardinality(Open') <= Cardinality(Open)
        BY FS_Subset DEF PlacesInv
    <1>2. Cardinality(Open') \in Nat /\ Cardinality(Open) \in Nat
        BY <1>1, FS_CardinalityType DEF PlacesInv
    <1>. QED
        BY <1>1, <1>2, ServerAssumption DEF PlacesInv

\* Every step keeps the limits of the backlog and of the connections.
LEMMA NextPlaces ==
    ASSUME SInv, PlacesInv, SocketMove
    PROVE  PlacesInv'
    <1>. USE ServerAssumption DEF SInv, ServerTypes, calls, server
    <1>e. UNCHANGED conn => Open' = Open
        BY DEF Open
    <1>a. ASSUME Open' \subseteq Open, Len(backlog') <= MaxConnections PROVE PlacesInv'
        BY <1>a, FewerOpen
    <1>b. ASSUME NEW i \in Call, conn' \in [Call -> {Idle, "backlog", "reading", "writing", "closed"}],
                 conn'[i] \notin {"reading", "writing"} \/ conn[i] \in {"reading", "writing"},
                 \A j \in Call \ {i} : conn'[j] = conn[j], Len(backlog') <= MaxConnections
          PROVE  PlacesInv'
        <2>1. Open' \subseteq Open
            BY <1>b DEF Open
        <2>. QED BY <1>b, <2>1, <1>a
    <1>c. Len(backlog) <= MaxConnections /\ Len(backlog) \in Nat
        BY DEF PlacesInv
    <1>d. ASSUME UNCHANGED <<backlog, conn>> PROVE PlacesInv'
        BY <1>d, <1>c, <1>a, <1>e
    <1>1. ASSUME NEW i \in Call, Connect(i) PROVE PlacesInv'
        <2>1. backlog' = Append(backlog, i) /\ conn' = [conn EXCEPT ![i] = "backlog"]
            BY <1>1 DEF Connect
        <2>2. Len(backlog') <= MaxConnections
            BY <1>1, <2>1, <1>c DEF Connect
        <2>3. Open' \subseteq Open
            BY <2>1 DEF Open
        <2>. QED
            BY <2>2, <2>3, <1>a
    <1>2. ASSUME NEW i \in Call, ConnectFails(i) PROVE PlacesInv'
        BY <1>2, <1>d DEF ConnectFails
    <1>3. ASSUME NEW i \in Call, Send(i) PROVE PlacesInv'
        BY <1>3, <1>d DEF Send
    <1>4. ASSUME NEW i \in Call, Receive(i) PROVE PlacesInv'
        BY <1>4, <1>d DEF Receive
    <1>5. ASSUME NEW i \in Call, CutOff(i) PROVE PlacesInv'
        BY <1>5, <1>d DEF CutOff
    <1>6. ASSUME NEW i \in Call, ClientDeadline(i) PROVE PlacesInv'
        BY <1>6, <1>d DEF ClientDeadline
    <1>7. ASSUME NEW i \in Call, Read(i) PROVE PlacesInv'
        <2>1. UNCHANGED backlog /\ conn[i] = "reading" /\ \A j \in Call \ {i} : conn'[j] = conn[j]
            BY <1>7, Reading
        <2>2. Open' \subseteq Open
            BY <2>1 DEF Open
        <2>. QED
            BY <2>1, <2>2, <1>a, <1>c
    <1>8. ASSUME NEW i \in Call, ReadEnd(i) PROVE PlacesInv'
        BY <1>8, <1>b, <1>c DEF ReadEnd, Closes, Idle
    <1>9. ASSUME NEW i \in Call, Write(i) PROVE PlacesInv'
        BY <1>9, <1>b, <1>c, Writing
    <1>10. ASSUME NEW i \in Call, WriteFails(i) PROVE PlacesInv'
        BY <1>10, <1>b, <1>c DEF WriteFails, Closes, Idle
    <1>11. ASSUME NEW i \in Call, Deadline(i) PROVE PlacesInv'
        BY <1>11, <1>b, <1>c DEF Deadline, Closes, Idle
    <1>12. CASE Accept
        <2>1. Open' \subseteq Open \cup Admit
            BY <1>12 DEF Accept, Open
        <2>2. IsFiniteSet(Open') /\ Cardinality(Open') <= Cardinality(Open \cup Admit)
            BY <2>1, AdmittedFit, FS_Subset
        <2>3. Cardinality(Open') \in Nat /\ Cardinality(Open \cup Admit) \in Nat
            BY <2>2, AdmittedFit, FS_CardinalityType
        <2>4. backlog' = <<>>
            BY <1>12 DEF Accept
        <2>. QED
            BY <2>2, <2>3, <2>4, AdmittedFit DEF PlacesInv
    <1>13. CASE Stop
        <2>1. Open' \subseteq Open /\ Len(backlog') <= MaxConnections
            BY <1>13 DEF Stop, Open, Idle
        <2>. QED
            BY <2>1, <1>a
    <1>14. CASE Start
        BY <1>14, <1>d DEF Start
    <1>15. CASE UNCHANGED <<calls, server>>
        BY <1>15, <1>d
    <1>. QED
        BY <1>1, <1>2, <1>3, <1>4, <1>5, <1>6, <1>7, <1>8, <1>9, <1>10, <1>11, <1>12, <1>13, <1>14, <1>15
        DEF SocketMove, ClientStep, ConnectionStep

-----------------------------------------------------------------------------
(***************************************************************************)
(* The refinement: what a step means to the clients and their requests.     *)
(***************************************************************************)
Same(i) == Knows(i)' = Knows(i) /\ Effect(i)' = Effect(i)

\* One step of one exchange.
Turn(i) ==
    \/ Same(i)
    \/ Knows(i) = "idle" /\ Knows(i)' = "waits" /\ Effect(i)' = "possible"
    \/ Knows(i) = "idle" /\ Knows(i)' = "gaveup" /\ Effect(i)' = "never"
    \/ Knows(i)' = Knows(i) /\ Effect(i) = "possible" /\ Effect(i)' \in {"applied", "never"}
    \/ /\ Effect(i)' = Effect(i) /\ Knows(i) = "waits"
       /\ Knows(i)' = "gaveup" \/ (Knows(i)' = "answered" /\ Effect(i) \in {"applied", "never"})

\* What exchange i depends on stays.
Steady(i) ==
    /\ client'[i] = client[i] /\ conn'[i] = conn[i]
    /\ ran'[i] = ran[i] /\ buffer'[i] = buffer[i]

LEMMA SteadySame == ASSUME NEW i \in Call, Steady(i) PROVE Same(i)
    BY DEF Steady, Same, Knows, Effect

\* The turn of one exchange, while the others stay, is a step of Exchange.
LEMMA OneTurn ==
    ASSUME NEW i \in Call, Turn(i), \A j \in Call \ {i} : Steady(j)
    PROVE  [E!Next]_E!exchange
    <1>. DEFINE knows == [j \in Call |-> Knows(j)]
                effect == [j \in Call |-> Effect(j)]
    <1>1. \A j \in Call \ {i} : knows'[j] = knows[j] /\ effect'[j] = effect[j]
        BY SteadySame DEF Same
    <1>2. knows' = [knows EXCEPT ![i] = Knows(i)'] /\ effect' = [effect EXCEPT ![i] = Effect(i)']
        BY <1>1
    <1>3. CASE Same(i)
        BY <1>2, <1>3 DEF Same, E!exchange
    <1>4. CASE Knows(i) = "idle" /\ Knows(i)' = "waits" /\ Effect(i)' = "possible"
        BY <1>2, <1>4 DEF E!Next, E!Ask
    <1>5. CASE Knows(i) = "idle" /\ Knows(i)' = "gaveup" /\ Effect(i)' = "never"
        BY <1>2, <1>5 DEF E!Next, E!NobodyThere
    <1>6. CASE Knows(i)' = Knows(i) /\ Effect(i) = "possible" /\ Effect(i)' = "applied"
        BY <1>2, <1>6 DEF E!Next, E!Apply
    <1>7. CASE Knows(i)' = Knows(i) /\ Effect(i) = "possible" /\ Effect(i)' = "never"
        <2>1. E!Drop({i})
            BY <1>2, <1>7 DEF E!Drop
        <2>. QED
            BY <2>1 DEF E!Next
    <1>8. CASE Effect(i)' = Effect(i) /\ Knows(i) = "waits" /\ Knows(i)' = "gaveup"
        BY <1>2, <1>8 DEF E!Next, E!GiveUp
    <1>9. CASE /\ Effect(i)' = Effect(i) /\ Knows(i) = "waits"
               /\ Knows(i)' = "answered" /\ Effect(i) \in {"applied", "never"}
        BY <1>2, <1>9 DEF E!Next, E!Learn
    <1>. QED
        BY <1>3, <1>4, <1>5, <1>6, <1>7, <1>8, <1>9 DEF Turn

\* The read of a piece leaves it possible, or decides it.
LEMMA ReadTurns ==
    ASSUME SInv, NEW i \in Call, Read(i)
    PROVE  Turn(i) /\ \A j \in Call \ {i} : Steady(j)
    <1>1. ServerTypes /\ DispatchAt(i)
        BY DEF SInv, DispatchInv
    <1>2. \A j \in Call \ {i} : Steady(j)
        BY <1>1, Reading DEF Steady
    <1>3. Effect(i) = "possible" /\ ran[i] = 0
        BY <1>1, Reading DEF DispatchAt, Effect, Idle
    <1>4. Knows(i)' = Knows(i)
        BY <1>1, Reading DEF Knows
    <1>5. CASE conn'[i] = "reading" /\ ran'[i] = ran[i]
        <2>1. Effect(i)' = "possible"
            BY <1>3, <1>5 DEF Effect, Idle
        <2>. QED
            BY <1>2, <1>3, <1>4, <2>1 DEF Turn, Same
    <1>6. CASE conn'[i] = "writing" /\ ran'[i] = ran[i]
        <2>1. Effect(i)' = "never"
            BY <1>3, <1>6 DEF Effect
        <2>. QED
            BY <1>2, <1>3, <1>4, <2>1 DEF Turn, Same
    <1>7. CASE ran'[i] = ran[i] + 1 /\ buffer[i] + 1 = Whole
        <2>1. buffer'[i] = Whole
            BY <1>1, <1>7, Reading
        <2>2. Effect(i)' = "applied"
            BY <1>3, <1>7, <2>1 DEF Effect
        <2>. QED
            BY <1>2, <1>3, <1>4, <2>2 DEF Turn, Same
    <1>. QED
        BY <1>1, <1>2, <1>5, <1>6, <1>7, Reading

\* Only an answered request has an answer to be received.
LEMMA ReceiveTurns ==
    ASSUME SInv, NEW i \in Call, Receive(i)
    PROVE  Turn(i)
    <1>. USE DEF Receive, Becomes, server
    <1>1. ServerTypes /\ DispatchAt(i)
        BY DEF SInv, DispatchInv
    <1>2. offset[i] > 0 /\ client[i] = "receiving"
        BY <1>1 DEF ServerTypes
    <1>3. conn[i] \in {"writing", "closed"}
        BY <1>1, <1>2 DEF ServerTypes, DispatchAt, Idle
    <1>4. Effect(i) \in {"applied", "never"} /\ Knows(i) = "waits"
        BY <1>1, <1>2, <1>3 DEF ServerTypes, DispatchAt, Effect, Knows, Calling
    <1>5. client'[i] \in {"answered", "receiving"}
        BY <1>1, <1>2 DEF ServerTypes
    <1>6. Knows(i)' \in {"answered", "waits"}
        BY <1>5 DEF Knows, Calling
    <1>7. Effect(i)' = Effect(i)
        BY <1>3 DEF Effect, Idle
    <1>. QED
        BY <1>4, <1>6, <1>7 DEF Turn, Same

\* Every step of a client or a connection is a turn of its exchange.
LEMMA ActionTurns ==
    ASSUME SInv, SInv', NEW i \in Call,
           Connect(i) \/ ConnectFails(i) \/ ClientStep(i) \/ ConnectionStep(i)
    PROVE  Turn(i) /\ \A j \in Call \ {i} : Steady(j)
    <1>. USE DEF SInv, ServerTypes, ConnectedInv, DispatchInv, DispatchAt,
                 Idle, Calling, Gone, Whole, calls, server
    <1>1. CASE Connect(i)
        <2>1. \A j \in Call \ {i} : Steady(j)
            BY <1>1 DEF Steady, Connect, Becomes
        <2>2. Turn(i)
            BY <1>1 DEF Turn, Same, Knows, Effect, Connect, Becomes
        <2>. QED
            BY <2>1, <2>2
    <1>2. CASE ConnectFails(i)
        <2>1. \A j \in Call \ {i} : Steady(j)
            BY <1>2 DEF Steady, ConnectFails, Becomes
        <2>2. Turn(i)
            BY <1>2 DEF Turn, Same, Knows, Effect, ConnectFails, Becomes
        <2>. QED
            BY <2>1, <2>2
    <1>3. CASE Send(i)
        <2>1. \A j \in Call \ {i} : Steady(j)
            BY <1>3 DEF Steady, Send, Becomes, Length
        <2>2. Turn(i)
            BY <1>3 DEF Turn, Same, Knows, Effect, Send, Becomes, Length
        <2>. QED
            BY <2>1, <2>2
    <1>4. CASE Receive(i)
        <2>1. \A j \in Call \ {i} : Steady(j)
            BY <1>4 DEF Steady, Receive, Becomes
        <2>2. Turn(i)
            BY <1>4, ReceiveTurns
        <2>. QED
            BY <2>1, <2>2
    <1>5. CASE CutOff(i)
        <2>1. \A j \in Call \ {i} : Steady(j)
            BY <1>5 DEF Steady, CutOff, Becomes
        <2>2. Turn(i)
            BY <1>5 DEF Turn, Same, Knows, Effect, CutOff, Becomes
        <2>. QED
            BY <2>1, <2>2
    <1>6. CASE ClientDeadline(i)
        <2>1. \A j \in Call \ {i} : Steady(j)
            BY <1>6 DEF Steady, ClientDeadline, Becomes
        <2>2. Turn(i)
            BY <1>6 DEF Turn, Same, Knows, Effect, ClientDeadline, Becomes
        <2>. QED
            BY <2>1, <2>2
    <1>7. CASE Read(i)
        BY <1>7, ReadTurns
    <1>8. CASE ReadEnd(i)
        <2>1. \A j \in Call \ {i} : Steady(j)
            BY <1>8 DEF Steady, ReadEnd, Closes
        <2>2. Turn(i)
            BY <1>8 DEF Turn, Same, Knows, Effect, ReadEnd, Closes
        <2>. QED
            BY <2>1, <2>2
    <1>9. CASE Write(i)
        <2>1. \A j \in Call \ {i} : Steady(j)
            BY <1>9, Writing DEF Steady
        <2>2. Turn(i)
            BY <1>9, Writing DEF Turn, Same, Knows, Effect
        <2>. QED
            BY <2>1, <2>2
    <1>10. CASE WriteFails(i)
        <2>1. \A j \in Call \ {i} : Steady(j)
            BY <1>10 DEF Steady, WriteFails, Closes
        <2>2. Turn(i)
            BY <1>10 DEF Turn, Same, Knows, Effect, WriteFails, Closes
        <2>. QED
            BY <2>1, <2>2
    <1>11. CASE Deadline(i)
        <2>1. \A j \in Call \ {i} : Steady(j)
            BY <1>11 DEF Steady, Deadline, Closes
        <2>2. Turn(i)
            BY <1>11 DEF Turn, Same, Knows, Effect, Deadline, Closes
        <2>. QED
            BY <2>1, <2>2
    <1>. QED
        BY <1>1, <1>2, <1>3, <1>4, <1>5, <1>6, <1>7, <1>8, <1>9, <1>10, <1>11 DEF ClientStep, ConnectionStep

\* A step of the server that ends connections drops what was possible.
LEMMA ManyTurn ==
    ASSUME \A i \in Call : \/ Same(i)
                           \/ Knows(i)' = Knows(i) /\ Effect(i) = "possible" /\ Effect(i)' = "never"
    PROVE  [E!Next]_E!exchange
    <1>. DEFINE lost == {i \in Call : ~Same(i)}
    <1>1. E!Drop(lost)
        BY DEF Same, E!Drop
    <1>. QED
        BY <1>1 DEF E!Next

LEMMA ServerTurns ==
    ASSUME SInv, SInv', Accept \/ Stop \/ Start
    PROVE  \A i \in Call : \/ Same(i)
                           \/ Knows(i)' = Knows(i) /\ Effect(i) = "possible" /\ Effect(i)' = "never"
    <1>. USE DEF SInv, ServerTypes, ConnectedInv, DispatchInv, DispatchAt,
                 Idle, Calling, Gone, Whole, calls, server
    <1>. SUFFICES ASSUME NEW i \in Call
                  PROVE  \/ Same(i)
                         \/ Knows(i)' = Knows(i) /\ Effect(i) = "possible" /\ Effect(i)' = "never"
        OBVIOUS
    <1>1. CASE Accept
        <2>1. CASE i \in Admit \cup Range(backlog)
            <3>1. conn[i] = "backlog" /\ conn'[i] \in {"reading", "closed"}
                BY <1>1, <2>1, Waiting DEF Accept
            <3>2. UNCHANGED <<client, buffer, ran>>
                BY <1>1 DEF Accept
            <3>. QED
                BY <3>1, <3>2 DEF Same, Knows, Effect
        <2>2. CASE i \notin Admit \cup Range(backlog)
            BY <1>1, <2>2 DEF Accept, Same, Knows, Effect
        <2>. QED
            BY <2>1, <2>2
    <1>2. CASE Stop
        BY <1>2 DEF Stop, Same, Knows, Effect
    <1>3. CASE Start
        BY <1>3 DEF Start, Same, Knows, Effect
    <1>. QED
        BY <1>1, <1>2, <1>3

\* Requests take effect at most once, whole and before they are answered, whatever
\* bridge, clients, server and their failures do in between.
THEOREM RequestsAreExchanges == Spec => E!Requests
    <1>1. Init => E!Init
        BY DEF Init, SocketInit, E!Init, Knows, Effect, Idle, Calling, Gone, Whole
    <1>2. SInv /\ SInv' /\ [Next]_vars => [E!Next]_E!exchange
        <2>. SUFFICES ASSUME SInv, SInv', SocketMove PROVE [E!Next]_E!exchange
            BY Moves
        <2>1. CASE UNCHANGED <<calls, server>>
            BY <2>1 DEF E!exchange, calls, server, Knows, Effect
        <2>2. ASSUME NEW i \in Call,
                     Connect(i) \/ ConnectFails(i) \/ ClientStep(i) \/ ConnectionStep(i)
              PROVE  [E!Next]_E!exchange
            BY <2>2, ActionTurns, OneTurn
        <2>3. CASE Accept \/ Stop \/ Start
            BY <2>3, ServerTurns, ManyTurn
        <2>. QED
            BY <2>1, <2>2, <2>3 DEF SocketMove
    <1>. QED
        BY <1>1, <1>2, ServerInvariant, PTL DEF Spec, E!Requests

-----------------------------------------------------------------------------
(***************************************************************************)
(* The bridge: what its threads do to each other.                           *)
(***************************************************************************)
Working == {"scan", "waits", "handles", "calls"}
Ordinary == {"done", "answered", "failed"}
Answers == [frame : Nat, result : Ordinary \cup {"too large", "incomplete"}]
Entries == [answer : Answers, pieces : 0 .. Pieces]
Chunks == {<<>>} \cup {<<c>> : c \in [pieces : 0 .. ChunkPieces, late : BOOLEAN]}
Size(queue) == IF queue = <<>> THEN 0 ELSE queue[1].pieces

\* What the main thread has and has taken was read, and no more was written.
InputInv ==
    /\ host \in [pieces : 0 .. Pieces * Frames, closes : BOOLEAN]
    /\ read \in Nat /\ read <= host.pieces
    /\ reader \in {"reads", "puts", "done"}
    /\ hand \in Chunks /\ incoming \in Chunks
    /\ overdue \subseteq 1 .. Frames
    /\ main \in Working \cup {"says"} \cup Exits
    /\ taken \in Nat /\ frame \in 0 .. Pieces /\ pending \in 0 .. ChunkPieces
    /\ fatal \in BOOLEAN
    /\ Pieces * taken + frame + pending + Size(incoming) + Size(hand) <= read

OutputTypes ==
    /\ outgoing \in Seq(Answers) /\ writing \in Seq(Answers)
    /\ out \in Seq(Entries)
    /\ done \in {"no", "sent", "failed"}

\* What the bridge does in a step of the whole: its own, or the return of a call.
BridgeMove ==
    \/ UNCHANGED bridgeVars
    \/ BridgeStep
    \/ client[taken] \in Gone /\ Returns(client[taken]) /\ UNCHANGED script

LEMMA BridgeMoves == [Next]_vars => BridgeMove
    BY DEF Next, vars, CallReturns, BridgeMove

\* Every step keeps the account of the pieces.
LEMMA NextInput ==
    ASSUME InputInv, BridgeMove
    PROVE  InputInv'
    <1>. USE BridgeAssumption
         DEF InputInv, Pieces, ChunkPieces, Exits, Waits, Running, inputVars, mainVars, outputVars
    <1>a. Size(hand) \in 0 .. 2 /\ Size(incoming) \in 0 .. 2
        BY DEF Size, Chunks
    <1>b. Size(<<>>) = 0 /\ <<>> \in Chunks
        BY DEF Size, Chunks
    <1>c. \A c \in [pieces : 0 .. 2, late : BOOLEAN] : Size(<<c>>) = c.pieces /\ <<c>> \in Chunks
        BY DEF Size, Chunks
    <1>d. ASSUME UNCHANGED <<inputVars, mainVars, overdue>> PROVE InputInv'
        BY <1>d DEF Size
    <1>1. ASSUME NEW n \in 0 .. ChunkPieces, Reads(n) PROVE InputInv'
        <2>1. Chunk(n) \in [pieces : 0 .. 2, late : BOOLEAN] /\ Chunk(n).pieces = n
            BY DEF Chunk, Late
        <2>2. hand' \in Chunks /\ Size(hand)' = n
            BY <1>1, <1>c, <2>1 DEF Reads
        <2>3. /\ UNCHANGED <<host, incoming, overdue, main, taken, frame, pending, fatal>>
              /\ n <= host.pieces - read /\ read' = read + n /\ reader' = "puts"
            BY <1>1 DEF Reads
        <2>4. Size(incoming)' = Size(incoming)
            BY <2>3
        <2>5. hand = <<>> => Size(hand) = 0
            BY <1>b
        <2>. QED BY <2>2, <2>3, <2>4, <1>a, SMTT(30)
    <1>2. CASE Puts
        <2>1. incoming' = hand /\ hand' = <<>> /\ incoming = <<>> /\ reader' \in {"reads", "done"}
              /\ UNCHANGED <<host, read, overdue, main, taken, frame, pending, fatal>>
            BY <1>2 DEF Puts
        <2>2. Size(incoming)' = Size(hand) /\ Size(hand)' = 0 /\ Size(incoming) = 0
            BY <2>1, <1>b
        <2>. QED BY <2>1, <2>2, <1>a, <1>b
    <1>3. ASSUME NEW f \in 1 .. Frames, Overdue(f) PROVE InputInv'
        BY <1>3 DEF Overdue, Size
    <1>e. UNCHANGED <<hand, incoming>> => Size(hand)' = Size(hand) /\ Size(incoming)' = Size(incoming)
        OBVIOUS
    <1>4. CASE Scan
        <2>1. UNCHANGED <<host, read, reader, hand, incoming, overdue>>
            BY <1>4 DEF Scan
        <2>2. main' \in Working \cup {"says"} /\ fatal' \in BOOLEAN
            BY <1>4 DEF Scan, Fail, Say, Silent, Working
        <2>3. PICK own \in 0 .. 2 :
                /\ pending' = pending - own /\ own <= pending /\ frame + own <= 2
                /\ \/ frame + own = 2 /\ frame' = 0 /\ taken' \in {taken, taken + 1}
                   \/ frame' = frame + own /\ taken' = taken
            <3>. DEFINE own == IF pending < 2 - frame THEN pending ELSE 2 - frame
            <3>1. own \in 0 .. 2 /\ own <= pending /\ frame + own <= 2
                OBVIOUS
            <3>2. /\ pending' = pending - own
                  /\ \/ frame + own = 2 /\ frame' = 0 /\ taken' \in {taken, taken + 1}
                     \/ frame' = frame + own /\ taken' = taken
                BY <1>4 DEF Scan
            <3>. HIDE DEF own
            <3>. QED BY <3>1, <3>2
        <2>4. Size(hand)' = Size(hand) /\ Size(incoming)' = Size(incoming)
            BY <2>1, <1>e
        <2>5. pending' \in 0 .. 2 /\ frame' \in 0 .. 2 /\ taken' \in Nat
            BY <2>3
        <2>6. Pieces * taken' + frame' + pending' + Size(incoming)' + Size(hand)' <= read'
            BY <2>1, <2>3, <2>4, <1>a
        <2>. QED BY <2>1, <2>2, <2>5, <2>6
    <1>5. CASE Get
        <2>1. PICK c \in [pieces : 0 .. 2, late : BOOLEAN] : incoming = <<c>>
            BY <1>5 DEF Get, Chunks
        <2>2. incoming' = <<>> /\ UNCHANGED <<host, read, reader, hand, overdue, taken, frame>>
            BY <1>5 DEF Get
        <2>3. main' \in {"exit0", "says", "scan"} /\ fatal' \in BOOLEAN /\ pending' \in {pending, c.pieces}
            BY <1>5, <2>1 DEF Get, Fail, Say, Silent
        <2>4. Size(incoming) = c.pieces /\ Size(incoming)' = 0 /\ Size(hand)' = Size(hand)
            BY <2>1, <2>2, <1>b, <1>c
        <2>5. pending' \in 0 .. 2 /\ pending' <= pending + c.pieces
            BY <2>3
        <2>6. main' \in Working \cup {"says"} \cup Exits
            BY <2>3 DEF Working
        <2>. QED BY <2>2, <2>3, <2>4, <2>5, <2>6, <1>a, <1>b, SMTT(30)
    <1>6. CASE GetTimesOut
        BY <1>6, <1>e DEF GetTimesOut, Fail, Say
    <1>7. CASE Handle
        BY <1>7, <1>e DEF Handle, Say, Silent, Working
    <1>8. CASE Returns(client[taken])
        BY <1>8, <1>e DEF Returns, Say
    <1>9. CASE Said
        BY <1>9, <1>e DEF Said, Working
    <1>10. CASE SayTimesOut
        BY <1>10, <1>e DEF SayTimesOut
    <1>11. CASE Takes \/ Writes \/ WriteBreaks
        BY <1>11, <1>d DEF Takes, Writes, WriteBreaks
    <1>12. CASE UNCHANGED bridgeVars
        BY <1>12, <1>d DEF bridgeVars
    <1>. QED
        BY <1>1, <1>2, <1>3, <1>4, <1>5, <1>6, <1>7, <1>8, <1>9, <1>10, <1>11, <1>12
        DEF BridgeMove, BridgeStep, Threads

\* The main thread goes on and says nothing: a frame that is taken is handled, a
\* note is passed over, a call is begun.
GoesOn ==
    /\ UNCHANGED <<fatal, outputVars>>
    /\ \/ main \in {"scan", "waits"} /\ main' \in {"scan", "waits", "exit0"} /\ taken' = taken
       \/ main = "scan" /\ main' = "handles" /\ taken' = taken + 1
       \/ main = "handles" /\ script[taken] = "note" /\ main' = "scan" /\ taken' = taken
       \/ main = "handles" /\ script[taken] = "call" /\ main' = "calls" /\ taken' = taken

\* It has an answer: to the frame it handles, or a fatal one to the next.
Utters(a) ==
    /\ main' = "says" /\ taken' = taken
    /\ outgoing' = Append(outgoing, a) /\ done' = "no" /\ UNCHANGED <<writing, out>>
    /\ \/ /\ main \in {"scan", "waits"} /\ fatal' = TRUE
          /\ a.frame = taken + 1 /\ a.result \in {"too large", "incomplete"}
       \/ /\ main \in {"handles", "calls"} /\ fatal' = fatal
          /\ a.frame = taken /\ a.result \in Ordinary
          /\ a.result = "answered" => main = "calls" /\ client[taken] = "answered"

\* Its answer is out, or it gives up.
Finishes ==
    /\ main = "says" /\ UNCHANGED <<taken, fatal, outputVars>>
    /\ main' = "exit2" \/ (main' = "scan" /\ done = "sent" /\ ~fatal)

\* The writer thread, and whoever has nothing to do with the answers.
Outputs == UNCHANGED <<main, taken, fatal>> /\ (Takes \/ Writes \/ WriteBreaks)
Elsewhere == UNCHANGED <<main, taken, fatal, outputVars>>

Deed == GoesOn \/ (\E a \in Answers : Utters(a)) \/ Finishes \/ Outputs \/ Elsewhere

\* Every step of the bridge is one of these.
LEMMA BridgeDeeds ==
    ASSUME InputInv, OutputTypes, BridgeMove
    PROVE  Deed
    <1>. USE DEF inputVars, mainVars, outputVars, Silent, Deed
    <1>0. taken \in Nat
        BY DEF InputInv
    <1>a. \A f \in Nat, r \in Ordinary \cup {"too large", "incomplete"} :
            Answer(f, r) \in Answers /\ Answer(f, r).frame = f /\ Answer(f, r).result = r
        BY DEF Answer, Answers
    <1>. HIDE DEF Answer
    <1>b. /\ taken + 1 \in Nat
          /\ \A r \in {"too large", "incomplete"} :
               Answer(taken + 1, r) \in Answers /\ Answer(taken + 1, r).frame = taken + 1
               /\ Answer(taken + 1, r).result = r
        <2>1. taken + 1 \in Nat
            BY <1>0
        <2>. QED BY <1>a, <2>1
    <1>c. \A r \in Ordinary : Answer(taken, r) \in Answers /\ Answer(taken, r).frame = taken
                            /\ Answer(taken, r).result = r
        BY <1>0, <1>a
    <1>1. ASSUME NEW n \in 0 .. ChunkPieces, Reads(n) PROVE Elsewhere
        BY <1>1 DEF Reads, Elsewhere
    <1>2. CASE Puts
        BY <1>2 DEF Puts, Elsewhere
    <1>3. ASSUME NEW f \in 1 .. Frames, Overdue(f) PROVE Elsewhere
        BY <1>3 DEF Overdue, Elsewhere
    <1>4. CASE Scan
        <2>1. main = "scan" /\ UNCHANGED <<writing, out>>
            BY <1>4 DEF Scan
        <2>2. \/ Fail("too large") /\ UNCHANGED taken
              \/ main' = "handles" /\ taken' = taken + 1 /\ UNCHANGED fatal /\ Silent
              \/ Fail("incomplete") /\ UNCHANGED taken
              \/ main' = "waits" /\ UNCHANGED <<taken, fatal>> /\ Silent
            BY <1>4 DEF Scan
        <2>3. ASSUME NEW r \in {"too large", "incomplete"}, Fail(r), UNCHANGED taken
              PROVE  \E a \in Answers : Utters(a)
            <3>1. Utters(Answer(taken + 1, r))
                BY <1>b, <2>1, <2>3 DEF Fail, Say, Utters
            <3>. QED BY <1>b, <3>1
        <2>. QED BY <2>1, <2>2, <2>3 DEF GoesOn
    <1>5. CASE Get
        <2>1. main = "waits" /\ UNCHANGED <<taken, writing, out>>
            BY <1>5 DEF Get
        <2>2. \/ main' \in {"exit0", "scan"} /\ UNCHANGED fatal /\ Silent
              \/ Fail("incomplete")
            BY <1>5 DEF Get
        <2>3. ASSUME Fail("incomplete") PROVE \E a \in Answers : Utters(a)
            <3>1. Utters(Answer(taken + 1, "incomplete"))
                BY <1>b, <2>1, <2>3 DEF Fail, Say, Utters
            <3>. QED BY <1>b, <3>1
        <2>. QED BY <2>1, <2>2, <2>3 DEF GoesOn
    <1>6. CASE GetTimesOut
        <2>1. Utters(Answer(taken + 1, "incomplete"))
            BY <1>b, <1>6 DEF GetTimesOut, Fail, Say, Utters
        <2>. QED BY <1>b, <2>1
    <1>7. CASE Handle
        <2>1. main = "handles" /\ UNCHANGED <<taken, fatal, writing, out>>
            BY <1>7 DEF Handle
        <2>2. \/ script[taken] = "note" /\ main' = "scan" /\ Silent
              \/ Say(Answer(taken, "done"))
              \/ script[taken] = "call" /\ main' = "calls" /\ Silent
            BY <1>7 DEF Handle
        <2>3. ASSUME Say(Answer(taken, "done")) PROVE \E a \in Answers : Utters(a)
            <3>1. Utters(Answer(taken, "done"))
                BY <1>c, <2>1, <2>3 DEF Say, Utters, Ordinary
            <3>. QED BY <1>c, <3>1 DEF Ordinary
        <2>. QED BY <2>1, <2>2, <2>3 DEF GoesOn
    <1>8. CASE client[taken] \in Gone /\ Returns(client[taken])
        <2>1. Utters(Answer(taken, client[taken]))
            BY <1>c, <1>8 DEF Returns, Say, Utters, Gone, Ordinary
        <2>. QED BY <1>c, <2>1, <1>8 DEF Gone, Ordinary
    <1>9. CASE Said
        BY <1>9 DEF Said, Finishes, OutputTypes
    <1>10. CASE SayTimesOut
        BY <1>10 DEF SayTimesOut, Finishes
    <1>11. CASE Takes \/ Writes \/ WriteBreaks
        BY <1>11 DEF Takes, Writes, WriteBreaks, Outputs
    <1>12. CASE UNCHANGED bridgeVars
        BY <1>12 DEF bridgeVars, Elsewhere
    <1>. QED
        BY <1>1, <1>2, <1>3, <1>4, <1>5, <1>6, <1>7, <1>8, <1>9, <1>10, <1>11, <1>12
        DEF BridgeMove, BridgeStep, Threads

\* One answer is on its way at a time, and none while the bridge works on the next.
RoomInv ==
    /\ Len(outgoing) <= 1 /\ Len(writing) <= 1 /\ (outgoing = <<>> \/ writing = <<>>)
    /\ main \in Working => outgoing = <<>> /\ writing = <<>> /\ ~fatal
    /\ main = "says" /\ done # "no" => outgoing = <<>> /\ writing = <<>>
    /\ writing # <<>> => out # <<>> /\ out[Len(out)].pieces < Pieces

\* Only the last answer may be cut off or be fatal, and then nothing follows.
Usual(i) == out[i].answer.result \in Ordinary
WholeInv ==
    /\ \A i \in DOMAIN out : i < Len(out) \/ outgoing # <<>> \/ main \in Working =>
                               out[i].pieces = Pieces /\ Usual(i)
    /\ main = "says" /\ ~fatal => /\ outgoing # <<>> => outgoing[1].result \in Ordinary
                                  /\ \A i \in DOMAIN out : Usual(i)
    /\ main = "says" /\ done = "sent" => \A i \in DOMAIN out : out[i].pieces = Pieces

OutputInv == OutputTypes /\ RoomInv /\ WholeInv

\* Sequences that are short.
LEMMA Short ==
    ASSUME NEW S, NEW s \in Seq(S)
    PROVE  /\ Len(s) \in Nat /\ DOMAIN s = 1 .. Len(s)
           /\ s = <<>> <=> Len(s) = 0
           /\ s # <<>> /\ Len(s) <= 1 => Len(s) = 1
           /\ s # <<>> => s[1] \in S /\ Head(s) = s[1] /\ s[Len(s)] \in S
           /\ Len(s) = 1 => Tail(s) = <<>>
    <1>1. Len(s) \in Nat /\ DOMAIN s = 1 .. Len(s) /\ (s = <<>> <=> Len(s) = 0)
        OBVIOUS
    <1>2. s # <<>> => s[1] \in S /\ Head(s) = s[1] /\ s[Len(s)] \in S
        OBVIOUS
    <1>3. Len(s) = 1 => Tail(s) = <<>>
        <2>. SUFFICES ASSUME Len(s) = 1 PROVE Tail(s) = <<>>
            OBVIOUS
        <2>1. Tail(s) \in Seq(S) /\ Len(Tail(s)) = 0
            OBVIOUS
        <2>2. \A t \in Seq(S) : Len(t) = 0 => t = <<>>
            OBVIOUS
        <2>. QED BY <2>1, <2>2
    <1>4. \A n \in Nat : n # 0 /\ n <= 1 => n = 1
        OBVIOUS
    <1>. QED BY <1>1, <1>2, <1>3, <1>4

\* The writer takes the answer, which is then the last that came out.
LEMMA AnswerTaken ==
    ASSUME OutputInv, Takes
    PROVE  /\ Len(outgoing) = 1 /\ outgoing[1] \in Answers
           /\ writing = <<>> /\ writing' = <<outgoing[1]>> /\ outgoing' = <<>> /\ done' = done
           /\ out' = Append(out, [answer |-> outgoing[1], pieces |-> 0])
    <1>1. /\ outgoing \in Seq(Answers) /\ writing \in Seq(Answers)
          /\ Len(outgoing) <= 1 /\ Len(writing) <= 1
          /\ outgoing = <<>> \/ writing = <<>>
        BY DEF OutputInv, OutputTypes, RoomInv
    <1>2. outgoing # <<>> /\ writing = <<>>
        BY DEF Takes
    <1>3. Len(outgoing) = 1
        <2>1. Len(outgoing) \in Nat /\ Len(outgoing) # 0
            BY Short, <1>1, <1>2
        <2>. QED BY <2>1, <1>1
    <1>4. outgoing[1] \in Answers /\ Head(outgoing) = outgoing[1] /\ Tail(outgoing) = <<>>
        BY Short, <1>1, <1>2, <1>3
    <1>. QED BY <1>2, <1>3, <1>4 DEF Takes

\* The writer writes a piece of it.
LEMMA PieceWritten ==
    ASSUME OutputInv, Writes
    PROVE  /\ Len(out) \in Nat \ {0} /\ Len(writing) = 1 /\ outgoing = <<>>
           /\ out' \in Seq(Entries) /\ Len(out') = Len(out)
           /\ \A i \in DOMAIN out : out'[i].answer = out[i].answer
           /\ \A i \in DOMAIN out : i < Len(out) => out'[i] = out[i]
           /\ outgoing' = outgoing
           /\ \/ writing' = <<>> /\ done' = "sent" /\ out'[Len(out)].pieces = Pieces
              \/ writing' = writing /\ done' = done /\ out'[Len(out)].pieces < Pieces
    <1>0. /\ outgoing \in Seq(Answers) /\ writing \in Seq(Answers) /\ Len(outgoing) <= 1 /\ Len(writing) <= 1
          /\ outgoing = <<>> \/ writing = <<>>
          /\ out \in Seq(Entries)
        BY DEF OutputInv, OutputTypes, RoomInv
    <1>1. writing # <<>> /\ out # <<>> /\ out[Len(out)].pieces < 2
        BY DEF Writes, OutputInv, RoomInv, Pieces
    <1>2. Len(writing) = 1 /\ outgoing = <<>> /\ Len(out) \in Nat \ {0} /\ DOMAIN out = 1 .. Len(out)
        <2>1. /\ Len(writing) \in Nat /\ Len(out) \in Nat /\ DOMAIN out = 1 .. Len(out)
              /\ Len(writing) # 0 /\ Len(out) # 0
            BY Short, <1>0, <1>1
        <2>2. outgoing = <<>> /\ Len(writing) <= 1
            BY <1>0, <1>1
        <2>3. Len(writing) = 1
            BY Short, <1>0, <1>1
        <2>. QED BY <2>1, <2>2, <2>3
    <1>. DEFINE n == Len(out)
                last == [out[n] EXCEPT !.pieces = out[n].pieces + 1]
    <1>3. out' = [out EXCEPT ![n] = last]
        BY DEF Writes
    <1>4. out[n] \in Entries
        BY Short, <1>0, <1>1
    <1>5. last \in Entries /\ last.answer = out[n].answer /\ last.pieces = out[n].pieces + 1
        BY <1>1, <1>4 DEF Entries, Pieces
    <1>6. out' \in Seq(Entries) /\ Len(out') = Len(out) /\ out'[n] = last
          /\ \A i \in DOMAIN out : i # n => out'[i] = out[i]
        <2>. HIDE DEF last
        <2>. QED BY <1>0, <1>2, <1>3, <1>5
    <1>7. \/ writing' = <<>> /\ done' = "sent" /\ out'[n].pieces = 2
          \/ UNCHANGED <<writing, done>> /\ out'[n].pieces # 2
        <2>1. IF out'[Len(out')].pieces = 2 THEN writing' = <<>> /\ done' = "sent" ELSE UNCHANGED <<writing, done>>
            BY DEF Writes, Pieces
        <2>. QED BY <2>1, <1>6
    <1>8. outgoing' = outgoing
        BY DEF Writes
    <1>9. out'[n].pieces \in 0 .. 2
        BY <1>5, <1>6 DEF Entries, Pieces
    <1>10. \A i \in DOMAIN out : out'[i].answer = out[i].answer
        BY <1>5, <1>6
    <1>. HIDE DEF last
    <1>. QED BY <1>1, <1>2, <1>6, <1>7, <1>8, <1>9, <1>10 DEF Pieces

\* Every step keeps the answers' types and one of them on its way.
LEMMA NextOutput ==
    ASSUME InputInv, OutputInv, Deed
    PROVE  OutputInv'
    <1>. USE DEF OutputInv, OutputTypes, RoomInv, WholeInv, Usual, outputVars
    <1>0. main \in Working \cup {"says"} \cup Exits /\ fatal \in BOOLEAN
        BY DEF InputInv
    <1>1. CASE GoesOn
        <2>1. main \in Working /\ main' \in Working \cup {"exit0"} /\ UNCHANGED <<fatal, outgoing, done, writing, out>>
            BY <1>1 DEF GoesOn, Working
        <2>2. main' # "says"
            BY <2>1 DEF Working
        <2>. QED BY <2>1, <2>2
    <1>2. ASSUME NEW a \in Answers, Utters(a) PROVE OutputInv'
        <2>1. main \in Working /\ main' = "says" /\ "says" \notin Working
            BY <1>2 DEF Utters, Working
        <2>2. outgoing = <<>> /\ writing = <<>> /\ ~fatal
            BY <2>1
        <2>3. outgoing' = <<a>> /\ writing' = <<>> /\ out' = out /\ done' = "no"
            <3>1. outgoing' = Append(<<>>, a) /\ UNCHANGED <<writing, out>> /\ done' = "no"
                BY <1>2, <2>2 DEF Utters
            <3>2. Append(<<>>, a) = <<a>>
                OBVIOUS
            <3>. QED BY <2>2, <3>1, <3>2
        <2>4. outgoing' \in Seq(Answers) /\ Len(outgoing') = 1 /\ outgoing'[1] = a /\ Len(writing') = 0
            BY <2>3
        <2>5. ~fatal' => a.result \in Ordinary
            BY <1>2 DEF Utters
        <2>. QED BY <2>1, <2>2, <2>3, <2>4, <2>5
    <1>3. CASE Finishes
        <2>1. main = "says" /\ UNCHANGED <<fatal, outgoing, done, writing, out>>
            BY <1>3 DEF Finishes
        <2>2. CASE main' = "exit2"
            <3>1. main' \notin Working \cup {"says"} /\ main \notin Working
                BY <2>1, <2>2 DEF Working
            <3>. QED BY <2>1, <3>1
        <2>3. CASE main' = "scan" /\ done = "sent" /\ ~fatal
            BY <2>1, <2>3
        <2>. QED BY <1>3, <2>2, <2>3 DEF Finishes
    <1>4. CASE Takes /\ UNCHANGED <<main, taken, fatal>>
        <2>. DEFINE entry == [answer |-> outgoing[1], pieces |-> 0]
        <2>1. /\ outgoing # <<>> /\ outgoing[1] \in Answers
              /\ writing' = <<outgoing[1]>> /\ outgoing' = <<>> /\ done' = done
              /\ out' = Append(out, entry)
            BY <1>4, AnswerTaken
        <2>2. entry \in Entries /\ entry.answer = outgoing[1] /\ entry.pieces = 0
            BY <2>1 DEF Entries, Pieces
        <2>. HIDE DEF entry
        <2>3. /\ out' \in Seq(Entries) /\ Len(out') = Len(out) + 1 /\ Len(out) \in Nat
              /\ out'[Len(out) + 1] = entry /\ \A i \in DOMAIN out : out'[i] = out[i]
              /\ DOMAIN out' = 1 .. Len(out) + 1 /\ DOMAIN out = 1 .. Len(out)
            BY <2>1, <2>2
        <2>4. main \notin Working /\ (main = "says" => done = "no")
            BY <2>1
        <2>5. OutputTypes'
            BY <2>1, <2>3
        <2>6. RoomInv'
            <3>1. Len(outgoing') = 0 /\ Len(writing') = 1 /\ writing' # <<>> /\ out' # <<>>
                BY <2>1, <2>3
            <3>2. out'[Len(out')].pieces = 0
                BY <2>2, <2>3
            <3>. QED BY <1>4, <2>1, <2>4, <3>1, <3>2 DEF Pieces
        <2>7. WholeInv'
            <3>1. \A i \in DOMAIN out : out[i].pieces = Pieces /\ Usual(i)
                BY <2>1
            <3>2. \A i \in DOMAIN out' : i < Len(out') => out'[i].pieces = Pieces /\ Usual(i)'
                BY <2>3, <3>1
            <3>3. main = "says" /\ ~fatal => \A i \in DOMAIN out' : Usual(i)'
                BY <2>1, <2>2, <2>3, <3>2
            <3>. QED BY <1>4, <2>1, <2>4, <3>2, <3>3
        <2>. QED BY <2>5, <2>6, <2>7
    <1>5. CASE Writes /\ UNCHANGED <<main, taken, fatal>>
        <2>1. /\ Len(out) \in Nat \ {0} /\ Len(writing) = 1 /\ outgoing = <<>> /\ writing # <<>>
              /\ out' \in Seq(Entries) /\ Len(out') = Len(out) /\ DOMAIN out' = DOMAIN out
              /\ \A i \in DOMAIN out : out'[i].answer = out[i].answer
              /\ \A i \in DOMAIN out : i < Len(out) => out'[i] = out[i]
              /\ outgoing' = outgoing /\ DOMAIN out = 1 .. Len(out)
            <3>1. writing # <<>>
                BY <1>5 DEF Writes
            <3>2. /\ out \in Seq(Entries) /\ out' \in Seq(Entries) /\ Len(out') = Len(out)
                  /\ Len(out) \in Nat \ {0} /\ Len(writing) = 1 /\ outgoing = <<>> /\ outgoing' = outgoing
                BY <1>5, PieceWritten
            <3>3. DOMAIN out = 1 .. Len(out) /\ DOMAIN out' = 1 .. Len(out)
                BY <3>2
            <3>4. /\ \A i \in DOMAIN out : out'[i].answer = out[i].answer
                  /\ \A i \in DOMAIN out : i < Len(out) => out'[i] = out[i]
                BY <1>5, PieceWritten
            <3>. QED BY <3>1, <3>2, <3>3, <3>4
        <2>2. \/ writing' = <<>> /\ done' = "sent" /\ out'[Len(out)].pieces = Pieces
              \/ writing' = writing /\ done' = done /\ out'[Len(out)].pieces < Pieces
            BY <1>5, PieceWritten
        <2>3. main \notin Working /\ (main = "says" => done = "no")
            BY <2>1
        <2>4. OutputTypes'
            BY <2>1, <2>2
        <2>5. RoomInv'
            <3>1. out' # <<>> /\ Len(outgoing) = 0 /\ Len(<<>>) = 0
                BY <2>1
            <3>2. Len(outgoing') <= 1 /\ Len(writing') <= 1 /\ outgoing' = <<>>
                BY <2>1, <2>2, <3>1
            <3>3. writing' # <<>> => out'[Len(out')].pieces < Pieces
                BY <2>1, <2>2
            <3>4. main' \notin Working /\ (main' = "says" /\ done' # "no" => outgoing' = <<>> /\ writing' = <<>>)
                BY <1>5, <2>1, <2>2, <2>3
            <3>. QED BY <3>1, <3>2, <3>3, <3>4
        <2>6. WholeInv'
            <3>1. \A i \in DOMAIN out' : i < Len(out') => out'[i].pieces = Pieces /\ Usual(i)'
                BY <2>1
            <3>2. main = "says" /\ ~fatal => \A i \in DOMAIN out' : Usual(i)'
                BY <2>1
            <3>3. main = "says" /\ done' = "sent" => \A i \in DOMAIN out' : out'[i].pieces = Pieces
                BY <2>1, <2>2, <2>3, <3>1
            <3>. QED BY <1>5, <2>1, <2>3, <3>1, <3>2, <3>3
        <2>. QED BY <2>4, <2>5, <2>6
    <1>6. CASE WriteBreaks /\ UNCHANGED <<main, taken, fatal>>
        <2>1. writing # <<>> /\ writing' = <<>> /\ done' = "failed" /\ UNCHANGED <<outgoing, out>>
            BY <1>6 DEF WriteBreaks
        <2>2. outgoing = <<>> /\ Len(<<>>) = 0
            BY <2>1
        <2>3. main \notin Working
            BY <2>1
        <2>. QED BY <1>6, <2>1, <2>2, <2>3
    <1>7. CASE Elsewhere
        BY <1>7 DEF Elsewhere
    <1>. QED
        BY <1>1, <1>2, <1>3, <1>4, <1>5, <1>6, <1>7 DEF Deed, Outputs

-----------------------------------------------------------------------------
(***************************************************************************)
(* The answers, out or on their way, and the frames they are to.            *)
(***************************************************************************)
Count == Len(out) + Len(outgoing)
Told(i) == IF i <= Len(out) THEN out[i].answer ELSE outgoing[i - Len(out)]
Before(i) == IF i = 1 THEN 0 ELSE Told(i - 1).frame

\* Between the frames of two answers there are notes only.
ToldAt(i) ==
    /\ Before(i) < Told(i).frame
    /\ \A f \in Before(i) + 1 .. Told(i).frame - 1 : script[f] = "note"
ToldInv == \A i \in 1 .. Count : ToldAt(i)

\* So there are behind the last answer, up to frame f.
NotesTo(k) == /\ Before(Count + 1) <= k
              /\ \A f \in Before(Count + 1) + 1 .. k : script[f] = "note"

\* What the main thread has to answer next.
PlaceInv ==
    /\ main \in {"scan", "waits"} => NotesTo(taken)
    /\ main \in {"handles", "calls"} => taken > 0 /\ NotesTo(taken - 1)
    /\ main = "calls" => script[taken] = "call"
    /\ main = "says" /\ ~fatal => Before(Count + 1) = taken

\* The answers of the daemon are to frames whose call was dispatched, once.
TrueInv ==
    \A i \in 1 .. Count : Told(i).result = "answered" =>
                            Told(i).frame \in 1 .. Frames /\ ran[Told(i).frame] = 1

\* Answers stay what they are, or one more is given.
Stays == Count' = Count /\ \A i \in 1 .. Count : Told(i)' = Told(i)
Grows(a) ==
    /\ Count' = Count + 1
    /\ \A i \in 1 .. Count : Told(i)' = Told(i)
    /\ \A i \in {Count + 1} : Told(i)' = a

LEMMA Counted == OutputInv => Count \in Nat /\ \A i \in 1 .. Count : Told(i) \in Answers
    <1>. SUFFICES ASSUME OutputInv PROVE Count \in Nat /\ \A i \in 1 .. Count : Told(i) \in Answers
        OBVIOUS
    <1>1. /\ Len(out) \in Nat /\ Len(outgoing) \in Nat
          /\ \A i \in 1 .. Len(out) : out[i] \in Entries
          /\ \A i \in 1 .. Len(outgoing) : outgoing[i] \in Answers
        BY DEF OutputInv, OutputTypes
    <1>2. Count \in Nat
        BY <1>1 DEF Count
    <1>3. ASSUME NEW i \in 1 .. Count PROVE Told(i) \in Answers
        <2>1. CASE i <= Len(out)
            BY <1>1, <2>1 DEF Told, Entries
        <2>2. CASE ~(i <= Len(out))
            <3>1. i - Len(out) \in 1 .. Len(outgoing)
                BY <1>1, <2>2 DEF Count
            <3>. QED BY <1>1, <2>2, <3>1 DEF Told
        <2>. QED BY <2>1, <2>2
    <1>. QED BY <1>2, <1>3

LEMMA ToldMoves ==
    ASSUME OutputInv, Deed
    PROVE  \/ Stays /\ (GoesOn \/ Finishes \/ Outputs \/ Elsewhere)
           \/ \E a \in Answers : Utters(a) /\ Grows(a)
    <1>0. /\ Len(out) \in Nat /\ Len(outgoing) \in Nat
          /\ out \in Seq(Entries) /\ outgoing \in Seq(Answers)
        BY DEF OutputInv, OutputTypes
    <1>1. CASE GoesOn \/ Finishes \/ Elsewhere
        <2>1. UNCHANGED <<out, outgoing>>
            BY <1>1 DEF GoesOn, Finishes, Elsewhere, outputVars
        <2>2. Stays
            BY <2>1 DEF Stays, Count, Told
        <2>. QED BY <1>1, <2>2
    <1>2. ASSUME NEW a \in Answers, Utters(a) PROVE Grows(a)
        <2>1. /\ outgoing' = Append(outgoing, a) /\ out' = out
            BY <1>2 DEF Utters
        <2>2. /\ Len(outgoing') = Len(outgoing) + 1 /\ outgoing'[Len(outgoing) + 1] = a
              /\ \A i \in 1 .. Len(outgoing) : outgoing'[i] = outgoing[i]
            BY <1>0, <2>1
        <2>3. Count' = Count + 1
            BY <1>0, <2>1, <2>2 DEF Count
        <2>4. ASSUME NEW i \in 1 .. Count PROVE Told(i)' = Told(i)
            <3>1. CASE i <= Len(out)
                BY <2>1, <3>1 DEF Told
            <3>2. CASE ~(i <= Len(out))
                <4>1. i - Len(out) \in 1 .. Len(outgoing)
                    BY <1>0, <3>2 DEF Count
                <4>. QED BY <2>1, <2>2, <3>2, <4>1 DEF Told
            <3>. QED BY <3>1, <3>2
        <2>5. ASSUME NEW i \in {Count + 1} PROVE Told(i)' = a
            <3>1. ~(i <= Len(out)) /\ i - Len(out) = Len(outgoing) + 1
                BY <1>0 DEF Count
            <3>2. Told(i)' = IF i <= Len(out) THEN out[i].answer ELSE outgoing'[i - Len(out)]
                BY <2>1 DEF Told
            <3>. QED BY <2>2, <3>1, <3>2
        <2>. QED BY <2>3, <2>4, <2>5 DEF Grows
    <1>3. ASSUME Takes PROVE Stays
        <2>. DEFINE entry == [answer |-> outgoing[1], pieces |-> 0]
        <2>1. Len(outgoing) = 1 /\ outgoing' = <<>> /\ out' = Append(out, entry)
            BY <1>3, AnswerTaken
        <2>2. entry.answer = outgoing[1]
            OBVIOUS
        <2>. HIDE DEF entry
        <2>3. Len(out') = Len(out) + 1 /\ out'[Len(out) + 1] = entry /\ \A i \in 1 .. Len(out) : out'[i] = out[i]
            BY <1>0, <2>1
        <2>4. Count' = Count
            BY <1>0, <2>1, <2>3 DEF Count
        <2>5. ASSUME NEW i \in 1 .. Count PROVE Told(i)' = Told(i)
            <3>1. CASE i <= Len(out)
                <4>1. i \in 1 .. Len(out) /\ i <= Len(out')
                    BY <1>0, <2>3, <3>1
                <4>. QED BY <2>3, <3>1, <4>1 DEF Told
            <3>2. CASE ~(i <= Len(out))
                <4>1. i = Len(out) + 1 /\ i <= Len(out') /\ i - Len(out) = 1
                    BY <1>0, <2>1, <2>3, <3>2 DEF Count
                <4>. QED BY <2>2, <2>3, <3>2, <4>1 DEF Told
            <3>. QED BY <3>1, <3>2
        <2>. QED BY <2>4, <2>5 DEF Stays
    <1>4. ASSUME Writes PROVE Stays
        <2>1. /\ outgoing' = outgoing /\ Len(out') = Len(out)
              /\ \A i \in 1 .. Len(out) : out'[i].answer = out[i].answer
            BY <1>0, <1>4, PieceWritten
        <2>2. Count' = Count
            BY <2>1 DEF Count
        <2>3. ASSUME NEW i \in 1 .. Count PROVE Told(i)' = Told(i)
            BY <1>0, <2>1 DEF Told
        <2>. QED BY <2>2, <2>3 DEF Stays
    <1>5. ASSUME WriteBreaks PROVE Stays
        BY <1>5 DEF WriteBreaks, Stays, Count, Told
    <1>. QED
        BY <1>1, <1>2, <1>3, <1>4, <1>5 DEF Deed, Outputs

\* What holds of the answers given holds on, and the new one is to the frame at hand.
LEMMA NextTold ==
    ASSUME InputInv, OutputInv, ToldInv, PlaceInv, Deed, UNCHANGED script
    PROVE  ToldInv' /\ PlaceInv'
    <1>0. taken \in Nat /\ Count \in Nat /\ (\A i \in 1 .. Count : Told(i).frame \in Nat)
        BY Counted DEF InputInv, Answers
    <1>1. ASSUME NEW n \in 1 .. Count + 1, \A i \in 1 .. Count : Told(i)' = Told(i)
          PROVE  Before(n)' = Before(n)
        <2>1. CASE n = 1
            BY <2>1 DEF Before
        <2>2. CASE n # 1
            <3>1. n - 1 \in 1 .. Count
                BY <1>0, <2>2
            <3>. QED BY <1>1, <2>2, <3>1 DEF Before
        <2>. QED BY <2>1, <2>2
    <1>2. ASSUME NEW i \in 1 .. Count, \A j \in 1 .. Count : Told(j)' = Told(j)
          PROVE  ToldAt(i)'
        <2>1. i \in 1 .. Count + 1
            BY <1>0
        <2>2. Before(i)' = Before(i) /\ Told(i)' = Told(i)
            BY <1>1, <1>2, <2>1
        <2>3. ToldAt(i)
            BY DEF ToldInv
        <2>. QED BY <2>2, <2>3 DEF ToldAt
    <1>3. Before(Count + 1) \in Nat
        <2>1. CASE Count = 0
            BY <2>1 DEF Before
        <2>2. CASE Count # 0
            <3>1. Count \in 1 .. Count /\ (Count + 1) - 1 = Count /\ Count + 1 # 1
                BY <1>0, <2>2
            <3>. QED BY <1>0, <3>1 DEF Before
        <2>. QED BY <2>1, <2>2
    <1>4. CASE Stays /\ (GoesOn \/ Finishes \/ Outputs \/ Elsewhere)
        <2>1. ToldInv'
            BY <1>2, <1>4 DEF ToldInv, Stays
        <2>. DEFINE last == Before(Count + 1)
        <2>2. last' = last
            <3>1. \A n \in 1 .. Count + 1 : Before(n)' = Before(n)
                BY <1>1, <1>4 DEF Stays
            <3>2. Count + 1 \in 1 .. Count + 1 /\ Count' = Count
                BY <1>0, <1>4 DEF Stays
            <3>3. \A n \in {Count + 1} : Before(n)' = Before(n)
                BY <3>1, <3>2
            <3>. QED BY <3>2, <3>3 DEF Before, Told
        <2>3. PlaceInv'
            <3>. USE DEF PlaceInv, NotesTo
            <3>a. \A k \in Nat : NotesTo(k) => NotesTo(k)'
                BY <2>2
            <3>1. CASE GoesOn
                <4>. HIDE DEF NotesTo
                <4>1. CASE main \in {"scan", "waits"} /\ main' \in {"scan", "waits", "exit0"} /\ taken' = taken
                    BY <1>0, <3>a, <4>1
                <4>2. CASE main = "scan" /\ main' = "handles" /\ taken' = taken + 1
                    <5>1. taken' > 0 /\ taken' - 1 = taken
                        BY <1>0, <4>2
                    <5>. QED BY <1>0, <3>a, <4>2, <5>1
                <4>3. CASE main = "handles" /\ script[taken] = "note" /\ main' = "scan" /\ taken' = taken
                    <5>1. NotesTo(taken - 1) /\ taken > 0
                        BY <4>3
                    <5>2. NotesTo(taken)
                        BY <1>0, <1>3, <4>3, <5>1 DEF NotesTo
                    <5>. QED BY <1>0, <3>a, <4>3, <5>2
                <4>4. CASE main = "handles" /\ script[taken] = "call" /\ main' = "calls" /\ taken' = taken
                    <5>1. NotesTo(taken - 1) /\ taken > 0 /\ taken - 1 \in Nat
                        BY <1>0, <4>4
                    <5>. QED BY <1>0, <3>a, <4>4, <5>1
                <4>. QED BY <3>1, <4>1, <4>2, <4>3, <4>4 DEF GoesOn
            <3>2. CASE Finishes
                BY <1>0, <1>3, <2>2, <3>2 DEF Finishes
            <3>3. CASE Outputs \/ Elsewhere
                BY <2>2, <3>3 DEF Outputs, Elsewhere
            <3>. QED BY <1>4, <3>1, <3>2, <3>3
        <2>. QED BY <2>1, <2>3
    <1>5. ASSUME NEW a \in Answers, Utters(a), Grows(a) PROVE ToldInv' /\ PlaceInv'
        <2>. DEFINE n == Count + 1
        <2>1. /\ n \in 1 .. Count + 1 /\ n \in Nat
              /\ \A i \in {n} : Before(i)' = Before(i) /\ Told(i)' = a
            BY <1>0, <1>1, <1>5 DEF Grows
        <2>2. a.frame \in Nat /\ Before(n) < a.frame /\ (\A f \in Before(n) + 1 .. a.frame - 1 : script[f] = "note")
            <3>1. CASE main \in {"scan", "waits"} /\ a.frame = taken + 1
                BY <1>0, <1>3, <3>1 DEF PlaceInv, NotesTo
            <3>2. CASE main \in {"handles", "calls"} /\ a.frame = taken
                BY <1>0, <1>3, <3>2 DEF PlaceInv, NotesTo
            <3>. QED BY <1>5, <3>1, <3>2 DEF Utters
        <2>3. \A i \in {n} : ToldAt(i)'
            BY <2>1, <2>2 DEF ToldAt
        <2>4. \A i \in 1 .. Count : ToldAt(i)'
            BY <1>2, <1>5 DEF Grows
        <2>5. ToldInv'
            <3>1. Count' = n /\ \A i \in 1 .. n : i \in 1 .. Count \/ i \in {n}
                BY <1>0, <1>5 DEF Grows
            <3>. QED BY <2>3, <2>4, <3>1 DEF ToldInv
        <2>6. PlaceInv'
            <3>1. \A i \in {n} : Count' = i /\ Count' # 0 /\ Told(i)'.frame = a.frame
                BY <1>0, <1>5, <2>1 DEF Grows
            <3>2. Before(Count + 1)' = a.frame
                BY <1>0, <3>1 DEF Before, Told
            <3>3. main' = "says" /\ (~fatal' => a.frame = taken')
                BY <1>5 DEF Utters
            <3>. QED BY <3>2, <3>3 DEF PlaceInv
        <2>. QED BY <2>5, <2>6
    <1>. QED BY <1>4, <1>5, ToldMoves


\* A request that was dispatched was dispatched for ever, and not again.
LEMMA RanStays ==
    ASSUME SInv, SocketMove
    PROVE  \A j \in Call : ran[j] = 1 => ran'[j] = 1
    <1>. USE ServerAssumption DEF SInv, ServerTypes, DispatchInv, DispatchAt, calls, server
    <1>. DEFINE Kept == \A j \in Call : ran[j] = 1 => ran'[j] = 1
    <1>1. ASSUME NEW i \in Call, Read(i) PROVE Kept
        BY <1>1, Reading, SMTT(30)
    <1>2. ASSUME NEW i \in Call, Connect(i) \/ ConnectFails(i) \/ ClientStep(i) PROVE Kept
        BY <1>2 DEF Connect, ConnectFails, ClientStep, Send, Receive, CutOff, ClientDeadline
    <1>3. ASSUME NEW i \in Call, ReadEnd(i) \/ Write(i) \/ WriteFails(i) \/ Deadline(i) PROVE Kept
        BY <1>3 DEF ReadEnd, Write, WriteFails, Deadline
    <1>4. CASE Accept \/ Stop \/ Start \/ UNCHANGED <<calls, server>>
        BY <1>4 DEF Accept, Stop, Start
    <1>. QED BY <1>1, <1>2, <1>3, <1>4 DEF SocketMove, ConnectionStep

\* What the frames are is what their calls are.
KindInv == \A f \in 1 .. Frames : script[f] = kind[f]

\* An answer of the daemon is to a call that is not too large, so it was dispatched.
LEMMA AnsweredRan ==
    ASSUME SInv, LimitInv, InputInv, PlaceInv, KindInv, main = "calls", client[taken] = "answered"
    PROVE  taken \in 1 .. Frames /\ ran[taken] = 1
    <1>1. taken \in Nat /\ taken > 0 /\ script[taken] = "call"
        BY DEF InputInv, PlaceInv
    <1>2. taken <= Frames
        <2>1. host.pieces \in 0 .. 2 * Frames /\ read \in Nat /\ read <= host.pieces
            BY DEF InputInv, Pieces
        <2>2. frame \in Nat /\ pending \in Nat /\ Size(incoming) \in Nat /\ Size(hand) \in Nat
            BY DEF InputInv, Pieces, ChunkPieces, Size, Chunks
        <2>3. 2 * taken + frame + pending + Size(incoming) + Size(hand) <= read
            BY DEF InputInv, Pieces
        <2>. QED BY <1>1, <2>1, <2>2, <2>3, BridgeAssumption
    <1>3. taken \in 1 .. Frames /\ taken \in Call /\ kind[taken] # "large"
        BY <1>1, <1>2, BridgeAssumption, PathAssumption DEF KindInv
    <1>4. LimitAt(taken) /\ DispatchAt(taken) /\ received[taken] \in Nat /\ offset[taken] \in Nat
        BY <1>3 DEF SInv, ServerTypes, DispatchInv, LimitInv
    <1>. QED BY <1>3, <1>4 DEF LimitAt, DispatchAt

LEMMA NextTrue ==
    ASSUME SInv, LimitInv, InputInv, OutputInv, PlaceInv, KindInv, TrueInv, SocketMove, Deed
    PROVE  TrueInv'
    <1>0. Count \in Nat
        BY Counted
    <1>1. ASSUME NEW i \in 1 .. Count, Told(i)' = Told(i)
          PROVE  Told(i)'.result = "answered" => Told(i)'.frame \in 1 .. Frames /\ ran'[Told(i)'.frame] = 1
        <2>1. Told(i).result = "answered" => Told(i).frame \in 1 .. Frames /\ ran[Told(i).frame] = 1
            BY DEF TrueInv
        <2>. QED BY <1>1, <2>1, RanStays, PathAssumption
    <1>2. CASE Stays
        BY <1>1, <1>2 DEF Stays, TrueInv
    <1>3. ASSUME NEW a \in Answers, Utters(a), Grows(a) PROVE TrueInv'
        <2>1. a.result = "answered" => a.frame \in 1 .. Frames /\ ran'[a.frame] = 1
            BY <1>3, AnsweredRan, RanStays, PathAssumption DEF Utters, Ordinary
        <2>2. Count' = Count + 1 /\ \A i \in 1 .. Count + 1 : i \in 1 .. Count \/ i \in {Count + 1}
            BY <1>0, <1>3 DEF Grows
        <2>3. \A i \in {Count + 1} :
                Told(i)'.result = "answered" => Told(i)'.frame \in 1 .. Frames /\ ran'[Told(i)'.frame] = 1
            BY <1>3, <2>1 DEF Grows
        <2>4. \A i \in 1 .. Count :
                Told(i)'.result = "answered" => Told(i)'.frame \in 1 .. Frames /\ ran'[Told(i)'.frame] = 1
            BY <1>1, <1>3 DEF Grows
        <2>. QED BY <2>2, <2>3, <2>4 DEF TrueInv
    <1>. QED BY <1>2, <1>3, ToldMoves

-----------------------------------------------------------------------------
(***************************************************************************)
(* The invariant of the whole, and what follows.                            *)
(***************************************************************************)
PathInv ==
    /\ SInv /\ LimitInv /\ PlacesInv
    /\ InputInv /\ OutputInv /\ ToldInv /\ PlaceInv /\ KindInv /\ TrueInv

LEMMA InitPath == Init => PathInv
    <1>. SUFFICES ASSUME Init PROVE PathInv
        OBVIOUS
    <1>1. SInv
        BY DEF Init, SocketInit, SInv, ServerTypes, QueueInv, ConnectedInv, DispatchInv, DispatchAt,
               Idle, Calling, Gone, Whole
    <1>2. LimitInv
        BY DEF Init, SocketInit, LimitInv, LimitAt, Idle, Whole, Length
    <1>3. PlacesInv
        <2>1. Open = {} /\ Len(backlog) = 0
            BY DEF Init, SocketInit, Open, Idle
        <2>. QED BY <2>1, FS_EmptySet, ServerAssumption DEF PlacesInv
    <1>4. InputInv
        <2>1. Size(<<>>) = 0 /\ <<>> \in Chunks
            BY DEF Size, Chunks
        <2>2. host \in [pieces : 0 .. Pieces * Frames, closes : BOOLEAN] /\ 0 <= host.pieces
            BY BridgeAssumption DEF Init, BridgeInit, Pieces
        <2>3. /\ read = 0 /\ reader = "reads" /\ hand = <<>> /\ incoming = <<>> /\ overdue = {}
              /\ main = "scan" /\ taken = 0 /\ frame = 0 /\ pending = 0 /\ fatal = FALSE
            BY DEF Init, BridgeInit
        <2>4. Pieces * taken + frame + pending + Size(incoming) + Size(hand) <= read
            BY <2>1, <2>3 DEF Pieces
        <2>5. /\ read \in Nat /\ read <= host.pieces /\ taken \in Nat /\ frame \in 0 .. Pieces
              /\ pending \in 0 .. ChunkPieces
            BY <2>2, <2>3 DEF Pieces, ChunkPieces
        <2>7. fatal \in BOOLEAN
            BY <2>3
        <2>6. main \in Working /\ reader \in {"reads", "puts", "done"} /\ overdue \subseteq 1 .. Frames
            BY <2>3 DEF Working
        <2>. QED BY <2>1, <2>2, <2>3, <2>4, <2>5, <2>6, <2>7 DEF InputInv
    <1>5. OutputInv
        BY DEF Init, BridgeInit, OutputInv, OutputTypes, RoomInv, WholeInv, Working
    <1>6. Count = 0
        BY DEF Init, BridgeInit, Count
    <1>7. ToldInv /\ TrueInv
        BY <1>6 DEF ToldInv, TrueInv
    <1>8. PlaceInv
        BY <1>6 DEF Init, BridgeInit, PlaceInv, NotesTo, Before
    <1>9. KindInv
        BY DEF Init, KindInv
    <1>. QED BY <1>1, <1>2, <1>3, <1>4, <1>5, <1>7, <1>8, <1>9 DEF PathInv

LEMMA NextPath == PathInv /\ [Next]_vars => PathInv'
    <1>. SUFFICES ASSUME PathInv, [Next]_vars PROVE PathInv'
        OBVIOUS
    <1>1. SocketMove /\ BridgeMove /\ UNCHANGED <<kind, script>>
        <2>1. UNCHANGED <<kind, script>>
            BY DEF Next, vars, socketVars, bridgeVars, SocketStep, BridgeStep
        <2>. QED BY <2>1, Moves, BridgeMoves
    <1>2. SInv' /\ LimitInv' /\ PlacesInv'
        BY <1>1, NextTypes, NextQueue, NextConnected, NextDispatch, NextLimits, NextPlaces DEF PathInv, SInv
    <1>3. InputInv' /\ Deed
        BY <1>1, NextInput, BridgeDeeds DEF PathInv, OutputInv, Deed
    <1>4. OutputInv' /\ ToldInv' /\ PlaceInv' /\ TrueInv'
        BY <1>1, <1>3, NextOutput, NextTold, NextTrue DEF PathInv
    <1>5. KindInv'
        BY <1>1 DEF PathInv, KindInv
    <1>. QED BY <1>2, <1>3, <1>4, <1>5 DEF PathInv

\* The invariant holds in every state of bridge, clients and daemon.
THEOREM Invariant == Spec => []PathInv
    BY InitPath, NextPath, PTL DEF Spec

\* Everything keeps its type, and the queues, the backlog and the connections
\* their limits, for any number of frames, calls, connections and stops.
THEOREM TypeCorrect == Spec => []TypeOK
    <1>. SUFFICES PathInv => TypeOK
        BY Invariant, PTL
    <1>. SUFFICES ASSUME PathInv PROVE BridgeTypeOK /\ SocketTypeOK
        BY DEF TypeOK
    <1>1. SocketTypeOK
        <2>. USE DEF PathInv, SInv, ServerTypes, DispatchInv, DispatchAt, LimitInv, LimitAt, PlacesInv, Whole
        <2>1. \A i \in Call : sent[i] \in 0 .. 3 /\ buffer[i] \in 0 .. 3
            <3>. SUFFICES ASSUME NEW i \in Call PROVE sent[i] \in 0 .. 3 /\ buffer[i] \in 0 .. 3
                OBVIOUS
            <3>1. sent[i] \in Nat /\ buffer[i] \in Nat /\ buffer[i] <= 2 /\ sent[i] <= Length(i)
                OBVIOUS
            <3>2. Length(i) \in {2, 3}
                BY DEF Length
            <3>3. \A l \in {2, 3}, s \in Nat, b \in Nat : s <= l /\ b <= 2 => s \in 0 .. 3 /\ b \in 0 .. 3
                OBVIOUS
            <3>. QED BY <3>1, <3>2, <3>3
        <2>2. \A i \in Call : received[i] \in 0 .. 2 /\ offset[i] \in 0 .. 2
            BY SMTT(30)
        <2>3. sent \in [Call -> 0 .. 3] /\ buffer \in [Call -> 0 .. 3]
            BY <2>1
        <2>4. received \in [Call -> 0 .. 2] /\ offset \in [Call -> 0 .. 2]
            BY <2>2
        <2>. QED BY <2>3, <2>4 DEF SocketTypeOK
    <1>2. BridgeTypeOK
        <2>1. taken \in 0 .. Frames
            <3>1. host.pieces \in 0 .. 2 * Frames /\ read \in Nat /\ read <= host.pieces
                BY DEF PathInv, InputInv, Pieces
            <3>2. taken \in Nat /\ frame \in Nat /\ pending \in Nat /\ Size(incoming) \in Nat /\ Size(hand) \in Nat
                BY DEF PathInv, InputInv, Pieces, ChunkPieces, Size, Chunks
            <3>3. 2 * taken + frame + pending + Size(incoming) + Size(hand) <= read
                BY DEF PathInv, InputInv, Pieces
            <3>. QED BY <3>1, <3>2, <3>3, BridgeAssumption
        <2>2. read \in 0 .. host.pieces
            <3>1. host.pieces \in Nat /\ read \in Nat /\ read <= host.pieces
                BY BridgeAssumption DEF PathInv, InputInv, Pieces
            <3>. QED BY <3>1
        <2>3. Len(outgoing) <= 1 /\ Len(writing) <= 1 /\ done \in {"no", "sent", "failed"}
            BY DEF PathInv, OutputInv, OutputTypes, RoomInv
        <2>4. main \in {"scan", "handles"} \cup Waits \cup Exits
            BY DEF PathInv, InputInv, Working, Waits
        <2>. QED BY <2>1, <2>2, <2>3, <2>4 DEF PathInv, InputInv, BridgeTypeOK, Chunks
    <1>. QED BY <1>1, <1>2

\* The host gets the answers in the order of its frames and without a gap, and an
\* answer of the daemon only to a frame whose call was dispatched, once, for any
\* number of frames, calls, connections and stops.
THEOREM AnswersTrue == Spec => []AnswersAreTrue
    <1>. SUFFICES PathInv => AnswersAreTrue
        BY Invariant, PTL
    <1>. SUFFICES ASSUME PathInv PROVE AnswersAreTrue
        OBVIOUS
    <1>1. /\ Len(out) \in Nat /\ Len(outgoing) \in Nat /\ DOMAIN out = 1 .. Len(out)
          /\ Count = Len(out) + Len(outgoing)
        BY DEF PathInv, OutputInv, OutputTypes, Count
    <1>2. \A i \in DOMAIN out : i \in 1 .. Count /\ Told(i) = out[i].answer
        BY <1>1 DEF Told
    <1>3. \A i \in DOMAIN out : Before(i) = IF i = 1 THEN 0 ELSE out[i - 1].answer.frame
        BY <1>1 DEF Before, Told
    <1>4. \A i \in DOMAIN out : i < Len(out) =>
             out[i].pieces = Pieces /\ out[i].answer.result \in {"done", "answered", "failed"}
        BY DEF PathInv, OutputInv, WholeInv, Usual, Ordinary
    <1>5. ASSUME NEW i \in DOMAIN out
          PROVE  /\ Before(i) < out[i].answer.frame
                 /\ \A f \in Before(i) + 1 .. out[i].answer.frame - 1 : script[f] = "note"
        BY <1>2, <1>5 DEF PathInv, ToldInv, ToldAt
    <1>6. AnswersInOrder
        <2>. DEFINE frames == [i \in DOMAIN out |-> out[i].answer.frame]
                    before == [i \in DOMAIN out |-> IF i = 1 THEN 0 ELSE frames[i - 1]]
        <2>1. \A i \in DOMAIN out : frames[i] = out[i].answer.frame
            OBVIOUS
        <2>2. \A i \in DOMAIN out : before[i] = Before(i)
            BY <1>1, <1>3
        <2>. HIDE DEF frames, before
        <2>3. \A i \in DOMAIN out :
                /\ before[i] < frames[i]
                /\ \A f \in before[i] + 1 .. frames[i] - 1 : script[f] = "note"
                /\ i < Len(out) => out[i].pieces = Pieces /\ out[i].answer.result \in {"done", "answered", "failed"}
            BY <1>4, <1>5, <2>1, <2>2
        <2>. QED BY <2>3 DEF AnswersInOrder, frames, before
    <1>7. \A i \in DOMAIN out : out[i].answer.result = "answered" => ran[out[i].answer.frame] = 1
        BY <1>2 DEF PathInv, TrueInv
    <1>. QED BY <1>6, <1>7 DEF AnswersAreTrue

=============================================================================
