--------------------------- MODULE PipeRuntimeProofs ---------------------------
(***************************************************************************)
(* Proofs about PipeRuntime, for any number of workers, any queue and any   *)
(* frames.                                                                  *)
(*                                                                          *)
(* That answers meet their own clients is seen from the request objects.    *)
(* Each belongs to one exchange and carries its frame (Holding), which is   *)
(* so because an object not referred to always remains for a new exchange   *)
(* (FreshExists, by counting).  Where an object is on its way, with the     *)
(* worker, in the queue or with the owning thread, is what Queueing says:   *)
(* one that can still be run is neither answered nor given up.  Lifetimes   *)
(* orders the threads and the handles.                                      *)
(***************************************************************************)
EXTENDS PipeRuntime, FiniteSetTheorems, TLAPS

\* The owning thread has taken a request.
Handling == {"claim", "handle", "complete"}

\* A request object belongs to one exchange: it has the frame of that client, and
\* a value that can only be the answer to that frame.
Holding ==
    /\ \A w \in Worker : wpc[w] \in Busy \ {"failing"} => reply[held[w]].raw = client[w]
    /\ \A v, w \in Worker : held[v] = held[w] /\ held[v] # None => v = w
    /\ \A r \in Request : reply[r].value \in {None, reply[r].raw}
    /\ AnswerIsOwn

\* A request is not handed over yet, or once in the queue, or with the owning
\* thread; what is in the queue was not answered, only withdrawn.
Queueing ==
    /\ current # None <=> mpc \in Handling
    /\ mpc = "complete" => answer = reply[current].raw
    /\ \A i, j \in 1..Len(incoming) : incoming[i] = incoming[j] => i = j
    /\ current \notin ToSet(incoming)
    /\ \A w \in Worker : wpc[w] \in {"received", "put"} =>
          held[w] \notin ToSet(incoming) \cup {current} /\ ~reply[held[w]].ready
    /\ \A r \in ToSet(incoming) : reply[r].ready => reply[r].cancelled
    /\ OnlyAwaitedIsRun

\* The values of a request object.
Object == [raw : Frame \cup {None}, cancelled : BOOLEAN, dispatched : BOOLEAN,
           late : BOOLEAN, ready : BOOLEAN, value : Frame \cup {None}]

\* Threads begin only at the start, and are over before anything is closed.
Lifetimes ==
    /\ \A w \in Worker : w > started => wpc[w] = "new"
    /\ mpc \in {"discard", "close_store", "close_pipes", "off"} =>
          \A w \in Worker : wpc[w] \notin Alive
    /\ mpc \notin {"close_pipes", "off"} => pipes = Workers
    /\ mpc \in {"close_pipes", "off"} => ~store

\* The inductive invariant.
PipeInv == TypeOK /\ Holding /\ Queueing /\ Lifetimes

\* The constants.
LEMMA Setup == /\ Workers \in Nat /\ Workers # 0 /\ Capacity \in Nat /\ Capacity # 0
               /\ None \notin Frame /\ None \notin Request
  BY ConstantsAssumption

\* What a queue holds after Put.
LEMMA AppendedSet ==
    ASSUME NEW S, NEW s \in Seq(S), NEW x \in S
    PROVE  /\ ToSet(Append(s, x)) = ToSet(s) \cup {x}
           /\ Append(s, x) \in Seq(S) /\ Len(Append(s, x)) = Len(s) + 1
           /\ \A i \in 1..Len(s) : Append(s, x)[i] = s[i]
           /\ Append(s, x)[Len(s) + 1] = x
<1>1. /\ Append(s, x) \in Seq(S) /\ Len(Append(s, x)) = Len(s) + 1
      /\ \A i \in 1..Len(s) : Append(s, x)[i] = s[i]
      /\ Append(s, x)[Len(s) + 1] = x
      /\ DOMAIN s = 1..Len(s) /\ Len(s) \in Nat
      /\ DOMAIN Append(s, x) = 1..Len(s) + 1
  OBVIOUS
<1>2. ToSet(Append(s, x)) = ToSet(s) \cup {x}
  <2>1. ASSUME NEW y \in ToSet(Append(s, x)) PROVE y \in ToSet(s) \cup {x}
    BY <1>1, <2>1 DEF ToSet
  <2>2. ASSUME NEW y \in ToSet(s) PROVE y \in ToSet(Append(s, x))
    BY <1>1, <2>2 DEF ToSet
  <2>3. x \in ToSet(Append(s, x))
    BY <1>1 DEF ToSet
  <2> QED BY <2>1, <2>2, <2>3
<1> QED BY <1>1, <1>2

\* What a queue without duplicates holds after Get.
LEMMA TakenSet ==
    ASSUME NEW S, NEW s \in Seq(S), s # <<>>,
           \A i, j \in 1..Len(s) : s[i] = s[j] => i = j
    PROVE  /\ Head(s) \in ToSet(s) /\ Head(s) \in S /\ Tail(s) \in Seq(S)
           /\ Len(Tail(s)) = Len(s) - 1
           /\ ToSet(Tail(s)) = ToSet(s) \ {Head(s)}
           /\ \A i, j \in 1..Len(Tail(s)) : Tail(s)[i] = Tail(s)[j] => i = j
<1>1. /\ Len(s) \in Nat /\ Len(s) >= 1 /\ DOMAIN s = 1..Len(s) /\ Head(s) = s[1] /\ Head(s) \in S
      /\ Tail(s) \in Seq(S) /\ Len(Tail(s)) = Len(s) - 1 /\ DOMAIN Tail(s) = 1..(Len(s) - 1)
      /\ \A i \in 1..(Len(s) - 1) : Tail(s)[i] = s[i + 1]
  OBVIOUS
<1>2. \A i, j \in 1..Len(Tail(s)) : Tail(s)[i] = Tail(s)[j] => i = j
  BY <1>1
<1>3. Head(s) \in ToSet(s)
  BY <1>1 DEF ToSet
<1>4. ASSUME NEW y \in ToSet(Tail(s)) PROVE y \in ToSet(s) /\ y # Head(s)
  <2>1. PICK i \in 1..(Len(s) - 1) : y = s[i + 1]
    BY <1>1 DEF ToSet
  <2>2. i + 1 \in 1..Len(s) /\ i + 1 # 1
    BY <1>1
  <2>3. y \in ToSet(s)
    BY <2>1, <2>2, <1>1 DEF ToSet
  <2> QED BY <2>1, <2>2, <2>3, <1>1
<1>5. ASSUME NEW y \in ToSet(s), y # Head(s) PROVE y \in ToSet(Tail(s))
  <2>1. PICK i \in 1..Len(s) : y = s[i]
    BY <1>1 DEF ToSet
  <2>2. i # 1
    BY <1>1, <2>1, <1>5
  <2>3. i - 1 \in 1..(Len(s) - 1) /\ Tail(s)[i - 1] = y
    BY <1>1, <2>1, <2>2
  <2> QED BY <2>3, <1>1 DEF ToSet
<1> QED BY <1>1, <1>2, <1>3, <1>4, <1>5

\* For a new exchange there is always an object to which nothing refers: the
\* queue, the owning thread and the other workers refer to at most Workers +
\* Capacity of them.
LEMMA FreshExists ==
    ASSUME TypeOK, NEW w \in Worker, held[w] = None
    PROVE  Fresh \in Request /\ Fresh \notin Referred
<1> USE Setup
<1> DEFINE Slots == (0..(Workers + Capacity)) \ {w}
           At == [x \in Slots |-> IF x = 0 THEN current
                                  ELSE IF x \in Worker THEN held[x]
                                  ELSE IF x - Workers <= Len(incoming) THEN incoming[x - Workers]
                                  ELSE current]
           Filled == {At[x] : x \in Slots}
<1>1. IsFiniteSet(Slots) /\ Cardinality(Slots) = Workers + Capacity
  <2>1. /\ IsFiniteSet(0..(Workers + Capacity))
        /\ Cardinality(0..(Workers + Capacity)) = Workers + Capacity + 1
    BY FS_Interval
  <2>2. w \in 0..(Workers + Capacity)
    BY DEF Worker
  <2>3. IsFiniteSet(Slots) /\ Cardinality(Slots) = Cardinality(0..(Workers + Capacity)) - 1
    BY <2>1, <2>2, FS_RemoveElement
  <2> QED BY <2>1, <2>3
<1>2. At \in Surjection(Slots, Filled)
  <2>1. /\ At \in [Slots -> Filled]
        /\ \A t \in Filled : \E x \in Slots : At[x] = t
    OBVIOUS
  <2> HIDE DEF Slots, At, Filled
  <2> QED BY <2>1 DEF Surjection
<1>3. IsFiniteSet(Filled) /\ Cardinality(Filled) <= Workers + Capacity
  <2> HIDE DEF Slots, At, Filled
  <2>1. IsFiniteSet(Filled) /\ Cardinality(Filled) <= Cardinality(Slots)
    BY <1>1, <1>2, FS_Surjection
  <2> QED BY <1>1, <2>1
<1>4. IsFiniteSet(Request) /\ Cardinality(Request) = Workers + Capacity + 1
  BY FS_Interval DEF Request
<1>5. ASSUME Request \subseteq Filled PROVE FALSE
  <2> HIDE DEF Slots, At, Filled
  <2>1. Cardinality(Request) <= Cardinality(Filled)
    BY <1>3, <1>5, FS_Subset
  <2>2. Cardinality(Filled) \in Nat
    BY <1>3, FS_CardinalityType
  <2> QED BY <2>1, <2>2, <1>3, <1>4
<1>6. PICK r \in Request : r \notin Filled
  BY <1>5
<1>7. 0 \in Slots /\ \A v \in Worker : v # w => v \in Slots
  BY DEF Worker
<1>8. \A i \in 1..Len(incoming) : 
         Workers + i \in Slots /\ Workers + i \notin Worker /\ Workers + i # 0
  BY DEF Worker, TypeOK
<1>9. r # current
  BY <1>6, <1>7
<1>10. \A v \in Worker : r # held[v]
  <2>1. ASSUME NEW v \in Worker, v # w PROVE r # held[v]
    <3>1. At[v] = held[v]
      BY <1>7, <2>1 DEF Worker
    <3> QED BY <3>1, <1>6, <1>7, <2>1
  <2> QED BY <2>1
<1>11. \A i \in 1..Len(incoming) : r # incoming[i]
  <2>1. ASSUME NEW i \in 1..Len(incoming) PROVE r # incoming[i]
    <3>1. Workers + i - Workers = i /\ i <= Len(incoming)
      BY DEF TypeOK
    <3>2. At[Workers + i] = incoming[i]
      BY <1>8, <3>1
    <3> QED BY <3>2, <1>6, <1>8
  <2> QED BY <2>1
<1>12. r \notin Referred
  <2>1. DOMAIN incoming = 1..Len(incoming)
    BY DEF TypeOK
  <2> QED BY <1>9, <1>10, <1>11, <2>1 DEF Referred, ToSet
<1> QED BY <1>12 DEF Fresh

-----------------------------------------------------------------------------
(***************************************************************************)
(* Request objects and the invariant's parts.                               *)
(***************************************************************************)
\* A new object, and a cancelled one.
LEMMA Objects ==
    /\ Blank \in Object /\ Blank.raw = None /\ Blank.value = None /\ ~Blank.ready
    /\ \A o \in Object : /\ Cancelled(o) \in Object
                         /\ Cancelled(o).raw = o.raw /\ Cancelled(o).value = None
                         /\ Cancelled(o).ready /\ Cancelled(o).cancelled
  BY DEF Object, Blank, Cancelled

\* The two parts of TypeOK in the form in which they are used.
LEMMA Typed ==
    TypeOK => reply \in [Request -> Object] /\ DOMAIN incoming = 1..Len(incoming)
  BY DEF TypeOK, Object

\* Holding survives a step after which no worker is in a new exchange.
LEMMA HoldingKept ==
    ASSUME TypeOK, TypeOK', Holding,
           \A v \in Worker : held'[v] \in {held[v], None},
           \A v \in Worker : wpc'[v] \in Busy \ {"failing"} =>
              /\ wpc[v] \in Busy \ {"failing"} /\ client'[v] = client[v] /\ held'[v] = held[v]
              /\ reply'[held[v]].raw = reply[held[v]].raw,
           \A r \in Request : reply'[r].value \in {None, reply'[r].raw},
           AnswerIsOwn'
    PROVE  Holding'
<1>1. \A w \in Worker : wpc'[w] \in Busy \ {"failing"} => reply'[held'[w]].raw = client'[w]
  BY DEF Holding
<1>2. \A v, w \in Worker : held'[v] = held'[w] /\ held'[v] # None => v = w
  BY DEF Holding
<1> QED BY <1>1, <1>2 DEF Holding

\* A step that does not touch the queue: no worker comes to hand over, what is in
\* the queue stays as it is or is withdrawn, and who waits waits on.
QueueStays ==
    /\ incoming' = incoming
    /\ current' \in {current, None}
    /\ current' # None <=> mpc' \in Handling
    /\ mpc' = "complete" => answer' = reply'[current'].raw
    /\ \A w \in Worker : wpc'[w] \in {"received", "put"} =>
          wpc[w] \in {"received", "put"} /\ held'[w] = held[w] /\ ~reply'[held[w]].ready
    /\ \A r \in ToSet(incoming) :
          reply'[r].cancelled \/ (~reply'[r].ready /\ ~reply[r].cancelled)
    /\ \A w \in Worker : wpc[w] \in {"wait", "failing"} =>
          \/ wpc'[w] \in {"wait", "failing"} /\ held'[w] = held[w]
          \/ held[w] \notin ToSet(incoming)
          \/ reply'[held[w]].cancelled

\* Queueing survives a step that does not touch the queue.
LEMMA QueueingKept ==
    ASSUME TypeOK, TypeOK', Queueing, QueueStays
    PROVE  Queueing'
<1> USE Setup DEF QueueStays
<1>1. ToSet(incoming) \subseteq Request
  BY DEF TypeOK, ToSet
<1>2. current' \notin ToSet(incoming)
  BY <1>1 DEF Queueing
<1>3. \A w \in Worker : wpc'[w] \in {"received", "put"} =>
         held'[w] \notin ToSet(incoming) \cup {current'} /\ ~reply'[held'[w]].ready
  <2>1. \A w \in Worker : wpc'[w] \in {"received", "put"} => held'[w] # None
    BY DEF TypeOK, Busy
  <2> QED BY <2>1 DEF Queueing
<1>4. OnlyAwaitedIsRun'
  BY DEF Queueing, OnlyAwaitedIsRun
<1>5. \A i, j \in 1..Len(incoming') : incoming'[i] = incoming'[j] => i = j
  BY DEF Queueing
<1>6. \A r \in ToSet(incoming)' : reply'[r].ready => reply'[r].cancelled
  OBVIOUS
<1> QED BY <1>2, <1>3, <1>4, <1>5, <1>6 DEF Queueing

\* What is in the queue is a request that was withdrawn or not answered.
LEMMA Waiting ==
    ASSUME TypeOK, Queueing
    PROVE  \A r \in ToSet(incoming) : r \in Request /\ (reply[r].cancelled \/ ~reply[r].ready)
  BY DEF TypeOK, Queueing, ToSet

\* The objects to which something refers.
LEMMA InUse ==
    ASSUME PipeInv, NEW w \in Worker
    PROVE  /\ wpc[w] \in Busy => held[w] \in Request /\ held[w] \in Referred /\ held[w] # None
           /\ wpc[w] \notin Busy => held[w] = None
           /\ current # None => current \in Request /\ current \in Referred
           /\ ToSet(incoming) \subseteq Referred
  BY Setup DEF PipeInv, TypeOK, Referred

-----------------------------------------------------------------------------
(***************************************************************************)
(* One step, action by action.                                              *)
(***************************************************************************)
\* A deadline passes.
LEMMA ExpireKeeps ==
    ASSUME PipeInv, NEW r \in Request, Expire(r)
    PROVE  PipeInv'
<1> USE Setup, Typed DEF PipeInv, Expire, worker, main,
        Busy, Alive, Serving, Gone, Handling
<1>1. reply' \in [Request -> Object]
  BY DEF Object
<1>2. \A q \in Request : /\ reply'[q].raw = reply[q].raw /\ reply'[q].value = reply[q].value
                         /\ reply'[q].ready = reply[q].ready
                         /\ reply'[q].cancelled = reply[q].cancelled
  BY DEF Object
<1>3. TypeOK'
  BY <1>1, <1>2, Waiting DEF TypeOK, Object
<1>4. Holding'
  BY <1>1, <1>2, <1>3, HoldingKept DEF Holding, AnswerIsOwn, TypeOK
<1>5. Queueing'
  <2>1. QueueStays
    BY <1>1, <1>2, Waiting DEF QueueStays, Queueing, TypeOK
  <2> QED BY <2>1, <1>3, QueueingKept DEF PipeInv
<1>6. Lifetimes'
  BY DEF Lifetimes, TypeOK
<1> QED BY <1>3, <1>4, <1>5, <1>6

\* The steps of a worker that leave the requests alone.
LEMMA WorkerMovesKeep ==
    ASSUME PipeInv, NEW w \in Worker, Leave(w) \/ Received(w) \/ Send(w)
    PROVE  PipeInv'
<1> USE DEF PipeInv, Busy, Alive, Serving, Gone, Handling
<1>1. /\ mpc \notin Gone
      /\ UNCHANGED <<client, held, response, incoming, reply, stopping, failed>>
      /\ UNCHANGED <<mpc, started, current, answer, store, pipes>>
  BY DEF Leave, Received, Send, Running, main
<1>2. \/ wpc[w] = "accept" /\ wpc' = [wpc EXCEPT ![w] = "ended"]
      \/ wpc[w] = "received" /\ wpc' = [wpc EXCEPT ![w] = "put"]
      \/ wpc[w] \in {"received", "send"} /\ wpc' = [wpc EXCEPT ![w] = "finish"]
  BY DEF Leave, Received, Send, Running, Goto
<1>3. TypeOK'
  BY <1>1, <1>2 DEF TypeOK
<1>4. Holding'
  BY <1>1, <1>2, <1>3, HoldingKept DEF Holding, AnswerIsOwn, TypeOK
<1>5. Queueing'
  <2>1. QueueStays
    BY <1>1, <1>2, Waiting DEF QueueStays, Queueing, TypeOK
  <2> QED BY <2>1, <1>3, QueueingKept
<1>6. Lifetimes'
  BY <1>1, <1>2 DEF Lifetimes, TypeOK
<1> QED BY <1>3, <1>4, <1>5, <1>6

\* A worker's thread begins to fail: its client is disconnected, its request stays.
LEMMA FailKeeps ==
    ASSUME PipeInv, NEW w \in Worker, Fail(w)
    PROVE  PipeInv'
<1> USE DEF PipeInv, Busy, Alive, Serving, Gone, Handling
<1>1. /\ wpc[w] \in Busy \ {"failing"} /\ wpc' = [wpc EXCEPT ![w] = "failing"]
      /\ client' = [client EXCEPT ![w] = None] /\ response' = [response EXCEPT ![w] = None]
      /\ mpc \notin Gone /\ UNCHANGED <<held, incoming, reply, stopping, failed>>
      /\ UNCHANGED <<mpc, started, current, answer, store, pipes>>
  BY DEF Fail, Goto, main
<1>2. /\ wpc'[w] = "failing"
      /\ \A v \in Worker : v # w => /\ wpc'[v] = wpc[v] /\ client'[v] = client[v]
                                    /\ response'[v] = response[v]
  BY <1>1 DEF TypeOK
<1>3. TypeOK'
  BY <1>1 DEF TypeOK
<1>4. Holding'
  BY <1>1, <1>2, <1>3, HoldingKept DEF Holding, AnswerIsOwn, TypeOK
<1>5. Queueing'
  <2>1. QueueStays
    BY <1>1, <1>2, Waiting DEF QueueStays, Queueing, TypeOK
  <2> QED BY <2>1, <1>3, QueueingKept
<1>6. Lifetimes'
  BY <1>1, <1>2 DEF Lifetimes, TypeOK
<1> QED BY <1>3, <1>4, <1>5, <1>6

\* The steps of the owning thread that leave the requests alone.
LEMMA OwnerMovesKeep ==
    ASSUME PipeInv,
           Check \/ StopWorkers \/ Join \/ JoinTimesOut \/ CloseStore \/ ClosePipe
    PROVE  PipeInv'
<1> USE DEF PipeInv, Busy, Alive, Serving, Gone, Handling
<1>1. /\ UNCHANGED <<wpc, client, held, response, incoming, reply, failed>>
      /\ UNCHANGED <<started, current, answer>>
      /\ mpc \notin Handling /\ mpc' \notin Handling
      /\ mpc' \in {"get", "stop", "join", "discard", "exited", "close_pipes", "off"}
  BY DEF Check, StopWorkers, Join, JoinTimesOut, CloseStore, ClosePipe, worker
<1>2. stopping' \in BOOLEAN /\ store' \in BOOLEAN /\ pipes' \in 0..Workers
  <2>1. stopping' \in BOOLEAN /\ store' \in BOOLEAN
    BY DEF TypeOK, Check, StopWorkers, Join, JoinTimesOut, CloseStore, ClosePipe
  <2>2. pipes' = pipes \/ (pipes # 0 /\ pipes' = pipes - 1)
    BY DEF Check, StopWorkers, Join, JoinTimesOut, CloseStore, ClosePipe
  <2> QED BY <2>1, <2>2, Setup DEF TypeOK
<1>3. TypeOK'
  BY <1>1, <1>2 DEF TypeOK
<1>4. Holding'
  BY <1>1, <1>3, HoldingKept DEF Holding, AnswerIsOwn, TypeOK
<1>5. Queueing'
  <2>1. QueueStays
    BY <1>1, Waiting DEF QueueStays, Queueing, TypeOK
  <2> QED BY <2>1, <1>3, QueueingKept
<1>6. Lifetimes'
  BY <1>1 DEF Lifetimes, TypeOK, Check, StopWorkers, Join, JoinTimesOut, CloseStore, ClosePipe
<1> QED BY <1>3, <1>4, <1>5, <1>6

\* A worker receives a frame, for which it takes a fresh object.
LEMMA ReceiveKeeps ==
    ASSUME PipeInv, NEW w \in Worker, Receive(w)
    PROVE  PipeInv'
<1> USE Setup, Typed DEF PipeInv, Receive, Running, Goto, worker, main,
        Busy, Alive, Serving, Gone, Handling
<1>1. held[w] = None
  BY InUse
<1>2. Fresh \in Request /\ Fresh \notin Referred
  BY <1>1, FreshExists
<1>3. PICK frame \in Frame : /\ client' = [client EXCEPT ![w] = frame]
                          /\ held' = [held EXCEPT ![w] = Fresh]
                          /\ reply' = Collected([reply EXCEPT ![Fresh] = [Blank EXCEPT !.raw = frame]])
  OBVIOUS
<1>4. \A r \in Request : r \in Referred' <=> r \in Referred \/ r = Fresh
  BY <1>1, <1>2, <1>3 DEF Referred, TypeOK
<1>5. \A v \in Worker : held[v] # Fresh
  BY <1>2 DEF Referred
<1>6. reply' \in [Request -> Object]
  BY <1>2, <1>3, Objects DEF Collected, Object
<1>7. reply'[Fresh].raw = frame /\ reply'[Fresh].value = None /\ ~reply'[Fresh].ready
  BY <1>2, <1>3, <1>4, Objects DEF Collected, Object
<1>8. \A r \in Request : r # Fresh => reply'[r] = IF r \in Referred THEN reply[r] ELSE Blank
  BY <1>2, <1>3, <1>4 DEF Collected
<1>9. Fresh # current /\ Fresh \notin ToSet(incoming)
  BY <1>2 DEF Referred
<1>10. /\ wpc[w] = "accept" /\ wpc' = [wpc EXCEPT ![w] = "received"] /\ mpc \notin Gone
      /\ response' = response /\ incoming' = incoming /\ UNCHANGED <<stopping, failed>>
      /\ UNCHANGED <<mpc, started, current, answer, store, pipes>>
  BY DEF Receive, Running, Goto, main
<1> HIDE DEF Receive
<1>11. reply' \in [Request -> Object] /\ client' \in [Worker -> Frame \cup {None}]
      /\ held' \in [Worker -> Request \cup {None}]
  BY <1>1, <1>2, <1>3, <1>6 DEF TypeOK
<1>12. TypeOK'
  BY <1>2, <1>3, <1>10, <1>11 DEF TypeOK, Object
<1>13. ASSUME NEW v \in Worker, v # w
      PROVE  /\ wpc'[v] = wpc[v] /\ held'[v] = held[v] /\ client'[v] = client[v]
             /\ held[v] # Fresh
             /\ wpc[v] \in Busy => reply'[held[v]] = reply[held[v]]
  <2>1. wpc'[v] = wpc[v] /\ held'[v] = held[v] /\ client'[v] = client[v] /\ held[v] # Fresh
    BY <1>3, <1>5, <1>10, <1>13 DEF TypeOK
  <2>2. wpc[v] \in Busy => held[v] \in Request /\ held[v] \in Referred
    BY InUse
  <2> QED BY <2>1, <2>2, <1>8
<1>14. wpc'[w] = "received" /\ held'[w] = Fresh /\ client'[w] = frame
  BY <1>3, <1>10 DEF TypeOK
<1>15. \A r \in Request : reply'[r].value \in {None, reply'[r].raw}
  BY <1>7, <1>8, Objects DEF Holding
<1>16. Holding'
  <2>1. \A v \in Worker : wpc'[v] \in Busy \ {"failing"} => reply'[held'[v]].raw = client'[v]
    BY <1>7, <1>13, <1>14 DEF Holding
  <2>2. \A u, v \in Worker : held'[u] = held'[v] /\ held'[u] # None => u = v
    BY <1>13, <1>14 DEF Holding
  <2>3. AnswerIsOwn'
    BY <1>10, <1>13, <1>14 DEF Holding, AnswerIsOwn
  <2> QED BY <2>1, <2>2, <2>3, <1>15 DEF Holding
<1>17. \A r \in ToSet(incoming) : r \in Request /\ reply'[r] = reply[r]
  BY <1>8, <1>9, Waiting, InUse
<1>18. Queueing'
  <2>1. \A v \in Worker : wpc'[v] \in {"received", "put"} =>
           held'[v] \notin ToSet(incoming') \cup {current'} /\ ~reply'[held'[v]].ready
    BY <1>7, <1>9, <1>10, <1>13, <1>14 DEF Queueing
  <2>2. OnlyAwaitedIsRun'
    BY <1>1, <1>10, <1>13, <1>17 DEF Queueing, OnlyAwaitedIsRun
  <2>3. \A r \in ToSet(incoming') : reply'[r].ready => reply'[r].cancelled
    BY <1>10, <1>17 DEF Queueing
  <2>4. mpc' = "complete" => answer' = reply'[current'].raw
    BY <1>8, <1>9, <1>10, InUse DEF Queueing
  <2> QED BY <2>1, <2>2, <2>3, <2>4, <1>10 DEF Queueing
<1>19. Lifetimes'
  BY <1>10 DEF Lifetimes, TypeOK
<1> QED BY <1>12, <1>16, <1>18, <1>19

\* A worker sees its reply.
LEMMA ReadyKeeps ==
    ASSUME PipeInv, NEW w \in Worker, Ready(w)
    PROVE  PipeInv'
<1> USE Setup, Typed DEF PipeInv, Ready, Running, Goto, worker, main,
        Busy, Alive, Serving, Gone, Handling
<1>1. wpc[w] \in Busy => held[w] \in Request /\ held[w] # None
  BY InUse
<1>2. reply[held[w]].value \in {None, client[w]}
  BY <1>1 DEF Holding
<1>3. TypeOK'
  BY <1>1, <1>2, Waiting DEF TypeOK, Object
<1>4. Holding'
  BY <1>1, <1>2, <1>3, HoldingKept DEF Holding, AnswerIsOwn, TypeOK
<1>5. Queueing'
  <2>1. QueueStays
    BY <1>1, <1>2, Waiting DEF QueueStays, Queueing, TypeOK
  <2> QED BY <2>1, <1>3, QueueingKept DEF PipeInv
<1>6. Lifetimes'
  BY DEF Lifetimes, TypeOK
<1> QED BY <1>3, <1>4, <1>5, <1>6

\* A worker gives up and withdraws its request.
LEMMA GiveUpKeeps ==
    ASSUME PipeInv, NEW w \in Worker, GiveUp(w)
    PROVE  PipeInv'
<1> USE Setup, Typed DEF PipeInv, GiveUp, Running, Goto, worker, main,
        Busy, Alive, Serving, Gone, Handling
<1>1. wpc[w] \in Busy => held[w] \in Request /\ held[w] # None
  BY InUse
<1>2. reply' = [reply EXCEPT ![held[w]] = Cancelled(reply[held[w]])]
  OBVIOUS
<1>3. reply' \in [Request -> Object]
  BY <1>1, <1>2, Objects
<1>4. \A r \in Request : /\ reply'[r].raw = reply[r].raw
                         /\ r # held[w] => reply'[r] = reply[r]
  BY <1>1, <1>2, Objects
<1>5. reply'[held[w]].value = None /\ reply'[held[w]].cancelled
  BY <1>1, <1>2, Objects
<1>6. \A v \in Worker : wpc[v] \in {"received", "put"} => held[v] \in Request /\ held[v] # held[w]
  BY InUse DEF Holding
<1>7. TypeOK'
  BY <1>1, <1>2, <1>3, <1>4, <1>5, <1>6, Waiting DEF TypeOK, Object
<1>8. Holding'
  BY <1>1, <1>2, <1>3, <1>4, <1>5, <1>6, <1>7, HoldingKept DEF Holding, AnswerIsOwn, TypeOK
<1>9. Queueing'
  <2>1. QueueStays
    BY <1>1, <1>2, <1>3, <1>4, <1>5, <1>6, Waiting DEF QueueStays, Queueing, TypeOK
  <2> QED BY <2>1, <1>7, QueueingKept DEF PipeInv
<1>10. Lifetimes'
  BY DEF Lifetimes, TypeOK
<1> QED BY <1>7, <1>8, <1>9, <1>10

\* An exchange is over, in whatever way: its worker lets go of the request,
\* which is cancelled.
LEMMA Withdrawn ==
    ASSUME PipeInv, NEW w \in Worker, NEW label \in {"accept", "ended"},
           mpc \notin Gone, wpc[w] \in Alive, Goto(w, label), Disconnect(w),
           UNCHANGED <<main, incoming>>, stopping' \in BOOLEAN, failed' \in BOOLEAN,
           reply' = Collected(IF held[w] = None THEN reply
                              ELSE [reply EXCEPT ![held[w]] = Cancelled(@)])
    PROVE  PipeInv'
<1> USE DEF PipeInv, main, Busy, Alive, Gone, Handling
<1> DEFINE Left == IF held[w] = None THEN reply ELSE [reply EXCEPT ![held[w]] = Cancelled(@)]
<1>1. held[w] \in Request \cup {None} /\ (wpc[w] \in Busy <=> held[w] # None)
  BY DEF TypeOK
<1>2. /\ Left \in [Request -> Object]
      /\ \A r \in Request : r # held[w] => Left[r] = reply[r]
      /\ \A r \in Request : Left[r].value \in {None, Left[r].raw}
      /\ held[w] # None => Left[held[w]].cancelled
  BY <1>1, Typed, Objects DEF Holding
<1>3. reply' = Collected(Left)
  OBVIOUS
<1> HIDE DEF Left
<1>4. /\ reply' \in [Request -> Object]
      /\ \A r \in Request : r \in Referred' => reply'[r] = Left[r]
      /\ \A r \in Request : reply'[r].value \in {None, reply'[r].raw}
  BY <1>2, <1>3, Objects DEF Collected
<1>5. /\ wpc'[w] = label /\ held'[w] = None /\ client'[w] = None /\ response'[w] = None
      /\ \A v \in Worker : v # w => /\ wpc'[v] = wpc[v] /\ held'[v] = held[v]
                                    /\ client'[v] = client[v] /\ response'[v] = response[v]
  BY DEF TypeOK, Goto, Disconnect
<1>6. TypeOK'
  <2>1. /\ wpc' \in [Worker -> Alive \cup {"new", "ended"}]
        /\ client' \in [Worker -> Frame \cup {None}]
        /\ held' \in [Worker -> Request \cup {None}]
        /\ response' \in [Worker -> Frame \cup {None}]
    BY DEF TypeOK, Goto, Disconnect
  <2>2. \A v \in Worker : (wpc'[v] \in Busy) <=> (held'[v] # None)
    BY <1>5 DEF TypeOK
  <2> QED BY <2>1, <2>2, <1>4 DEF TypeOK, Object
<1>7. \A v \in Worker : v # w /\ held[v] # None =>
         held[v] # held[w] /\ held[v] \in Request /\ reply'[held[v]] = reply[held[v]]
  <2>1. ASSUME NEW v \in Worker, v # w, held[v] # None
        PROVE  held[v] # held[w] /\ held[v] \in Request /\ held[v] \in Referred'
    BY <1>5, <2>1 DEF Holding, TypeOK, Referred
  <2> QED BY <2>1, <1>2, <1>4
<1>8. Holding'
  <2>1. \A v \in Worker : held'[v] \in {held[v], None}
    BY <1>5
  <2>2. \A v \in Worker : wpc'[v] \in Busy \ {"failing"} =>
           /\ wpc[v] \in Busy \ {"failing"} /\ client'[v] = client[v] /\ held'[v] = held[v]
           /\ reply'[held[v]].raw = reply[held[v]].raw
    BY <1>5, <1>7 DEF TypeOK
  <2>3. AnswerIsOwn'
    BY <1>5 DEF Holding, AnswerIsOwn
  <2> QED BY <2>1, <2>2, <2>3, <1>4, <1>6, HoldingKept
<1>9. \A r \in ToSet(incoming) :
         r \in Request /\ (IF r = held[w] THEN reply'[r].cancelled ELSE reply'[r] = reply[r])
  <2>1. \A r \in ToSet(incoming) : r \in Request /\ r \in Referred'
    BY Waiting DEF Referred
  <2> QED BY <2>1, <1>1, <1>2, <1>4, Setup
<1>10. current # None => current \in Request /\ reply'[current].raw = reply[current].raw
  <2>1. current # None => current \in Request /\ current \in Referred'
    BY DEF TypeOK, Referred
  <2>2. held[w] # None => Left[held[w]].raw = reply[held[w]].raw
    BY <1>1, Typed, Objects DEF Left
  <2>3. current # None => Left[current].raw = reply[current].raw
    BY <2>1, <2>2, <1>2
  <2> QED BY <2>1, <2>3, <1>4
<1>11. Queueing'
  <2>1. QueueStays
    <3>1. \A v \in Worker : wpc'[v] \in {"received", "put"} =>
             /\ wpc[v] \in {"received", "put"} /\ held'[v] = held[v]
             /\ ~reply'[held[v]].ready
      <4> SUFFICES ASSUME NEW v \in Worker, wpc'[v] \in {"received", "put"}
                   PROVE  /\ wpc[v] \in {"received", "put"} /\ held'[v] = held[v]
                          /\ ~reply'[held[v]].ready
        OBVIOUS
      <4>1. v # w /\ wpc[v] \in {"received", "put"} /\ held'[v] = held[v]
        BY <1>5
      <4>2. held[v] # None
        BY <4>1, InUse
      <4>3. reply'[held[v]] = reply[held[v]]
        BY <4>1, <4>2, <1>7
      <4>4. ~reply[held[v]].ready
        BY <4>1 DEF Queueing
      <4> QED BY <4>1, <4>3, <4>4
    <3>2. \A r \in ToSet(incoming) :
             reply'[r].cancelled \/ (~reply'[r].ready /\ ~reply[r].cancelled)
      BY <1>9, Waiting
    <3>3. \A v \in Worker : wpc[v] \in {"wait", "failing"} =>
             \/ wpc'[v] \in {"wait", "failing"} /\ held'[v] = held[v]
             \/ held[v] \notin ToSet(incoming)
             \/ reply'[held[v]].cancelled
      BY <1>5, <1>9
    <3>4. mpc = "complete" => answer = reply'[current].raw
      BY <1>10 DEF Queueing
    <3> QED BY <3>1, <3>2, <3>3, <3>4 DEF QueueStays, Queueing
  <2> QED BY <2>1, <1>6, QueueingKept
<1>12. Lifetimes'
  BY <1>5 DEF Lifetimes
<1> QED BY <1>6, <1>8, <1>11, <1>12

\* ... at its regular end,
LEMMA FinishKeeps ==
    ASSUME PipeInv, NEW w \in Worker, Finish(w)
    PROVE  PipeInv'
<1>1. held[w] # None /\ wpc[w] \in Alive /\ stopping \in BOOLEAN /\ failed \in BOOLEAN
  BY DEF PipeInv, TypeOK, Finish, Running, Busy, Alive
<1>2. /\ mpc \notin Gone /\ Goto(w, "accept") /\ Disconnect(w)
      /\ UNCHANGED <<main, incoming>> /\ UNCHANGED <<stopping, failed>>
      /\ reply' = Collected(IF held[w] = None THEN reply
                            ELSE [reply EXCEPT ![held[w]] = Cancelled(@)])
  BY <1>1 DEF Finish, Running
<1> QED BY <1>1, <1>2, Withdrawn

\* ... or with its worker's thread.
LEMMA EndKeeps ==
    ASSUME PipeInv, NEW w \in Worker, End(w)
    PROVE  PipeInv'
<1>1. /\ mpc \notin Gone /\ Goto(w, "ended") /\ Disconnect(w) /\ wpc[w] \in Alive
      /\ UNCHANGED <<main, incoming>> /\ stopping' = TRUE /\ failed' = TRUE
      /\ reply' = Collected(IF held[w] = None THEN reply
                            ELSE [reply EXCEPT ![held[w]] = Cancelled(@)])
  BY DEF End, Alive, Busy
<1> QED BY <1>1, Withdrawn

\* A worker's thread is started, or starting them is over.
LEMMA StartThreadKeeps ==
    ASSUME PipeInv, StartThread
    PROVE  PipeInv'
<1> USE DEF PipeInv, Busy, Alive, Handling
<1>1. /\ mpc = "start"
      /\ UNCHANGED <<client, held, response, pipes, incoming, reply>>
      /\ UNCHANGED <<stopping, failed, current, answer, store>>
  BY DEF StartThread
<1>2. CASE started' = started /\ wpc' = wpc
  <2>1. mpc' \in {"start", "check", "stop"}
    BY <1>1 DEF StartThread
  <2>2. TypeOK'
    BY <1>1, <1>2, <2>1 DEF TypeOK, Serving
  <2>3. Holding'
    BY <1>1, <1>2, <2>2, HoldingKept DEF Holding, AnswerIsOwn
  <2>4. QueueStays
    BY <1>1, <1>2, <2>1, Waiting DEF QueueStays, Queueing
  <2>5. Queueing'
    BY <2>2, <2>4, QueueingKept
  <2>6. Lifetimes'
    BY <1>1, <1>2, <2>1 DEF Lifetimes
  <2> QED BY <2>2, <2>3, <2>5, <2>6
<1>3. CASE started < Workers /\ started' = started + 1
  <2>1. wpc' = [wpc EXCEPT ![started + 1] = "accept"] /\ mpc' = mpc
    BY <1>3 DEF StartThread, TypeOK
  <2>2. started + 1 \in Worker /\ wpc[started + 1] = "new"
    BY <1>3, Setup DEF TypeOK, Lifetimes, Worker
  <2>3. /\ wpc'[started + 1] = "accept"
        /\ \A w \in Worker : w # started + 1 => wpc'[w] = wpc[w]
    BY <2>1, <2>2 DEF TypeOK
  <2>4. TypeOK'
    <3>1. started' \in 0..Workers
      BY <1>3, Setup DEF TypeOK
    <3>2. wpc' \in [Worker -> Alive \cup {"new", "ended"}]
      BY <2>1, <2>2 DEF TypeOK
    <3>3. \A w \in Worker : (wpc'[w] \in Busy) <=> (held'[w] # None)
      BY <1>1, <2>2, <2>3 DEF TypeOK
    <3> QED BY <1>1, <2>1, <3>1, <3>2, <3>3 DEF TypeOK
  <2>5. Holding'
    BY <1>1, <2>2, <2>3, <2>4, HoldingKept DEF Holding, AnswerIsOwn
  <2>6. QueueStays
    BY <1>1, <2>1, <2>2, <2>3, Waiting DEF QueueStays, Queueing
  <2>7. Queueing'
    BY <2>4, <2>6, QueueingKept
  <2>8. Lifetimes'
    <3>1. \A w \in Worker : w > started' => wpc'[w] = "new"
      BY <1>3, <2>3 DEF Lifetimes, TypeOK, Worker
    <3> QED BY <1>1, <2>1, <3>1 DEF Lifetimes
  <2> QED BY <2>4, <2>5, <2>7, <2>8
<1> QED BY <1>2, <1>3 DEF StartThread

\* The handler answers the frame of the current request.
LEMMA HandleKeeps ==
    ASSUME PipeInv, Handle
    PROVE  PipeInv'
<1> USE Setup, Typed DEF PipeInv, Handle, worker, main,
        Busy, Alive, Serving, Gone, Handling
<1>1. current \in Request
  BY DEF Queueing, TypeOK
<1>2. reply[current].raw \in Frame \cup {None}
  BY <1>1 DEF TypeOK
<1>3. TypeOK'
  BY <1>1, <1>2, Waiting DEF TypeOK
<1>4. Holding'
  BY <1>1, <1>2, <1>3, HoldingKept DEF Holding, AnswerIsOwn, TypeOK
<1>5. Queueing'
  <2>1. QueueStays
    BY <1>1, <1>2, Waiting DEF QueueStays, Queueing, TypeOK
  <2> QED BY <2>1, <1>3, QueueingKept DEF PipeInv
<1>6. Lifetimes'
  BY DEF Lifetimes, TypeOK
<1> QED BY <1>3, <1>4, <1>5, <1>6

\* The owning thread is interrupted and drops its request.
LEMMA InterruptedKeeps ==
    ASSUME PipeInv, Interrupted
    PROVE  PipeInv'
<1> USE Setup, Typed DEF PipeInv, Interrupted, worker, main,
        Busy, Alive, Serving, Gone, Handling
<1>1. reply' \in [Request -> Object]
  BY Objects DEF Collected
<1>2. \A r \in Request : reply'[r] = IF r \in Referred' THEN reply[r] ELSE Blank
  BY DEF Collected
<1>3. \A r \in ToSet(incoming) : r \in Request /\ reply'[r] = reply[r]
  BY <1>2, Waiting DEF Referred
<1>4. \A w \in Worker : wpc[w] \in Busy => reply'[held[w]] = reply[held[w]]
  BY <1>2, InUse DEF Referred
<1>5. TypeOK'
  BY <1>1, <1>2, <1>3, <1>4, Waiting DEF TypeOK, Object
<1>6. Holding'
  BY <1>1, <1>2, <1>3, <1>4, <1>5, Objects, HoldingKept DEF Holding, AnswerIsOwn, TypeOK
<1>7. Queueing'
  <2>1. QueueStays
    BY <1>1, <1>2, <1>3, <1>4, Waiting DEF QueueStays, Queueing, TypeOK
  <2> QED BY <2>1, <1>5, QueueingKept DEF PipeInv
<1>8. Lifetimes'
  BY DEF Lifetimes, TypeOK
<1> QED BY <1>5, <1>6, <1>7, <1>8

\* A worker hands its request over, or finds the queue full.
LEMMA PutKeeps ==
    ASSUME PipeInv, NEW w \in Worker, Put(w)
    PROVE  PipeInv'
<1> USE DEF PipeInv, Busy, Alive, Gone, Handling
<1>1. held[w] \in Request /\ held[w] \notin ToSet(incoming) \cup {current}
  BY InUse DEF Queueing, Put, Running
<1>2. /\ UNCHANGED <<client, held, response, reply, stopping, failed>>
      /\ UNCHANGED <<mpc, started, current, answer, store, pipes>>
      /\ wpc[w] = "put" /\ mpc \notin Gone
  BY DEF Put, Running, main
<1>3. CASE Len(incoming) = Capacity
  <2>1. incoming' = incoming /\ wpc' = [wpc EXCEPT ![w] = "finish"]
    BY <1>3 DEF Put, Goto
  <2>2. TypeOK'
    BY <1>2, <2>1 DEF TypeOK
  <2>3. Holding'
    BY <1>2, <2>1, <2>2, HoldingKept DEF Holding, AnswerIsOwn, TypeOK
  <2>4. QueueStays
    BY <1>2, <2>1, Waiting DEF QueueStays, Queueing, TypeOK
  <2>5. Queueing'
    BY <2>2, <2>4, QueueingKept
  <2>6. Lifetimes'
    BY <1>2, <2>1 DEF Lifetimes, TypeOK
  <2> QED BY <2>2, <2>3, <2>5, <2>6
<1>4. CASE Len(incoming) # Capacity
  <2>1. incoming' = Append(incoming, held[w]) /\ wpc' = [wpc EXCEPT ![w] = "wait"]
    BY <1>4 DEF Put, Goto
  <2>2. incoming \in Seq(Request) /\ Len(incoming) \in Nat /\ Len(incoming) < Capacity
    BY <1>4, Setup DEF TypeOK
  <2>3. /\ ToSet(incoming') = ToSet(incoming) \cup {held[w]}
        /\ incoming' \in Seq(Request) /\ Len(incoming') = Len(incoming) + 1
        /\ \A i \in 1..Len(incoming) : incoming'[i] = incoming[i]
        /\ incoming'[Len(incoming) + 1] = held[w]
    BY <1>1, <2>1, <2>2, AppendedSet
  <2>4. TypeOK'
    <3>1. Len(incoming') <= Capacity
      BY <2>2, <2>3, Setup
    <3> QED BY <3>1, <1>2, <2>1, <2>3 DEF TypeOK
  <2>5. /\ wpc'[w] = "wait"
        /\ \A v \in Worker : v # w => wpc'[v] = wpc[v]
    BY <2>1 DEF TypeOK
  <2>6. Holding'
    BY <1>2, <2>5, <2>4, HoldingKept DEF Holding, AnswerIsOwn, TypeOK
  <2>7. Queueing'
    <3>1. \A i \in 1..Len(incoming) : incoming[i] \in ToSet(incoming)
      BY <2>2 DEF ToSet
    <3>2. \A i, j \in 1..Len(incoming') : incoming'[i] = incoming'[j] => i = j
      <4>1. \A i \in 1..Len(incoming') : i \in 1..Len(incoming) \/ i = Len(incoming) + 1
        BY <2>2, <2>3
      <4> QED BY <4>1, <3>1, <1>1, <2>3 DEF Queueing
    <3>3. current' \notin ToSet(incoming')
      BY <1>1, <1>2, <2>3 DEF Queueing
    <3>4. \A v \in Worker : wpc'[v] \in {"received", "put"} =>
             held'[v] \notin ToSet(incoming') \cup {current'} /\ ~reply'[held'[v]].ready
      <4>1. \A v \in Worker : v # w /\ wpc[v] \in {"received", "put"} => held[v] # held[w]
        BY InUse DEF Holding
      <4> QED BY <4>1, <1>2, <2>3, <2>5 DEF Queueing
    <3>5. \A r \in ToSet(incoming') : reply'[r].ready => reply'[r].cancelled
      BY <1>2, <2>3 DEF Queueing
    <3>6. OnlyAwaitedIsRun'
      BY <1>2, <2>3, <2>5 DEF Queueing, OnlyAwaitedIsRun
    <3>7. /\ (current' # None <=> mpc' \in Handling)
          /\ mpc' = "complete" => answer' = reply'[current'].raw
      BY <1>2 DEF Queueing
    <3> QED BY <3>2, <3>3, <3>4, <3>5, <3>6, <3>7 DEF Queueing
  <2>8. Lifetimes'
    BY <1>2, <2>5 DEF Lifetimes, TypeOK
  <2> QED BY <2>4, <2>6, <2>7, <2>8
<1> QED BY <1>3, <1>4

\* The owning thread takes a request, if there is one.
LEMMA GetKeeps ==
    ASSUME PipeInv, Get
    PROVE  PipeInv'
<1> USE Setup, Typed DEF PipeInv, Get, worker, main,
        Busy, Alive, Serving, Gone, Handling
<1>1. CASE incoming = <<>>
  <2>1. TypeOK'
    BY <1>1 DEF TypeOK
  <2>2. Holding'
    BY <1>1, <2>1, HoldingKept DEF Holding, AnswerIsOwn, TypeOK
  <2>3. QueueStays
    BY <1>1, Waiting DEF QueueStays, Queueing, TypeOK
  <2>4. Queueing'
    BY <2>1, <2>3, QueueingKept
  <2>5. Lifetimes'
    BY <1>1 DEF Lifetimes, TypeOK
  <2> QED BY <2>1, <2>2, <2>4, <2>5
<1>2. CASE incoming # <<>>
  <2>1. /\ current' = Head(incoming) /\ incoming' = Tail(incoming)
        /\ mpc = "get" /\ mpc' = "claim" /\ UNCHANGED <<wpc, client, held, response>>
        /\ UNCHANGED <<started, answer, store, pipes, reply, stopping, failed>>
    BY <1>2
  <2> HIDE DEF Get
  <2>2. /\ current' \in ToSet(incoming) /\ current' \in Request
        /\ incoming' \in Seq(Request) /\ Len(incoming') = Len(incoming) - 1
        /\ ToSet(incoming') = ToSet(incoming) \ {current'}
        /\ \A i, j \in 1..Len(incoming') : incoming'[i] = incoming'[j] => i = j
    <3>1. /\ incoming \in Seq(Request)
          /\ \A i, j \in 1..Len(incoming) : incoming[i] = incoming[j] => i = j
      BY DEF TypeOK, Queueing
    <3> QED BY <1>2, <2>1, <3>1, TakenSet
  <2>3. TypeOK'
    BY <2>1, <2>2 DEF TypeOK
  <2>4. Holding'
    BY <2>1, <2>3, HoldingKept DEF Holding, AnswerIsOwn, TypeOK
  <2>5. Queueing'
    <3>1. OnlyAwaitedIsRun'
      BY <2>1, <2>2 DEF Queueing, OnlyAwaitedIsRun
    <3> QED BY <2>1, <2>2, <3>1 DEF Queueing
  <2>6. Lifetimes'
    BY <2>1 DEF Lifetimes, TypeOK
  <2> QED BY <2>3, <2>4, <2>5, <2>6
<1> QED BY <1>1, <1>2

\* The owning thread is done with the current request and lets go of it: what
\* the workers hold and what the queue holds stays as it is.
LEMMA Settled ==
    ASSUME PipeInv, NEW objects, current # None,
           objects \in [Request -> Object],
           \A r \in Request : r # current => objects[r] = reply[r],
           objects[current].raw = reply[current].raw,
           objects[current].value \in {None, reply[current].raw},
           reply' = Collected(objects),
           UNCHANGED <<worker, incoming>>
    PROVE  /\ reply' \in [Request -> Object]
           /\ \A r \in Request : reply'[r].value \in {None, reply'[r].raw}
           /\ \A w \in Worker : wpc[w] \in Busy => reply'[held[w]].raw = reply[held[w]].raw
           /\ \A w \in Worker : wpc[w] \in {"received", "put"} => reply'[held[w]] = reply[held[w]]
           /\ \A r \in ToSet(incoming) : r \in Request /\ reply'[r] = reply[r]
<1> USE Setup, Typed DEF PipeInv, worker, Busy
<1>1. current \in Request
  BY DEF TypeOK
<1>2. reply' \in [Request -> Object] /\ \A r \in Request : r \in Referred' => reply'[r] = objects[r]
  BY Objects DEF Collected
<1>3. \A r \in Request : reply'[r].value \in {None, reply'[r].raw}
  BY <1>1, Objects DEF Collected, Holding
<1>4. \A w \in Worker : wpc[w] \in Busy => held[w] \in Request /\ held[w] \in Referred'
  BY DEF TypeOK, Referred
<1>5. \A r \in ToSet(incoming) : r \in Request /\ r # current /\ r \in Referred'
  BY Waiting DEF Queueing, Referred
<1>6. \A w \in Worker : wpc[w] \in {"received", "put"} => held[w] # current
  BY DEF Queueing
<1> QED BY <1>1, <1>2, <1>3, <1>4, <1>5, <1>6

\* The owning thread claims the request, or finds it withdrawn or late.
LEMMA ClaimKeeps ==
    ASSUME PipeInv, Claim
    PROVE  PipeInv'
<1> USE Setup, Typed DEF PipeInv, worker, main,
        Busy, Alive, Serving, Gone, Handling
<1> DEFINE open == ~reply[current].cancelled /\ ~reply[current].dispatched /\ ~reply[current].late
<1>1. /\ mpc = "claim" /\ UNCHANGED <<wpc, client, held, response>>
      /\ UNCHANGED <<started, answer, store, pipes, incoming, stopping, failed>>
      /\ \/ /\ reply' = [reply EXCEPT ![current].dispatched = TRUE]
            /\ mpc' = "handle" /\ current' = current
         \/ current' = None /\ mpc' = "check" /\ reply' = Collected(reply)
  BY DEF Claim
<1>2. current \in Request
  BY <1>1 DEF Queueing, TypeOK
<1>3. /\ reply' \in [Request -> Object]
      /\ \A r \in Request : reply'[r].value \in {None, reply'[r].raw}
      /\ \A w \in Worker : wpc[w] \in Busy => reply'[held[w]].raw = reply[held[w]].raw
      /\ \A w \in Worker : wpc[w] \in {"received", "put"} =>
            reply'[held[w]].ready = reply[held[w]].ready
      /\ \A r \in ToSet(incoming) : /\ r \in Request /\ reply'[r].cancelled = reply[r].cancelled
                                    /\ reply'[r].ready = reply[r].ready
  <2>1. CASE reply' = [reply EXCEPT ![current].dispatched = TRUE]
    <3>1. reply' \in [Request -> Object]
      BY <1>2, <2>1 DEF Object
    <3>2. \A r \in Request : /\ reply'[r].raw = reply[r].raw /\ reply'[r].value = reply[r].value
                             /\ reply'[r].ready = reply[r].ready
                             /\ reply'[r].cancelled = reply[r].cancelled
      BY <1>2, <2>1 DEF Object
    <3> QED BY <3>1, <3>2, Waiting, InUse DEF Holding
  <2>2. CASE reply' = Collected(reply)
    <3>1. current # None /\ reply[current].value \in {None, reply[current].raw}
      BY <1>1, <1>2 DEF Queueing, Holding
    <3> QED BY <1>1, <2>2, <3>1, Settled
  <2> QED BY <1>1, <2>1, <2>2
<1>4. TypeOK'
  BY <1>1, <1>2, <1>3 DEF TypeOK, Object
<1>5. Holding'
  BY <1>1, <1>3, <1>4, HoldingKept DEF Holding, AnswerIsOwn, TypeOK
<1>6. QueueStays
  BY <1>1, <1>2, <1>3, Waiting DEF QueueStays, Queueing, TypeOK
<1>7. Queueing'
  BY <1>4, <1>6, QueueingKept
<1>8. Lifetimes'
  BY <1>1 DEF Lifetimes, TypeOK
<1> QED BY <1>4, <1>5, <1>7, <1>8

\* The owning thread completes the request, in time or late.
LEMMA CompleteKeeps ==
    ASSUME PipeInv, Complete
    PROVE  PipeInv'
<1> USE Setup, Typed DEF PipeInv, worker, main,
        Busy, Alive, Serving, Gone, Handling
<1> DEFINE Value == IF reply[current].cancelled \/ reply[current].late
                    THEN reply[current].value ELSE answer
           Completed == [reply EXCEPT ![current].value =
                               IF reply[current].cancelled \/ reply[current].late THEN @ ELSE answer,
                             ![current].ready = TRUE]
<1>1. /\ mpc = "complete" /\ mpc' = "check" /\ current' = None /\ answer' = None
      /\ UNCHANGED <<wpc, client, held, response>>
      /\ UNCHANGED <<started, store, pipes, incoming, stopping, failed>>
      /\ reply' = Collected(Completed)
  BY DEF Complete
<1>2. current # None /\ current \in Request /\ answer = reply[current].raw
  BY <1>1 DEF Queueing, TypeOK
<1>3. Value \in {None, reply[current].raw} /\ reply[current] \in Object
  BY <1>2 DEF Holding
<1>4. Completed = [reply EXCEPT ![current] = [reply[current] EXCEPT !.value = Value, !.ready = TRUE]]
  BY <1>2, <1>3 DEF Object
<1>5. /\ Completed \in [Request -> Object]
      /\ \A r \in Request : r # current => Completed[r] = reply[r]
      /\ Completed[current].raw = reply[current].raw
      /\ Completed[current].value \in {None, reply[current].raw}
  BY <1>2, <1>3, <1>4 DEF Object
<1> HIDE DEF Completed
<1>6. /\ reply' \in [Request -> Object]
      /\ \A r \in Request : reply'[r].value \in {None, reply'[r].raw}
      /\ \A w \in Worker : wpc[w] \in Busy => reply'[held[w]].raw = reply[held[w]].raw
      /\ \A w \in Worker : wpc[w] \in {"received", "put"} => reply'[held[w]] = reply[held[w]]
      /\ \A r \in ToSet(incoming) : r \in Request /\ reply'[r] = reply[r]
  BY <1>1, <1>2, <1>5, Settled
<1>7. TypeOK'
  BY <1>1, <1>6 DEF TypeOK, Object
<1>8. Holding'
  BY <1>1, <1>6, <1>7, HoldingKept DEF Holding, AnswerIsOwn, TypeOK
<1>9. QueueStays
  BY <1>1, <1>2, <1>6, Waiting DEF QueueStays, Queueing, TypeOK
<1>10. Queueing'
  BY <1>7, <1>9, QueueingKept
<1>11. Lifetimes'
  BY <1>1 DEF Lifetimes, TypeOK
<1> QED BY <1>7, <1>8, <1>10, <1>11

\* The queue is discarded when all workers are gone.
LEMMA DiscardKeeps ==
    ASSUME PipeInv, Discard
    PROVE  PipeInv'
<1> USE Setup, Typed DEF PipeInv, worker, main,
        Busy, Alive, Serving, Gone, Handling
<1>1. /\ mpc = "discard" /\ mpc' = "close_store" /\ incoming' = <<>>
      /\ UNCHANGED <<wpc, client, held, response>>
      /\ UNCHANGED <<started, current, answer, store, pipes, stopping, failed>>
      /\ reply' = Collected([r \in Request |->
                   IF r \in ToSet(incoming) THEN Cancelled(reply[r]) ELSE reply[r]])
  BY DEF Discard
<1>2. /\ reply' \in [Request -> Object]
      /\ \A r \in Request : reply'[r].value \in {None, reply'[r].raw}
  BY <1>1, Objects DEF Collected, Holding
<1>3. TypeOK'
  BY <1>1, <1>2 DEF TypeOK, Object
<1>4. current = None /\ \A w \in Worker : wpc[w] \notin Alive
  BY <1>1 DEF Queueing, Lifetimes
<1>5. Holding'
  BY <1>1, <1>2, <1>3, <1>4, HoldingKept DEF AnswerIsOwn
<1>6. Queueing'
  <2>1. ToSet(incoming') = {} /\ Len(incoming') = 0
    BY <1>1 DEF ToSet
  <2>2. OnlyAwaitedIsRun'
    BY <2>1 DEF OnlyAwaitedIsRun
  <2> QED BY <2>1, <2>2, <1>1, <1>4 DEF Queueing
<1>7. Lifetimes'
  BY <1>1 DEF Lifetimes, TypeOK
<1> QED BY <1>3, <1>5, <1>6, <1>7

-----------------------------------------------------------------------------
(***************************************************************************)
(* The invariant and what follows from it.                                  *)
(***************************************************************************)
\* The invariant holds at first,
LEMMA Initially == Init => PipeInv
<1> SUFFICES ASSUME Init PROVE PipeInv
  OBVIOUS
<1>1. /\ reply \in [Request -> Object] /\ \A r \in Request : reply[r].value = None
  <2>1. reply = [r \in Request |-> Blank]
    BY DEF Init
  <2> QED BY <2>1, Objects
<1> USE Setup DEF Init, Busy, Alive, Serving, Gone, Handling
<1>2. TypeOK
  <2>1. incoming \in Seq(Request) /\ Len(incoming) = 0
    OBVIOUS
  <2>2. started \in 0..Workers /\ pipes \in 0..Workers
    OBVIOUS
  <2>3. /\ wpc \in [Worker -> Alive \cup {"new", "ended"}]
        /\ \A w \in Worker : (wpc[w] \in Busy) <=> (held[w] # None)
    OBVIOUS
  <2>4. /\ client \in [Worker -> Frame \cup {None}] /\ held \in [Worker -> Request \cup {None}]
        /\ response \in [Worker -> Frame \cup {None}]
    OBVIOUS
  <2>5. /\ stopping \in BOOLEAN /\ failed \in BOOLEAN /\ store \in BOOLEAN /\ mpc = "start"
        /\ current = None /\ answer = None
    OBVIOUS
  <2> HIDE DEF Init
  <2> QED BY <1>1, <2>1, <2>2, <2>3, <2>4, <2>5 DEF TypeOK, Object
<1>3. Holding
  BY <1>1 DEF Holding, AnswerIsOwn
<1>4. Queueing
  BY DEF Queueing, OnlyAwaitedIsRun, ToSet
<1>5. Lifetimes
  BY DEF Lifetimes
<1> QED BY <1>2, <1>3, <1>4, <1>5 DEF PipeInv

\* ... when nothing changes,
LEMMA Stutters == PipeInv /\ UNCHANGED vars => PipeInv'
  BY DEF PipeInv, TypeOK, Holding, Queueing, Lifetimes, AnswerIsOwn, OnlyAwaitedIsRun,
         vars, worker, main

\* ... and after every step.
LEMMA NextKeeps == PipeInv /\ [Next]_vars => PipeInv'
<1> SUFFICES ASSUME PipeInv, [Next]_vars PROVE PipeInv'
  OBVIOUS
<1>1. CASE \E w \in Worker : WorkerStep(w)
  BY <1>1, WorkerMovesKeep, ReceiveKeeps, PutKeeps, ReadyKeeps, GiveUpKeeps, FinishKeeps,
     FailKeeps, EndKeeps
     DEF WorkerStep
<1>2. CASE \E r \in Request : Expire(r)
  BY <1>2, ExpireKeeps
<1>3. CASE MainStep
  BY <1>3, StartThreadKeeps, OwnerMovesKeep, GetKeeps, ClaimKeeps, HandleKeeps, CompleteKeeps,
     DiscardKeeps DEF MainStep
<1>4. CASE Interrupted
  BY <1>4, InterruptedKeeps
<1>5. CASE UNCHANGED vars
  BY <1>5, Stutters
<1> QED BY <1>1, <1>2, <1>3, <1>4, <1>5 DEF Next

\* The inductive invariant holds of every behavior of the runtime.
THEOREM Invariant == Spec => []PipeInv
<1>1. Init => PipeInv
  BY Initially
<1>2. PipeInv /\ [Next]_vars => PipeInv'
  BY NextKeeps
<1> QED BY <1>1, <1>2, PTL DEF Spec

\* The threads, the queue within its capacity and the request objects keep their
\* types, and a worker has a request exactly while it is in an exchange.
THEOREM TypeCorrect == Spec => []TypeOK
<1>1. PipeInv => TypeOK
  BY DEF PipeInv
<1> QED BY <1>1, Invariant, PTL

\* Whatever is late, given up, failed or interrupted, a client is only sent the
\* answer to the frame it sent in this exchange, and what can still be run has a
\* client that waits for it, or a thread that fails and has yet to withdraw it
\* (_Reply and _Worker).
THEOREM AnswersAreOwn == Spec => []OwnAnswers
<1>1. PipeInv => OwnAnswers
  BY DEF PipeInv, Holding, Queueing, OwnAnswers
<1> QED BY <1>1, Invariant, PTL

\* No pipe is closed under a thread that may use it, and the first one not before
\* the store (the order of the cleanups in _serve_windows).
THEOREM HandlesAreSafe == Spec => []HandlesOutliveUse
<1>1. PipeInv => HandlesOutliveUse
  <2> SUFFICES ASSUME PipeInv, mpc \notin Gone
               PROVE  /\ \A w \in Worker : w > pipes => wpc[w] \notin Alive
                      /\ store => pipes > 0
    BY DEF HandlesOutliveUse
  <2>1. CASE mpc = "close_pipes"
    BY <2>1 DEF PipeInv, Lifetimes
  <2>2. CASE mpc # "close_pipes"
    BY <2>2, Setup DEF PipeInv, Lifetimes, Gone, Worker
  <2> QED BY <2>1, <2>2
<1> QED BY <1>1, Invariant, PTL

=============================================================================
