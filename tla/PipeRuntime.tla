------------------------------ MODULE PipeRuntime ------------------------------
(***************************************************************************)
(* The Windows runtime (windows_runtime.py, _serve_windows in daemon.py): a   *)
(* worker thread per pipe instance exchanges one frame at a time with its     *)
(* client, and hands it through a bounded queue to the one thread that owns   *)
(* the store.  Deadlines, failing threads and stopping can come at any moment. *)
(* Thread switches are possible between any two steps below; a method that    *)
(* runs under the lock of a request is one step.                              *)
(***************************************************************************)
EXTENDS Naturals, Sequences, SequencesExt

CONSTANTS Workers,   \* MAX_CONNECTIONS, of pipes and worker threads
          Capacity,  \* ... and of the queue
          Frame,     \* what clients may send
          None

Worker == 1..Workers
\* As many request objects as can be referred to at once.
Request == 1..(Workers + Capacity + 1)

ASSUME ConstantsAssumption ==
    /\ Workers \in Nat \ {0} /\ Capacity \in Nat \ {0}
    /\ None \notin Frame \cup Request

VARIABLES wpc,       \* wpc[w]: progress of worker w
          client,    \* client[w]: frame that the client of this exchange sent
          held,      \* held[w]: request of the exchange
          response,  \* response[w]: what wait returned
          pipes,     \* pipes whose handle is open: 1..pipes
          incoming,  \* queue of requests
          reply,     \* reply[r]: the request object r with its _Reply
          stopping, failed,  \* the events
          mpc,       \* progress of the thread that owns the store
          started,   \* workers whose thread was started: 1..started
          current,   \* request taken from the queue
          answer,    \* what the handler returned
          store      \* the store is open

worker == <<wpc, client, held, response>>
main == <<mpc, started, current, answer, store, pipes>>
vars == <<worker, main, incoming, reply, stopping, failed>>

Busy == {"received", "put", "wait", "send", "finish", "failing"}
Alive == {"accept"} \cup Busy
Serving == {"check", "get", "claim", "handle", "complete"}
Gone == {"off", "exited"}

Blank == [raw |-> None, cancelled |-> FALSE, dispatched |-> FALSE,
          late |-> FALSE, ready |-> FALSE, value |-> None]

TypeOK ==
    /\ wpc \in [Worker -> Alive \cup {"new", "ended"}]
    /\ client \in [Worker -> Frame \cup {None}]
    /\ held \in [Worker -> Request \cup {None}]
    /\ response \in [Worker -> Frame \cup {None}]
    /\ pipes \in 0..Workers
    /\ incoming \in Seq(Request) /\ Len(incoming) <= Capacity
    /\ reply \in [Request -> [raw : Frame \cup {None}, cancelled : BOOLEAN, dispatched : BOOLEAN,
                              late : BOOLEAN, ready : BOOLEAN, value : Frame \cup {None}]]
    /\ stopping \in BOOLEAN /\ failed \in BOOLEAN /\ store \in BOOLEAN
    /\ mpc \in {"start", "stop", "join", "discard", "close_store", "close_pipes"} \cup Serving \cup Gone
    /\ started \in 0..Workers
    /\ current \in Request \cup {None}
    /\ answer \in Frame \cup {None}
    /\ \A w \in Worker : (wpc[w] \in Busy) <=> (held[w] # None)

\* The pool holds every pipe, the first one being the daemon's ownership; the store is open.
Init ==
    /\ wpc = [w \in Worker |-> "new"]
    /\ client = [w \in Worker |-> None]
    /\ held = [w \in Worker |-> None]
    /\ response = [w \in Worker |-> None]
    /\ pipes = Workers
    /\ incoming = <<>>
    /\ reply = [r \in Request |-> Blank]
    /\ stopping = FALSE /\ failed = FALSE
    /\ mpc = "start"
    /\ started = 0
    /\ current = None /\ answer = None
    /\ store = TRUE

-----------------------------------------------------------------------------
(***************************************************************************)
(* Requests.  An object to which nothing refers is as good as new.           *)
(***************************************************************************)
Referred == ToSet(incoming) \cup {current} \cup {held[w] : w \in Worker}
Collected(objects) == [r \in Request |-> IF r \in Referred' THEN objects[r] ELSE Blank]

\* Mutant: a worker's object is used again while the queue or the dispatcher has it.
FreshToWorkers == CHOOSE r \in Request : \A w \in Worker : held[w] # r
Fresh == CHOOSE r \in Request : r \notin Referred

Cancelled(request) == [request EXCEPT !.cancelled = TRUE, !.value = None, !.ready = TRUE]

\* The deadline passes; after a cancellation nobody looks at it.
Expire(r) ==
    /\ mpc \notin Gone
    /\ r \in Referred /\ ~reply[r].late /\ ~reply[r].cancelled
    /\ reply' = [reply EXCEPT ![r].late = TRUE]
    /\ UNCHANGED <<worker, main, incoming, stopping, failed>>

(***************************************************************************)
(* Workers                                                                  *)
(***************************************************************************)
Goto(w, label) == wpc' = [wpc EXCEPT ![w] = label]
Running(w, label) == mpc \notin Gone /\ wpc[w] = label

\* The loop ends, accept being left with pipe_stopping.
Leave(w) ==
    /\ Running(w, "accept")
    /\ stopping
    /\ Goto(w, "ended")
    /\ UNCHANGED <<client, held, response, main, incoming, reply, stopping, failed>>

\* A client connects and its frame is read; an exchange that fails before changes nothing.
Receive(w) ==
    /\ Running(w, "accept")
    /\ Goto(w, "received")
    /\ UNCHANGED <<response, main, incoming, stopping, failed>>
    /\ \E frame \in Frame :
         /\ client' = [client EXCEPT ![w] = frame]
         /\ held' = [held EXCEPT ![w] = Fresh]
         /\ reply' = Collected([reply EXCEPT ![Fresh] = [Blank EXCEPT !.raw = frame]])

Received(w) ==
    /\ Running(w, "received")
    /\ Goto(w, IF stopping THEN "finish" ELSE "put")
    /\ UNCHANGED <<client, held, response, main, incoming, reply, stopping, failed>>

\* Mutant: the queue has no bound.
PutUnbounded(w) ==
    /\ Running(w, "put")
    /\ incoming' = Append(incoming, held[w])
    /\ Goto(w, "wait")
    /\ UNCHANGED <<client, held, response, main, reply, stopping, failed>>

\* put_nowait: a full queue ends the exchange.
Put(w) ==
    /\ Running(w, "put")
    /\ IF Len(incoming) = Capacity
       THEN incoming' = incoming /\ Goto(w, "finish")
       ELSE incoming' = Append(incoming, held[w]) /\ Goto(w, "wait")
    /\ UNCHANGED <<client, held, response, main, reply, stopping, failed>>

\* wait sees that the reply is ready ...
Ready(w) ==
    /\ Running(w, "wait")
    /\ reply[held[w]].ready
    /\ response' = [response EXCEPT ![w] = reply[held[w]].value]
    /\ Goto(w, IF reply[held[w]].value = None \/ stopping THEN "finish" ELSE "send")
    /\ UNCHANGED <<client, held, main, incoming, reply, stopping, failed>>

\* ... or gives up.
GiveUp(w) ==
    /\ Running(w, "wait")
    /\ stopping \/ reply[held[w]].late
    /\ reply' = [reply EXCEPT ![held[w]] = Cancelled(@)]
    /\ Goto(w, "finish")
    /\ UNCHANGED <<client, held, response, main, incoming, stopping, failed>>

\* The response is sent and its acknowledgement awaited; either may fail.
Send(w) ==
    /\ Running(w, "send")
    /\ Goto(w, "finish")
    /\ UNCHANGED <<client, held, response, main, incoming, reply, stopping, failed>>

Disconnect(w) ==
    /\ client' = [client EXCEPT ![w] = None]
    /\ held' = [held EXCEPT ![w] = None]
    /\ response' = [response EXCEPT ![w] = None]

\* The end of every exchange: disconnect, and cancel what was asked.
Finish(w) ==
    /\ Running(w, "finish")
    /\ Disconnect(w)
    /\ Goto(w, "accept")
    /\ UNCHANGED <<main, incoming, stopping, failed>>
    /\ reply' = Collected([reply EXCEPT ![held[w]] = Cancelled(@)])

\* An error that is not one of the peer's breaks the exchange off.  The pipe is
\* disconnected at once ...
Fail(w) ==
    /\ mpc \notin Gone /\ wpc[w] \in {"received", "put", "wait", "send"}
    /\ client' = [client EXCEPT ![w] = None]
    /\ response' = [response EXCEPT ![w] = None]
    /\ Goto(w, "failing")
    /\ UNCHANGED <<held, main, incoming, reply, stopping, failed>>

\* ... the request is withdrawn after that, and then the thread ends, and with it
\* the runtime.
End(w) ==
    /\ mpc \notin Gone /\ wpc[w] \in {"accept", "finish", "failing"}
    /\ Disconnect(w)
    /\ failed' = TRUE /\ stopping' = TRUE
    /\ Goto(w, "ended")
    /\ UNCHANGED <<main, incoming>>
    /\ reply' = Collected(IF held[w] = None THEN reply ELSE [reply EXCEPT ![held[w]] = Cancelled(@)])

WorkerStep(w) ==
    \/ Leave(w) \/ Receive(w) \/ Received(w) \/ Put(w) \/ Ready(w) \/ GiveUp(w)
    \/ Send(w) \/ Finish(w) \/ Fail(w) \/ End(w)

(***************************************************************************)
(* The thread that owns the store: PipePool.start, serve_forever ...          *)
(***************************************************************************)
StartThread ==
    /\ mpc = "start"
    /\ \/ /\ started < Workers
          /\ started' = started + 1
          /\ wpc' = [wpc EXCEPT ![started'] = "accept"]
          /\ mpc' = mpc
       \/ /\ mpc' = IF started = Workers THEN "check" ELSE "stop"
          /\ UNCHANGED <<started, wpc>>
    /\ UNCHANGED <<client, held, response, pipes, incoming, reply, stopping, failed, current, answer, store>>

\* Mutant: the ownership of the pipe is checked, the workers are not.
CheckBlind ==
    /\ mpc = "check"
    /\ mpc' = "get"
    /\ UNCHANGED <<worker, started, current, answer, store, pipes, incoming, reply, stopping, failed>>

Check ==
    /\ mpc = "check"
    /\ mpc' = IF failed THEN "stop" ELSE "get"
    /\ UNCHANGED <<worker, started, current, answer, store, pipes, incoming, reply, stopping, failed>>

Get ==
    /\ mpc = "get"
    /\ IF incoming = <<>>
       THEN mpc' = "check" /\ UNCHANGED <<current, incoming>>
       ELSE /\ current' = Head(incoming)
            /\ incoming' = Tail(incoming)
            /\ mpc' = "claim"
    /\ UNCHANGED <<worker, started, answer, store, pipes, reply, stopping, failed>>

Claim ==
    /\ mpc = "claim"
    /\ UNCHANGED <<worker, started, answer, store, pipes, incoming, stopping, failed>>
    /\ LET request == reply[current]
           open == ~request.cancelled /\ ~request.dispatched /\ ~request.late
       IN  IF open
           THEN /\ reply' = [reply EXCEPT ![current].dispatched = TRUE]
                /\ mpc' = "handle" /\ current' = current
           ELSE /\ current' = None
                /\ mpc' = "check"
                /\ reply' = Collected(reply)

Handle ==
    /\ mpc = "handle"
    /\ answer' = reply[current].raw
    /\ mpc' = "complete"
    /\ UNCHANGED <<worker, started, current, store, pipes, incoming, reply, stopping, failed>>

Complete ==
    /\ mpc = "complete"
    /\ current' = None /\ answer' = None
    /\ mpc' = "check"
    /\ UNCHANGED <<worker, started, store, pipes, incoming, stopping, failed>>
    /\ reply' = Collected([reply EXCEPT
                  ![current].value = IF reply[current].cancelled \/ reply[current].late THEN @ ELSE answer,
                  ![current].ready = TRUE])

\* A signal, or an error of the loop or of the handler.
Interrupted ==
    /\ mpc \in Serving
    /\ mpc' = "stop"
    /\ current' = None /\ answer' = None
    /\ UNCHANGED <<worker, started, store, pipes, incoming, stopping, failed>>
    /\ reply' = Collected(reply)

(***************************************************************************)
(* ... and the way down: stop_workers, Store.close, PipePool.close            *)
(***************************************************************************)
StopWorkers ==
    /\ mpc = "stop"
    /\ stopping' = TRUE
    /\ mpc' = "join"
    /\ UNCHANGED <<worker, started, current, answer, store, pipes, incoming, reply, failed>>

Join ==
    /\ mpc = "join"
    /\ \A w \in Worker : wpc[w] \notin Alive
    /\ mpc' = "discard"
    /\ UNCHANGED <<worker, started, current, answer, store, pipes, incoming, reply, stopping, failed>>

\* Mutant: a thread that does not end in time is left alone.
JoinGivesUp ==
    /\ mpc = "join"
    /\ mpc' = "discard"
    /\ UNCHANGED <<worker, started, current, answer, store, pipes, incoming, reply, stopping, failed>>

\* A thread does not end in time: os._exit, and the system takes everything back.
JoinTimesOut ==
    /\ mpc = "join"
    /\ \E w \in Worker : wpc[w] \in Alive
    /\ mpc' = "exited"
    /\ UNCHANGED <<worker, started, current, answer, store, pipes, incoming, reply, stopping, failed>>

Discard ==
    /\ mpc = "discard"
    /\ incoming' = <<>>
    /\ mpc' = "close_store"
    /\ UNCHANGED <<worker, started, current, answer, store, pipes, stopping, failed>>
    /\ reply' = Collected([r \in Request |-> IF r \in ToSet(incoming) THEN Cancelled(reply[r]) ELSE reply[r]])

\* Mutant: the cleanups run in the order in which they were registered.
ClosePipesFirst ==
    /\ mpc = "close_store"
    /\ IF pipes > 0
       THEN pipes' = pipes - 1 /\ UNCHANGED <<mpc, store>>
       ELSE pipes' = pipes /\ store' = FALSE /\ mpc' = "close_pipes"
    /\ UNCHANGED <<worker, started, current, answer, incoming, reply, stopping, failed>>

CloseStore ==
    /\ mpc = "close_store"
    /\ store' = FALSE
    /\ mpc' = "close_pipes"
    /\ UNCHANGED <<worker, started, current, answer, pipes, incoming, reply, stopping, failed>>

\* The first instance, with which the daemon owns the vault, goes last.
ClosePipe ==
    /\ mpc = "close_pipes"
    /\ IF pipes = 0
       THEN mpc' = "off" /\ pipes' = pipes
       ELSE pipes' = pipes - 1 /\ mpc' = mpc
    /\ UNCHANGED <<worker, started, current, answer, store, incoming, reply, stopping, failed>>

MainStep ==
    \/ StartThread \/ Check \/ Get \/ Claim \/ Handle \/ Complete
    \/ StopWorkers \/ Join \/ JoinTimesOut \/ Discard \/ CloseStore \/ ClosePipe

Next ==
    \/ \E w \in Worker : WorkerStep(w)
    \/ \E r \in Request : Expire(r)
    \/ MainStep \/ Interrupted

Spec == Init /\ [][Next]_vars

\* The owning thread goes on (it polls, its joins have a deadline, the handler returns).
FairSpec == Spec /\ WF_vars(MainStep)

-----------------------------------------------------------------------------
(***************************************************************************)
(* Properties.                                                              *)
(***************************************************************************)

\* What a client is sent is the answer to the frame it sent in this exchange,
\* also when the answer to an earlier one comes after that was given up.
AnswerIsOwn ==
    \A w \in Worker : wpc[w] = "send" => response[w] = client[w]

\* What can still be taken from the queue and run has a client waiting for it:
\* giving up, stopping and failing all withdraw the request.  Only a thread that
\* fails disconnects its client first and has yet to withdraw what it asked.
OnlyAwaitedIsRun ==
    \A r \in ToSet(incoming) :
       ~reply[r].cancelled => \E w \in Worker : wpc[w] \in {"wait", "failing"} /\ held[w] = r

\* An answer meets the client that waits for it, or nobody.
OwnAnswers == AnswerIsOwn /\ OnlyAwaitedIsRun

\* No handle is closed under a thread that may be using it, and the handle that
\* keeps other daemons out is held as long as the store is open.
HandlesOutliveUse ==
    mpc \notin Gone =>
       /\ \A w \in Worker : w > pipes => wpc[w] \notin Alive
       /\ store => pipes > 0

\* Once stopping is set, by the owner or by a thread that failed, the daemon ends.
StopEnds == stopping ~> mpc \in Gone

=============================================================================
