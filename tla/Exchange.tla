------------------------------- MODULE Exchange -------------------------------
(***************************************************************************)
(* What a client of the daemon may rely on, per request: it takes effect at *)
(* most once, an answer comes after that was decided, a client that gave up *)
(* does not know, and in the end both are settled: the client is told or    *)
(* gives up, and a request that is still under way takes effect or cannot   *)
(* any more.                                                                *)
(***************************************************************************)
EXTENDS Naturals

CONSTANT Call

VARIABLES knows,   \* of the client: "idle", "waits", "answered", "gaveup"
          effect   \* of the request: "none", "possible", "applied", "never"

exchange == <<knows, effect>>

Init ==
    /\ knows = [i \in Call |-> "idle"]
    /\ effect = [i \in Call |-> "none"]

Ask(i) ==
    /\ knows[i] = "idle"
    /\ knows' = [knows EXCEPT ![i] = "waits"]
    /\ effect' = [effect EXCEPT ![i] = "possible"]

NobodyThere(i) ==
    /\ knows[i] = "idle"
    /\ knows' = [knows EXCEPT ![i] = "gaveup"]
    /\ effect' = [effect EXCEPT ![i] = "never"]

Apply(i) ==
    /\ effect[i] = "possible"
    /\ effect' = [effect EXCEPT ![i] = "applied"]
    /\ UNCHANGED knows

\* Several requests are lost, refused or cut off at once.
Drop(lost) ==
    /\ \A i \in lost : effect[i] = "possible"
    /\ effect' = [i \in Call |-> IF i \in lost THEN "never" ELSE effect[i]]
    /\ UNCHANGED knows

Learn(i) ==
    /\ knows[i] = "waits" /\ effect[i] \in {"applied", "never"}
    /\ knows' = [knows EXCEPT ![i] = "answered"]
    /\ UNCHANGED effect

GiveUp(i) ==
    /\ knows[i] = "waits"
    /\ knows' = [knows EXCEPT ![i] = "gaveup"]
    /\ UNCHANGED effect

Next ==
    \/ \E i \in Call : Ask(i) \/ NobodyThere(i) \/ Apply(i) \/ Learn(i) \/ GiveUp(i)
    \/ \E lost \in SUBSET Call : Drop(lost)

Settles(i) ==
    /\ WF_exchange(Learn(i) \/ GiveUp(i))
    /\ WF_exchange(Apply(i) \/ Drop({i}))

\* Without and with an end.
Requests == Init /\ [][Next]_exchange
Spec == Requests /\ \A i \in Call : Settles(i)

=============================================================================
