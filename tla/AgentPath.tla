------------------------------- MODULE AgentPath ------------------------------
(***************************************************************************)
(* From an agent's host to the daemon and back: the bridge handles a frame  *)
(* by a call of the daemon, one at a time, next to the calls of other       *)
(* processes of the owner, which compete for the daemon's connections.  A   *)
(* frame and its call have the same number.                                 *)
(***************************************************************************)
EXTENDS StdioBridge, SocketServer

CONSTANTS Scripts   \* what the frames and the others' calls are, if not "absent"

ASSUME PathAssumption == 1 .. Frames \subseteq Call

vars == <<bridgeVars, socketVars>>

Others == Call \ 1 .. Frames

Init ==
    /\ BridgeInit /\ SocketInit
    /\ \E s \in Scripts : script = [f \in 1 .. Frames |-> s[f]] /\ kind = s
    /\ \A f \in 1 .. Frames : script[f] = "absent" => host.pieces <= Pieces * (f - 1)

\* DaemonClient.call of the frame at hand
Calls == \E f \in 1 .. Frames : main = "calls" /\ taken = f /\ (Connect(f) \/ ConnectFails(f))

\* What a client gets is told to the host: a result or an error of its own.
CallReturns ==
    /\ main = "calls" /\ client[taken] \in Gone
    /\ Returns(client[taken])

OthersCall == \E i \in {j \in Others : kind[j] # "absent"} : Connect(i) \/ ConnectFails(i)

Next ==
    \/ BridgeStep /\ UNCHANGED socketVars
    \/ CallReturns /\ UNCHANGED <<script, socketVars>>
    \/ Calls /\ UNCHANGED <<kind, bridgeVars>>
    \/ OthersCall /\ UNCHANGED <<kind, bridgeVars>>
    \/ SocketStep /\ UNCHANGED bridgeVars

Spec == Init /\ [][Next]_vars
FairSpec ==
    /\ Spec /\ BridgeFairness /\ ServerFairness
    /\ WF_vars(CallReturns /\ UNCHANGED <<script, socketVars>>)
    /\ WF_vars(Calls /\ UNCHANGED <<kind, bridgeVars>>)

\* Types and the limits: of connections, of the backlog and of the queues, which
\* write_frame never finds full.
TypeOK == BridgeTypeOK /\ SocketTypeOK

\* Answers come in the order of the frames, without a gap, and they are true: a
\* frame that is answered with the daemon's result had its call dispatched, once.
AnswersAreTrue ==
    /\ AnswersInOrder
    /\ \A i \in DOMAIN out : out[i].answer.result = "answered" => ran[out[i].answer.frame] = 1

=============================================================================
