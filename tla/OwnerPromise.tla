---------------------------- MODULE OwnerPromise ----------------------------
(***************************************************************************)
(* What the owner is promised about an approved operation: its fate is      *)
(* decided once, and whatever the owner is told, by the command or by a     *)
(* later query, agrees with that fate for ever.  Nothing is said about how. *)
(***************************************************************************)
CONSTANT Cli                  \* the owner's approved operations

VARIABLES fate,               \* fate[c]: "open", "committed" or "never"
          told,               \* told[c]: what the command reported
          learned             \* operations a query reported as committed

Init ==
    /\ fate = [c \in Cli |-> "open"]
    /\ told = [c \in Cli |-> "none"]
    /\ learned = {}

Commit(c) ==
    /\ fate[c] = "open"
    /\ fate' = [fate EXCEPT ![c] = "committed"]
    /\ UNCHANGED <<told, learned>>

TellCommitted(c) ==
    /\ told[c] = "none" /\ fate[c] = "committed"
    /\ told' = [told EXCEPT ![c] = "committed"]
    /\ UNCHANGED <<fate, learned>>

\* Says nothing, and commits to nothing.
TellUnknown(c) ==
    /\ told[c] = "none"
    /\ told' = [told EXCEPT ![c] = "unknown"]
    /\ UNCHANGED <<fate, learned>>

\* A failure is reported only of what will never be committed.
TellFailed(c) ==
    /\ told[c] = "none" /\ fate[c] = "open"
    /\ fate' = [fate EXCEPT ![c] = "never"]
    /\ told' = [told EXCEPT ![c] = "failed"]
    /\ UNCHANGED learned

Learn(C) ==
    /\ \A c \in C : fate[c] = "committed"
    /\ learned' = learned \cup C
    /\ UNCHANGED <<fate, told>>

Next ==
    \/ \E c \in Cli : Commit(c) \/ TellCommitted(c) \/ TellUnknown(c) \/ TellFailed(c)
    \/ \E C \in SUBSET Cli : Learn(C)

Spec == Init /\ [][Next]_<<fate, told, learned>>
=============================================================================
