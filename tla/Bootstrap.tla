------------------------------- MODULE Bootstrap -------------------------------
(***************************************************************************)
(* The initialization of a vault and its admission (storage.py,             *)
(* bootstrap_state.py, the start of daemon.serve).  Initializers race for    *)
(* one home, step by step, and may stop or fail anywhere with a partial      *)
(* file behind them; daemons start at any moment.  A file is represented by  *)
(* the vault it was written for and by whether it is whole.                  *)
(***************************************************************************)
EXTENDS FiniteSets

CONSTANTS Initializer,  \* attempts to initialize; each draws one vault id
          Opener,       \* daemons that start
          Legacy,       \* a vault from before the initialization records
          Foreign,      \* a vault with records, initialized in another home
          None          \* no vault

ASSUME ConstantsAssumption ==
    /\ Legacy # Foreign
    /\ {Legacy, Foreign, None} \cap (Initializer \cup Opener) = {}
    /\ None \notin {Legacy, Foreign}
    /\ "incomplete" \notin Initializer \cup {Foreign, None}  \* ids are hexadecimal

VARIABLES files,    \* files[f]: what is at that path of the home
          pc,       \* pc[i]: the next step of initializer i
          opc,      \* opc[o]: the next step of daemon o
          marker,   \* marker[o]: the vault id that o's last look gave
          tampered  \* history: records were lost, or a database was put in place

vars == <<files, pc, opc, marker, tampered>>

Record == {"claim", "complete"}
Private == {"caps", "audit_key", "control", "db", "agent_cap", "audit_head"}
File == Record \cup Private \cup {"lock"}
Vault == Initializer \cup {Legacy, Foreign}

Exists(f) == files[f].by # None
WholeOf(v) == [by |-> v, whole |-> TRUE]
PartOf(v) == [by |-> v, whole |-> FALSE]

\* Paths that mark a home as taken (agent capabilities are inside "caps").
Reserved == File \ {"agent_cap"}

\* A home nobody has used, or one a legacy version has initialized.
Init ==
    /\ \E v \in {None, Legacy} :
         files = [f \in File |-> IF v = Legacy /\ f \in Private THEN WholeOf(Legacy) ELSE PartOf(None)]
    /\ pc = [i \in Initializer |-> "look"]
    /\ opc = [o \in Opener |-> "serve"]
    /\ marker = [o \in Opener |-> None]
    /\ tampered = FALSE

-----------------------------------------------------------------------------
(***************************************************************************)
(* Store.bootstrap: one step per file, in this order.                       *)
(***************************************************************************)
Step == {"look", "claim", "recheck", "caps", "audit_key", "control", "db", "agent_cap",
         "commit", "audit_head", "verify", "complete", "reread", "done", "failed"}

\* Mutant: the claim is written only at the end, with the completion.
AfterUnclaimed(step) ==
    [look |-> "caps", caps |-> "audit_key", audit_key |-> "control",
     control |-> "db", db |-> "agent_cap", agent_cap |-> "commit", commit |-> "audit_head",
     audit_head |-> "verify", verify |-> "claim", claim |-> "complete", complete |-> "reread",
     reread |-> "done"][step]

\* Mutant: completion is published before the anchor is written.
AfterPublishedEarly(step) ==
    [look |-> "claim", claim |-> "recheck", recheck |-> "caps", caps |-> "audit_key",
     audit_key |-> "control", control |-> "db", db |-> "agent_cap", agent_cap |-> "commit",
     commit |-> "complete", complete |-> "audit_head", audit_head |-> "verify", verify |-> "reread",
     reread |-> "done"][step]

After(step) ==
    [look |-> "claim", claim |-> "recheck", recheck |-> "caps", caps |-> "audit_key",
     audit_key |-> "control", control |-> "db", db |-> "agent_cap", agent_cap |-> "commit",
     commit |-> "audit_head", audit_head |-> "verify", verify |-> "complete", complete |-> "reread",
     reread |-> "done"][step]

\* The step's check decides whether the attempt goes on.
Continue(i, check) == pc' = [pc EXCEPT ![i] = IF check THEN After(@) ELSE "failed"]

Look(i) ==
    /\ pc[i] = "look"
    /\ Continue(i, \A f \in Reserved : ~Exists(f))
    /\ UNCHANGED <<files, opc, marker, tampered>>

\* After the claim: does anything else occupy the home?
Recheck(i) ==
    /\ pc[i] = "recheck"
    /\ Continue(i, \A f \in Reserved \ {"claim"} : ~Exists(f))
    /\ UNCHANGED <<files, opc, marker, tampered>>

\* Mutant: files are opened without O_EXCL.
CreatableAnyway(f) == f \in File

\* write_private and mkdir are exclusive; the anchor alone may be replaced.
Creatable(f) == ~Exists(f) \/ f = "audit_head"

Create(i, f) ==
    /\ pc[i] = f
    /\ Creatable(f)
    /\ files' = [files EXCEPT ![f] = IF f = "db" THEN PartOf(i) ELSE WholeOf(i)]
    /\ Continue(i, TRUE)
    /\ UNCHANGED <<opc, marker, tampered>>

\* A short write by write_private: the path stays taken.
CreatePart(i, f) ==
    /\ pc[i] = f
    /\ ~Exists(f)
    /\ files' = [files EXCEPT ![f] = PartOf(i)]
    /\ pc' = [pc EXCEPT ![i] = "failed"]
    /\ UNCHANGED <<opc, marker, tampered>>

\* The one SQL transaction with the metadata, and the vault's first row.
Commit(i) ==
    /\ pc[i] = "commit"
    /\ files' = [files EXCEPT !["db"] = WholeOf(i)]
    /\ Continue(i, TRUE)
    /\ UNCHANGED <<opc, marker, tampered>>

\* _verify_bootstrap reads everything back.
Verify(i) ==
    /\ pc[i] = "verify"
    /\ Continue(i, \A f \in Private : files[f] = WholeOf(i))
    /\ UNCHANGED <<files, opc, marker, tampered>>

\* complete_initialization, while the claim is still this attempt's
Complete(i) ==
    /\ pc[i] = "complete"
    /\ IF files["claim"] = WholeOf(i) /\ ~Exists("complete")
       THEN files' = [files EXCEPT !["complete"] = WholeOf(i)]
       ELSE files' = files
    /\ Continue(i, files["claim"] = WholeOf(i) /\ ~Exists("complete"))
    /\ UNCHANGED <<opc, marker, tampered>>

\* read_initialization_state: an id, no records (None), or "incomplete"
InitializationState ==
    IF \A r \in Record : ~Exists(r) THEN None
    ELSE IF files["claim"].whole /\ files["complete"] = files["claim"] THEN files["claim"].by
    ELSE "incomplete"

Reread(i) ==
    /\ pc[i] = "reread"
    /\ Continue(i, InitializationState = i)
    /\ UNCHANGED <<files, opc, marker, tampered>>

\* An error, or the end of the process, at any point: nothing is cleaned up.
Stop(i) ==
    /\ pc[i] \notin {"done", "failed"}
    /\ pc' = [pc EXCEPT ![i] = "failed"]
    /\ UNCHANGED <<files, opc, marker, tampered>>

-----------------------------------------------------------------------------
(***************************************************************************)
(* daemon.serve up to its lock, then Store.__init__ up to its admission.     *)
(***************************************************************************)
OpenerStep == {"serve", "serve_db", "serve_again", "lock", "store", "store_db", "store_again",
               "admit", "admitted", "refused"}

Onward(step) ==
    [serve |-> "serve_db", serve_db |-> "serve_again", serve_again |-> "lock", lock |-> "store",
     store |-> "store_db", store_db |-> "store_again", store_again |-> "admit",
     admit |-> "admitted"][step]

Proceed(o, check) == opc' = [opc EXCEPT ![o] = IF check THEN Onward(@) ELSE "refused"]

\* read_initialization_state, before and again after the database was seen
ReadState(o) ==
    /\ opc[o] \in {"serve", "serve_again", "store", "store_again"}
    /\ Proceed(o, InitializationState # "incomplete")
    /\ marker' = [marker EXCEPT ![o] = InitializationState]
    /\ UNCHANGED <<files, pc, tampered>>

SeeDatabase(o) ==
    /\ opc[o] \in {"serve_db", "store_db"}
    /\ Proceed(o, Exists("db"))
    /\ UNCHANGED <<files, pc, marker, tampered>>

\* DaemonLock opens its file; the lock itself is the business of another module.
OpenLock(o) ==
    /\ opc[o] = "lock"
    /\ files' = [files EXCEPT !["lock"] = IF Exists("lock") THEN @ ELSE WholeOf(o)]
    /\ Proceed(o, TRUE)
    /\ UNCHANGED <<pc, marker, tampered>>

\* require_initialization_metadata: a legacy database has no protocol flag
Bound(o) == marker[o] = IF files["db"].by = Legacy THEN None ELSE files["db"].by

Admit(o) ==
    /\ opc[o] = "admit"
    /\ Proceed(o, files["audit_key"].whole /\ files["db"].whole /\ Bound(o))
    /\ UNCHANGED <<files, pc, marker, tampered>>

-----------------------------------------------------------------------------
(***************************************************************************)
(* The owner: records are lost; a database from elsewhere is put in place.  *)
(***************************************************************************)
LoseRecord(r) ==
    /\ Exists(r)
    /\ files' = [files EXCEPT ![r] = PartOf(None)]
    /\ tampered' = TRUE
    /\ UNCHANGED <<pc, opc, marker>>

PutDatabase(v) ==
    /\ ~Exists("db")
    /\ files' = [files EXCEPT !["db"] = WholeOf(v)]
    /\ tampered' = TRUE
    /\ UNCHANGED <<pc, opc, marker>>

InitializerStep(i) ==
    \/ Look(i) \/ Recheck(i) \/ Commit(i) \/ Verify(i) \/ Complete(i) \/ Reread(i) \/ Stop(i)
    \/ \E f \in {"claim"} \cup Private : Create(i, f)
    \/ \E f \in Record \cup {"audit_key", "control", "agent_cap"} : CreatePart(i, f)

Next ==
    \/ \E i \in Initializer : InitializerStep(i)
    \/ \E o \in Opener : ReadState(o) \/ SeeDatabase(o) \/ OpenLock(o) \/ Admit(o)
    \/ \E r \in Record : LoseRecord(r)
    \/ \E v \in {Legacy, Foreign} : PutDatabase(v)

Spec == Init /\ [][Next]_vars

-----------------------------------------------------------------------------
(***************************************************************************)
(* Properties.                                                              *)
(***************************************************************************)

\* The shape of the state; and private material is only ever created in a
\* home that a claim reserves.
TypeOK ==
    /\ files \in [File -> [by: Vault \cup Opener \cup {None}, whole: BOOLEAN]]
    /\ pc \in [Initializer -> Step]
    /\ opc \in [Opener -> OpenerStep]
    /\ marker \in [Opener -> Initializer \cup {None, "incomplete"}]
    /\ tampered \in BOOLEAN
    /\ \A f \in Private : files[f].by \in Initializer => tampered \/ files["claim"].by = files[f].by

\* A daemon admits a legacy vault, or one whose every private file the same
\* initialization has written and finished: never one that is half made, whose
\* records were lost, or whose database came from another home.
AdmittedIsWhole ==
    \A o \in Opener : opc[o] = "admitted" =>
        \/ files["db"].by = Legacy
        \/ \E i \in Initializer : \A f \in Private : files[f] = WholeOf(i)

\* A completion record, even a partial one, means that its initialization had
\* written, committed, anchored and closed everything else.
PublishedIsWhole ==
    Exists("complete") => \A f \in Private : files[f] = WholeOf(files["complete"].by)

\* A start leaves no lock file in a home that is still being initialized.
LockOnlyInWholeHome ==
    Exists("lock") => tampered \/ files["db"].by = Legacy \/ files["complete"].whole

\* At every moment of any race, what is published, locked or served is whole.
HomesAreWhole == PublishedIsWhole /\ LockOnlyInWholeHome /\ AdmittedIsWhole

\* Racing initializers replace and adopt nothing: what is at a path stays the
\* file that it was, and an interrupted attempt keeps its home for ever.
NothingReplaced ==
    [][\A f \in File : Exists(f) => \/ files'[f].by = files[f].by /\ (files[f].whole => files'[f].whole)
                                    \/ f \in Record /\ files'[f].by = None]_vars


=============================================================================
