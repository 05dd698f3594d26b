---------------------------- MODULE BootstrapProofs ----------------------------
(***************************************************************************)
(* Proofs about Bootstrap, for any initializers and daemons.                *)
(*                                                                          *)
(* What a step may do to one path is said once (Changes), and likewise how  *)
(* far it takes one initializer (Advances) and one daemon (Proceeds).  From *)
(* there on no action is opened again.  The directory of capabilities is    *)
(* made exclusively, so that only one initializer comes past it, and who    *)
(* comes past a step finds what it made (Made): that is why the anchor,     *)
(* which alone may be replaced, is replaced by nobody else.  A daemon that  *)
(* was admitted had seen an id in both records, and from then on everything *)
(* of that id stays whole (Seen).                                           *)
(***************************************************************************)
EXTENDS Bootstrap, TLAPS

\* The steps of an initializer after each file.
PastHead == {"verify", "complete", "reread", "done"}
PastCommit == PastHead \cup {"audit_head"}
PastAgentCap == PastCommit \cup {"commit"}
PastDb == PastAgentCap \cup {"agent_cap"}
PastControl == PastDb \cup {"db"}
PastKey == PastControl \cup {"control"}
PastCaps == PastKey \cup {"audit_key"}
PastClaim == PastCaps \cup {"recheck", "caps"}

\* Everything private was written by i, and wholly.
Whole(i) == \A f \in Private : files[f] = WholeOf(i)

\* Every initializer finds what it has made, and so only one comes past "caps".
Made ==
    \A i \in Initializer :
       /\ pc[i] \in PastCaps => files["caps"] = WholeOf(i)
       /\ pc[i] \in PastKey => files["audit_key"] = WholeOf(i)
       /\ pc[i] \in PastControl => files["control"] = WholeOf(i)
       /\ pc[i] \in PastDb => files["db"].by = i
       /\ pc[i] \in PastAgentCap => files["agent_cap"] = WholeOf(i)
       /\ pc[i] \in PastCommit => files["db"] = WholeOf(i)
       /\ pc[i] \in PastHead => files["audit_head"] = WholeOf(i)

\* Whose the files are: the anchor belongs with the capabilities, and a database is
\* of an initializer, or of elsewhere.
Owned ==
    /\ \A f \in File : files[f].by = None => ~files[f].whole
    /\ files["db"].by \in Vault \cup {None} /\ (files["db"].by = Foreign => tampered)
    /\ Exists("audit_head") => files["caps"].by = files["audit_head"].by

\* Whoever came past the claim has it, unless records were lost.
Claimed == \A i \in Initializer : pc[i] \in PastClaim => tampered \/ files["claim"] = WholeOf(i)

\* A completion record is of an initializer that had made everything.
Completed ==
    Exists("complete") => /\ files["complete"].by \in Initializer
                          /\ Whole(files["complete"].by)

\* The home is not being initialized any more.
Settled == tampered \/ files["db"].by = Legacy \/ files["complete"].whole

\* What the looks of the daemons were good for.
Seen ==
    \A o \in Opener :
       /\ marker[o] \in Initializer => Whole(marker[o])
       /\ opc[o] \in OpenerStep \ {"serve", "serve_db", "refused"} => Exists("db")
       /\ opc[o] \in OpenerStep \ {"serve", "serve_db", "serve_again", "refused"} =>
             Settled

\* The inductive invariant.
BootInv ==
    /\ TypeOK /\ Made /\ Owned /\ Claimed /\ Completed /\ Seen
    /\ LockOnlyInWholeHome /\ AdmittedIsWhole


-----------------------------------------------------------------------------
(***************************************************************************)
(* Files, steps and what one step of the system can do.                     *)
(***************************************************************************)
\* The constants.
LEMMA Setup == /\ Legacy # Foreign /\ None # Legacy /\ None # Foreign
               /\ Legacy \notin Initializer \cup Opener /\ Foreign \notin Initializer \cup Opener
               /\ None \notin Initializer \cup Opener
               /\ "incomplete" \notin Initializer /\ "incomplete" # None
               /\ "incomplete" # Foreign
  BY ConstantsAssumption

\* The order of the steps.
LEMMA Steps ==
    /\ After("look") = "claim" /\ After("claim") = "recheck" /\ After("recheck") = "caps"
    /\ After("caps") = "audit_key" /\ After("audit_key") = "control" /\ After("control") = "db"
    /\ After("db") = "agent_cap" /\ After("agent_cap") = "commit" /\ After("commit") = "audit_head"
    /\ After("audit_head") = "verify" /\ After("verify") = "complete"
    /\ After("complete") = "reread" /\ After("reread") = "done"
    /\ Onward("serve") = "serve_db" /\ Onward("serve_db") = "serve_again"
    /\ Onward("serve_again") = "lock" /\ Onward("lock") = "store" /\ Onward("store") = "store_db"
    /\ Onward("store_db") = "store_again" /\ Onward("store_again") = "admit"
    /\ Onward("admit") = "admitted"
  BY DEF After, Onward

\* The values of files[f].
Entry == [by : Vault \cup Opener \cup {None}, whole : BOOLEAN]

\* Whole and partial files.
LEMMA Entries ==
    /\ \A v : WholeOf(v).by = v /\ WholeOf(v).whole /\ PartOf(v).by = v /\ ~PartOf(v).whole
    /\ \A v \in Vault \cup Opener \cup {None} : WholeOf(v) \in Entry /\ PartOf(v) \in Entry
    /\ \A e \in Entry : \A v : e.by = v /\ e.whole => e = WholeOf(v)
  BY DEF WholeOf, PartOf, Entry

\* An initializer creates the file, in whole or in part,
Created(f) ==
    \E i \in Initializer : /\ f \in Record \cup Private
                           /\ files'[f] \in {WholeOf(i), PartOf(i)}
                           /\ pc[i] = f
                           /\ ~Exists(f) \/ (f = "audit_head" /\ files'[f] = WholeOf(i))
\* ... or commits the database; a daemon creates the lock file;
Committed(f) ==
    f = "db" /\ \E i \in Initializer : files'[f] = WholeOf(i) /\ pc[i] = "commit"
Locked(f) ==
    f = "lock" /\ ~Exists(f) /\ \E o \in Opener : files'[f] = WholeOf(o) /\ opc[o] = "lock"
\* a record is lost, or a database put in place.
Damaged(f) ==
    /\ tampered'
    /\ \/ f \in Record /\ files'[f] = PartOf(None)
       \/ f = "db" /\ ~Exists(f) /\ \E v \in {Legacy, Foreign} : files'[f] = WholeOf(v)

\* All that a step can do to a path.
LEMMA Changes ==
    ASSUME TypeOK, [Next]_vars, NEW f \in File
    PROVE  files'[f] = files[f] \/ Created(f) \/ Committed(f) \/ Locked(f) \/ Damaged(f)
<1> USE DEF File, Record, Private
<1>0. files \in [File -> Entry]
  BY DEF TypeOK, Entry
<1>1. CASE UNCHANGED files
  BY <1>1
<1>2. ASSUME NEW i \in Initializer, NEW g \in {"claim"} \cup Private, Create(i, g)
      PROVE  files'[f] = files[f] \/ Created(f)
  BY <1>0, <1>2, Entries DEF Create, Created, Creatable
<1>3. ASSUME NEW i \in Initializer, NEW g \in Record \cup {"audit_key", "control", "agent_cap"},
             CreatePart(i, g)
      PROVE  files'[f] = files[f] \/ Created(f)
  BY <1>0, <1>3, Entries DEF CreatePart, Created
<1>4. ASSUME NEW i \in Initializer, Commit(i)
      PROVE  files'[f] = files[f] \/ Committed(f)
  BY <1>0, <1>4 DEF Commit, Committed
<1>5. ASSUME NEW i \in Initializer, Complete(i)
      PROVE  files'[f] = files[f] \/ Created(f)
  BY <1>0, <1>5 DEF Complete, Created
<1>6. ASSUME NEW o \in Opener, OpenLock(o)
      PROVE  files'[f] = files[f] \/ Locked(f)
  BY <1>0, <1>6 DEF OpenLock, Locked
<1>7. ASSUME NEW r \in Record, LoseRecord(r)
      PROVE  files'[f] = files[f] \/ Damaged(f)
  BY <1>0, <1>7 DEF LoseRecord, Damaged
<1>8. ASSUME NEW v \in {Legacy, Foreign}, PutDatabase(v)
      PROVE  files'[f] = files[f] \/ Damaged(f)
  BY <1>0, <1>8 DEF PutDatabase, Damaged
<1> QED BY <1>1, <1>2, <1>3, <1>4, <1>5, <1>6, <1>7, <1>8
        DEF Next, vars, InitializerStep, Look, Recheck, Verify, Reread, Stop, ReadState,
            SeeDatabase, Admit

\* Initializer i goes on to its next step.
Advanced(i) ==
    /\ pc[i] \in Step \ {"done", "failed"}
    /\ pc'[i] = After(pc[i])
    /\ pc[i] \in {"claim"} \cup Private =>
          /\ files'[pc[i]].by = i
          /\ pc[i] # "db" => files'[pc[i]] = WholeOf(i)
    /\ pc[i] = "commit" => files'["db"] = WholeOf(i)

\* All that a step can do to an initializer: it stays, fails or goes on.
LEMMA Advances ==
    ASSUME TypeOK, [Next]_vars, NEW i \in Initializer
    PROVE  pc'[i] = pc[i] \/ pc'[i] = "failed" \/ Advanced(i)
<1>0. files \in [File -> Entry] /\ pc \in [Initializer -> Step]
  BY DEF TypeOK, Entry
<1>1. CASE UNCHANGED pc
  BY <1>1
<1> USE DEF Advanced, Continue, Step
<1>2. ASSUME NEW j \in Initializer, Look(j) \/ Recheck(j) \/ Verify(j) \/ Complete(j) \/ Reread(j)
      PROVE  pc'[i] = pc[i] \/ pc'[i] = "failed" \/ Advanced(i)
  BY <1>0, <1>2 DEF Look, Recheck, Verify, Complete, Reread, Private
<1>3. ASSUME NEW j \in Initializer, NEW g \in {"claim"} \cup Private, Create(j, g)
      PROVE  pc'[i] = pc[i] \/ Advanced(i)
  BY <1>0, <1>3, Entries DEF Create, Private, Record, File
<1>4. ASSUME NEW j \in Initializer, NEW g \in Record \cup {"audit_key", "control", "agent_cap"},
             CreatePart(j, g)
      PROVE  pc'[i] = pc[i] \/ pc'[i] = "failed"
  BY <1>0, <1>4 DEF CreatePart
<1>5. ASSUME NEW j \in Initializer, Commit(j)
      PROVE  pc'[i] = pc[i] \/ Advanced(i)
  BY <1>0, <1>5 DEF Commit, Private, Record, File
<1>6. ASSUME NEW j \in Initializer, Stop(j)
      PROVE  pc'[i] = pc[i] \/ pc'[i] = "failed"
  BY <1>0, <1>6 DEF Stop
<1> QED BY <1>1, <1>2, <1>3, <1>4, <1>5, <1>6
        DEF Next, vars, InitializerStep, ReadState, SeeDatabase, OpenLock, Admit, LoseRecord,
            PutDatabase

\* Daemon o goes on to its next step.
Proceeded(o) ==
    /\ opc[o] \in OpenerStep \ {"admitted", "refused"}
    /\ opc'[o] = Onward(opc[o])
    /\ opc[o] \in {"serve_db", "store_db"} => Exists("db")
    /\ opc[o] \in {"serve", "serve_again", "store", "store_again"} => InitializationState # "incomplete"
    /\ opc[o] = "admit" => files["audit_key"].whole /\ files["db"].whole /\ Bound(o)

\* All that a step can do to a daemon and to the id it has seen.
LEMMA Proceeds ==
    ASSUME TypeOK, [Next]_vars, NEW o \in Opener
    PROVE  /\ \/ opc'[o] = opc[o]
              \/ opc'[o] = "refused"
              \/ Proceeded(o) /\ (opc[o] = "lock" \/ files' = files)
           /\ marker'[o] = marker[o] \/ (marker'[o] = InitializationState /\ files' = files)
<1>0. opc \in [Opener -> OpenerStep] /\ marker \in [Opener -> Initializer \cup {None, "incomplete"}]
  BY DEF TypeOK
<1>1. CASE UNCHANGED <<opc, marker>>
  BY <1>1
<1> USE DEF Proceeded, Proceed, OpenerStep
<1>2. ASSUME NEW p \in Opener, ReadState(p)
      PROVE  /\ opc'[o] = opc[o] \/ opc'[o] = "refused" \/ (Proceeded(o) /\ files' = files)
             /\ marker'[o] = marker[o] \/ (marker'[o] = InitializationState /\ files' = files)
  BY <1>0, <1>2 DEF ReadState
<1>3. ASSUME NEW p \in Opener, SeeDatabase(p)
      PROVE  /\ opc'[o] = opc[o] \/ opc'[o] = "refused" \/ (Proceeded(o) /\ files' = files)
             /\ marker'[o] = marker[o]
  BY <1>0, <1>3 DEF SeeDatabase
<1>4. ASSUME NEW p \in Opener, OpenLock(p)
      PROVE  /\ opc'[o] = opc[o] \/ (Proceeded(o) /\ opc[o] = "lock")
             /\ marker'[o] = marker[o]
  BY <1>0, <1>4 DEF OpenLock
<1>5. ASSUME NEW p \in Opener, Admit(p)
      PROVE  /\ opc'[o] = opc[o] \/ opc'[o] = "refused" \/ (Proceeded(o) /\ files' = files)
             /\ marker'[o] = marker[o]
  BY <1>0, <1>5 DEF Admit
<1> QED BY <1>1, <1>2, <1>3, <1>4, <1>5
        DEF Next, vars, InitializerStep, Look, Recheck, Commit, Verify, Complete, Reread,
            Stop, Create, CreatePart, LoseRecord, PutDatabase

\* What the records say: nothing, that they are incomplete, or the id of an
\* initializer that has made everything.
LEMMA FoundState ==
    ASSUME Completed
    PROVE  \/ InitializationState = None /\ ~Exists("claim") /\ ~Exists("complete")
           \/ InitializationState = "incomplete"
           \/ /\ InitializationState = files["claim"].by
              /\ files["claim"].whole /\ files["complete"] = files["claim"] /\ Exists("complete")
              /\ InitializationState \in Initializer
  BY Setup DEF InitializationState, Completed, Exists, Record

\* The variables keep their types, and what was tampered with stays so.
LEMMA Types ==
    ASSUME TypeOK, Completed, [Next]_vars
    PROVE  /\ files' \in [File -> Entry]
           /\ pc' \in [Initializer -> Step]
           /\ opc' \in [Opener -> OpenerStep]
           /\ marker' \in [Opener -> Initializer \cup {None, "incomplete"}]
           /\ tampered' \in BOOLEAN /\ (tampered => tampered')
<1>0. /\ files \in [File -> Entry] /\ pc \in [Initializer -> Step] /\ opc \in [Opener -> OpenerStep]
      /\ marker \in [Opener -> Initializer \cup {None, "incomplete"}] /\ tampered \in BOOLEAN
  BY DEF TypeOK, Entry
<1>1. files' \in [File -> Entry]
  <2>1. \E g \in File, e \in Entry : files' = [files EXCEPT ![g] = e] \/ files' = files
    <3>1. \A v : v \in Vault \cup Opener \cup {None} => WholeOf(v) \in Entry /\ PartOf(v) \in Entry
      BY Entries
    <3> QED BY <1>0, <3>1 DEF Next, vars, InitializerStep, Look, Recheck, Commit, Verify,
                              Complete, Reread,
            Stop, Create, CreatePart, ReadState, SeeDatabase, OpenLock, Admit, LoseRecord,
            PutDatabase, File, Record, Private, Vault
  <2> QED BY <1>0, <2>1
<1>2. pc' \in [Initializer -> Step]
  <2>1. ASSUME NEW i \in Initializer, InitializerStep(i)
        PROVE  \E label \in Step : pc' = [pc EXCEPT ![i] = label]
    <3>1. ASSUME NEW check, pc[i] \in Step \ {"done", "failed"}, Continue(i, check)
          PROVE  \E label \in Step : pc' = [pc EXCEPT ![i] = label]
      <4>1. After(pc[i]) \in Step /\ "failed" \in Step
        BY <1>0, <3>1, Steps DEF Step
      <4>2. pc' = [pc EXCEPT ![i] = IF check THEN After(pc[i]) ELSE "failed"]
        BY <1>0, <3>1 DEF Continue
      <4> QED BY <4>1, <4>2
    <3>2. CASE Stop(i) \/ \E g \in Record \cup {"audit_key", "control", "agent_cap"} : CreatePart(i, g)
      BY <3>2 DEF Stop, CreatePart, Step
    <3>3. CASE \E g \in {"claim"} \cup Private : Create(i, g)
      BY <3>1, <3>3 DEF Create, Step, Private
    <3>4. CASE Commit(i) \/ Complete(i) \/ Look(i) \/ Recheck(i) \/ Verify(i) \/ Reread(i)
      BY <3>1, <3>4 DEF Commit, Complete, Look, Recheck, Verify, Reread, Step
    <3> QED BY <2>1, <3>2, <3>3, <3>4 DEF InitializerStep
  <2>2. UNCHANGED pc \/ \E i \in Initializer : InitializerStep(i)
    BY DEF Next, vars, ReadState, SeeDatabase, OpenLock, Admit, LoseRecord, PutDatabase
  <2> QED BY <1>0, <2>1, <2>2
<1>3. opc' \in [Opener -> OpenerStep]
  <2>1. ASSUME NEW o \in Opener, ReadState(o) \/ SeeDatabase(o) \/ OpenLock(o) \/ Admit(o)
        PROVE  \E label \in OpenerStep : opc' = [opc EXCEPT ![o] = label]
    <3>1. ASSUME NEW check, opc[o] \in OpenerStep \ {"admitted", "refused"}, Proceed(o, check)
          PROVE  \E label \in OpenerStep : opc' = [opc EXCEPT ![o] = label]
      <4>1. Onward(opc[o]) \in OpenerStep /\ "refused" \in OpenerStep
        BY <1>0, <3>1, Steps DEF OpenerStep
      <4>2. opc' = [opc EXCEPT ![o] = IF check THEN Onward(opc[o]) ELSE "refused"]
        BY <1>0, <3>1 DEF Proceed
      <4> QED BY <4>1, <4>2
    <3> QED BY <2>1, <3>1 DEF ReadState, SeeDatabase, OpenLock, Admit, OpenerStep
  <2>2. UNCHANGED opc \/ \E o \in Opener : ReadState(o) \/ SeeDatabase(o) \/ OpenLock(o) \/ Admit(o)
    BY DEF Next, vars, InitializerStep, Look, Recheck, Commit, Verify, Complete, Reread, Stop,
           Create,
           CreatePart, LoseRecord, PutDatabase
  <2> QED BY <1>0, <2>1, <2>2
<1>4. marker' \in [Opener -> Initializer \cup {None, "incomplete"}]
  <2>1. InitializationState \in Initializer \cup {None, "incomplete"}
    BY FoundState
  <2>2. UNCHANGED marker \/ \E o \in Opener : marker' = [marker EXCEPT ![o] = InitializationState]
    BY DEF Next, vars, InitializerStep, Look, Recheck, Commit, Verify, Complete, Reread, Stop,
           Create,
           CreatePart, ReadState, SeeDatabase, OpenLock, Admit, LoseRecord, PutDatabase
  <2> QED BY <1>0, <2>1, <2>2
<1>5. tampered' \in BOOLEAN /\ (tampered => tampered')
  BY <1>0 DEF Next, vars, InitializerStep, Look, Recheck, Commit, Verify, Complete, Reread,
            Stop, Create, CreatePart, ReadState, SeeDatabase, OpenLock, Admit, LoseRecord,
            PutDatabase
<1> QED BY <1>1, <1>2, <1>3, <1>4, <1>5

-----------------------------------------------------------------------------
(***************************************************************************)
(* What stays as it is.                                                     *)
(***************************************************************************)
\* What is at a path stays there, as whole as it is, but for records that are lost.
LEMMA Kept ==
    ASSUME TypeOK, Made, Owned, [Next]_vars, NEW f \in File, Exists(f)
    PROVE  \/ files'[f].by = files[f].by /\ (files[f].whole => files'[f].whole)
           \/ f \in Record /\ files'[f].by = None /\ tampered'
<1>1. CASE Created(f)
  <2>1. PICK i \in Initializer : f = "audit_head" /\ pc[i] = "audit_head" /\ files'[f] = WholeOf(i)
    BY <1>1 DEF Created
  <2>2. files["caps"] = WholeOf(i)
    BY <2>1 DEF Made, PastCaps, PastKey, PastControl, PastDb, PastAgentCap, PastCommit
  <2>3. files["audit_head"].by = i
    BY <2>1, <2>2, Entries DEF Owned
  <2> QED BY <2>1, <2>3, Entries
<1>2. CASE Committed(f)
  <2>1. PICK i \in Initializer : f = "db" /\ pc[i] = "commit" /\ files'[f] = WholeOf(i)
    BY <1>2 DEF Committed
  <2>2. files["db"].by = i
    BY <2>1 DEF Made, PastDb, PastAgentCap
  <2> QED BY <2>1, <2>2, Entries
<1>3. CASE Damaged(f)
  BY <1>3, Entries DEF Damaged
<1>4. CASE Locked(f)
  BY <1>4 DEF Locked
<1> QED BY <1>1, <1>2, <1>3, <1>4, Changes

\* So whole files stay whole,
LEMMA Stays ==
    ASSUME TypeOK, Made, Owned, Completed, [Next]_vars, NEW f \in File \ Record, NEW v, v # None,
           files[f] = WholeOf(v)
    PROVE  files'[f] = WholeOf(v)
<1>1. files'[f].by = v /\ files'[f].whole
  BY Kept, Entries DEF Exists
<1>2. files'[f] \in Entry
  BY Types
<1> QED BY <1>1, <1>2, Entries

\* ... and whole homes,
LEMMA StaysWhole ==
    ASSUME TypeOK, Made, Owned, Completed, [Next]_vars, NEW i \in Initializer, Whole(i)
    PROVE  Whole(i)'
  BY Stays, Setup DEF Whole, File, Private, Record

\* ... and the records, unless they are lost.
LEMMA RecordsStay ==
    ASSUME TypeOK, [Next]_vars, NEW r \in Record, Exists(r)
    PROVE  files'[r] = files[r] \/ tampered'
  BY Changes DEF Created, Committed, Locked, Damaged, Record, File

-----------------------------------------------------------------------------
(***************************************************************************)
(* The invariant.                                                           *)
(***************************************************************************)
\* One step, invariant by invariant: initializers find what they have made,
LEMMA MadeKept ==
    ASSUME TypeOK, Made, Owned, Completed, [Next]_vars
    PROVE  Made'
<1> SUFFICES ASSUME NEW i \in Initializer
             PROVE  /\ pc'[i] \in PastCaps => files'["caps"] = WholeOf(i)
                    /\ pc'[i] \in PastKey => files'["audit_key"] = WholeOf(i)
                    /\ pc'[i] \in PastControl => files'["control"] = WholeOf(i)
                    /\ pc'[i] \in PastDb => files'["db"].by = i
                    /\ pc'[i] \in PastAgentCap => files'["agent_cap"] = WholeOf(i)
                    /\ pc'[i] \in PastCommit => files'["db"] = WholeOf(i)
                    /\ pc'[i] \in PastHead => files'["audit_head"] = WholeOf(i)
  BY DEF Made
<1>1. \A f \in Private : files[f] = WholeOf(i) => files'[f] = WholeOf(i)
  BY Stays, Setup DEF Private, File, Record
<1>2. files["db"].by = i => files'["db"].by = i
  BY Kept, Setup DEF Exists, File, Record, Private
<1> USE DEF PastCaps, PastKey, PastControl, PastDb, PastAgentCap, PastCommit, PastHead, Private
<1>3. CASE pc'[i] = pc[i]
  BY <1>1, <1>2, <1>3 DEF Made
<1>4. CASE pc'[i] = "failed"
  BY <1>4
<1>5. CASE Advanced(i)
  <2>1. pc'[i] \in PastCaps => files'["caps"] = WholeOf(i)
    BY <1>1, <1>5, Steps DEF Made, Advanced, Step
  <2>2. pc'[i] \in PastKey => files'["audit_key"] = WholeOf(i)
    BY <1>1, <1>5, Steps DEF Made, Advanced, Step
  <2>3. pc'[i] \in PastControl => files'["control"] = WholeOf(i)
    BY <1>1, <1>5, Steps DEF Made, Advanced, Step
  <2>4. pc'[i] \in PastDb => files'["db"].by = i
    BY <1>2, <1>5, Steps DEF Made, Advanced, Step
  <2>5. pc'[i] \in PastAgentCap => files'["agent_cap"] = WholeOf(i)
    BY <1>1, <1>5, Steps DEF Made, Advanced, Step
  <2>6. pc'[i] \in PastCommit => files'["db"] = WholeOf(i)
    BY <1>1, <1>5, Steps DEF Made, Advanced, Step
  <2>7. pc'[i] \in PastHead => files'["audit_head"] = WholeOf(i)
    BY <1>1, <1>5, Steps DEF Made, Advanced, Step
  <2> QED BY <2>1, <2>2, <2>3, <2>4, <2>5, <2>6, <2>7
<1> QED BY <1>3, <1>4, <1>5, Advances

\* ... the owners of anchor and database remain,
LEMMA OwnedKept ==
    ASSUME TypeOK, Made, Owned, [Next]_vars
    PROVE  Owned'
<1> USE Setup
<1>0. tampered => tampered'
  BY DEF Next, vars, InitializerStep, Look, Recheck, Commit, Verify, Complete, Reread,
            Stop, Create, CreatePart, ReadState, SeeDatabase, OpenLock, Admit, LoseRecord,
            PutDatabase
<1>1. ASSUME NEW f \in File, files'[f].by = None PROVE ~files'[f].whole
  BY <1>1, Changes, Entries DEF Owned, Created, Committed, Locked, Damaged
<1>2. files'["db"].by \in Vault \cup {None} /\ (files'["db"].by = Foreign => tampered')
  BY <1>0, Changes, Entries DEF Owned, Created, Committed, Locked, Damaged, Vault, File, Private,
                                Record
<1>3. ASSUME Exists("audit_head")' PROVE files'["caps"].by = files'["audit_head"].by
  <2>1. CASE Created("audit_head")
    <3>1. PICK i \in Initializer : pc[i] = "audit_head" /\ files'["audit_head"] \in {WholeOf(i), PartOf(i)}
      BY <2>1 DEF Created
    <3>2. files["caps"] = WholeOf(i)
      BY <3>1 DEF Made, PastCaps, PastKey, PastControl, PastDb, PastAgentCap, PastCommit
    <3>3. files'["caps"].by = i
      BY <3>2, Kept, Entries DEF Exists, File, Private, Record
    <3> QED BY <3>1, <3>3, Entries
  <2>2. CASE files'["audit_head"] = files["audit_head"]
    <3>1. files["caps"].by = files["audit_head"].by /\ Exists("caps")
      BY <1>3, <2>2 DEF Owned, Exists
    <3>2. files'["caps"].by = files["caps"].by
      BY <3>1, Kept DEF File, Private, Record
    <3> QED BY <3>1, <3>2, <2>2
  <2> QED BY <2>1, <2>2, Changes DEF Committed, Locked, Damaged, File, Private, Record
<1> QED BY <1>1, <1>2, <1>3 DEF Owned

\* ... the claim is its initializer's,
LEMMA ClaimedKept ==
    ASSUME TypeOK, Claimed, Completed, [Next]_vars
    PROVE  Claimed'
<1> SUFFICES ASSUME NEW i \in Initializer, pc'[i] \in PastClaim, ~tampered'
             PROVE  files'["claim"] = WholeOf(i)
  BY DEF Claimed
<1>1. ~tampered
  BY Types
<1>2. CASE pc[i] \in PastClaim
  <2>1. files["claim"] = WholeOf(i)
    BY <1>1, <1>2 DEF Claimed
  <2> QED BY <2>1, RecordsStay, Entries, Setup DEF Exists, Record
<1>3. CASE pc[i] \notin PastClaim
  <2>1. Advanced(i) /\ pc[i] = "claim"
    BY <1>3, Advances, Steps DEF Advanced, Step, PastClaim, PastCaps, PastKey, PastControl,
                                 PastDb, PastAgentCap,
       PastCommit, PastHead
  <2> QED BY <2>1 DEF Advanced
<1> QED BY <1>2, <1>3

\* ... private files are of the initialization that has the claim,
LEMMA TypeKept ==
    ASSUME TypeOK, Made, Owned, Claimed, Completed, [Next]_vars
    PROVE  TypeOK'
<1>1. ASSUME NEW f \in Private, files'[f].by \in Initializer, ~tampered'
      PROVE  files'["claim"].by = files'[f].by
  <2>0. ~tampered
    BY <1>1, Types
  <2>1. \A i \in Initializer : files["claim"].by = i => files'["claim"].by = i
    BY <1>1, RecordsStay, Setup DEF Exists, Record
  <2>2. ASSUME NEW i \in Initializer, pc[i] \in PastClaim
        PROVE  files["claim"].by = i
    BY <2>0, <2>2, Entries DEF Claimed
  <2>3. CASE files'[f] = files[f]
    BY <2>0, <2>1, <2>3, <1>1 DEF TypeOK
  <2>4. CASE Created(f)
    <3>1. PICK i \in Initializer : pc[i] = f /\ files'[f] \in {WholeOf(i), PartOf(i)}
      BY <2>4 DEF Created
    <3>2. pc[i] \in PastClaim
      BY <3>1 DEF Private, PastClaim, PastCaps, PastKey, PastControl, PastDb, PastAgentCap,
                  PastCommit, PastHead
    <3> QED BY <2>1, <2>2, <3>1, <3>2, Entries
  <2>5. CASE Committed(f)
    <3>1. PICK i \in Initializer : pc[i] = "commit" /\ files'[f] = WholeOf(i)
      BY <2>5 DEF Committed
    <3>2. pc[i] \in PastClaim
      BY <3>1 DEF Private, PastClaim, PastCaps, PastKey, PastControl, PastDb, PastAgentCap,
                  PastCommit, PastHead
    <3> QED BY <2>1, <2>2, <3>1, <3>2, Entries
  <2> QED BY <1>1, <2>3, <2>4, <2>5, Changes DEF Locked, Damaged, Private, File
<1> QED BY <1>1, Types DEF TypeOK, Entry

\* ... completion means that everything is whole,
LEMMA CompletedKept ==
    ASSUME TypeOK, Made, Owned, Completed, [Next]_vars
    PROVE  Completed'
<1> SUFFICES ASSUME Exists("complete")'
             PROVE  files'["complete"].by \in Initializer /\ Whole(files["complete"].by)'
  BY DEF Completed
<1>1. CASE files'["complete"] = files["complete"]
  <2>1. files["complete"].by \in Initializer /\ Whole(files["complete"].by)
    BY <1>1 DEF Completed, Exists
  <2>2. PICK i \in Initializer : i = files["complete"].by
    BY <2>1
  <2>3. Whole(i)'
    BY <2>1, <2>2, StaysWhole
  <2> QED BY <1>1, <2>2, <2>3 DEF Whole
<1>2. CASE Created("complete")
  <2>1. PICK i \in Initializer : pc[i] = "complete" /\ files'["complete"] \in {WholeOf(i), PartOf(i)}
    BY <1>2 DEF Created
  <2>2. Whole(i)
    BY <2>1 DEF Made, Whole, Private, PastCaps, PastKey, PastControl, PastDb, PastAgentCap,
                PastCommit, PastHead
  <2>3. Whole(i)'
    BY <2>2, StaysWhole
  <2>4. files'["complete"].by = i
    BY <2>1, Entries
  <2> QED BY <2>3, <2>4 DEF Whole
<1>3. CASE Damaged("complete")
  BY <1>3, Entries DEF Damaged, Exists
<1> QED BY <1>1, <1>2, <1>3, Changes DEF Committed, Locked, File, Record

\* ... an initialized home stays one,
LEMMA SettledStays ==
    ASSUME BootInv, [Next]_vars, Settled
    PROVE  Settled'
<1> USE DEF BootInv
<1>1. CASE tampered
  BY <1>1, Types DEF Settled
<1>2. CASE files["db"].by = Legacy
  BY <1>2, Kept, Setup DEF Settled, Exists, File, Private, Record
<1>3. CASE files["complete"].whole
  <2>1. Exists("complete")
    BY <1>3 DEF Owned, Exists, File, Record
  <2> QED BY <1>3, <2>1, RecordsStay DEF Settled, Record
<1> QED BY <1>1, <1>2, <1>3 DEF Settled

\* ... what daemons have seen stays true,
LEMMA SeenKept ==
    ASSUME BootInv, [Next]_vars
    PROVE  Seen'
<1> USE DEF BootInv
<1>1. ASSUME NEW o \in Opener, marker'[o] \in Initializer
      PROVE  Whole(marker[o])'
  <2>1. PICK i \in Initializer : marker'[o] = i
    BY <1>1
  <2>2. Whole(i)
    <3>1. CASE marker'[o] = marker[o]
      BY <2>1, <3>1 DEF Seen
    <3>2. CASE marker'[o] = InitializationState
      BY <2>1, <3>2, FoundState, Setup DEF Completed
    <3> QED BY <3>1, <3>2, Proceeds
  <2>3. Whole(i)'
    BY <2>2, StaysWhole
  <2> QED BY <2>1, <2>3 DEF Whole
<1>2. Exists("db") => Exists("db")'
  BY Kept DEF Exists, File, Private, Record
<1>3. Settled => Settled'
  BY SettledStays
<1>4. Exists("db") /\ InitializationState # "incomplete" => Settled
  <2>1. CASE InitializationState = None /\ ~Exists("claim")
    BY <2>1, Setup DEF Exists, Owned, TypeOK, Settled, Private, Vault
  <2>2. CASE files["claim"].whole /\ files["complete"] = files["claim"]
    BY <2>2 DEF Settled
  <2> QED BY <2>1, <2>2, FoundState
<1>5. ASSUME NEW o \in Opener
      PROVE  /\ opc'[o] \in OpenerStep \ {"serve", "serve_db", "refused"} => Exists("db")'
             /\ opc'[o] \in OpenerStep \ {"serve", "serve_db", "serve_again", "refused"} => Settled'
  <2>1. CASE opc'[o] = opc[o]
    BY <2>1, <1>2, <1>3 DEF Seen
  <2>2. CASE Proceeded(o)
    <3>1. opc'[o] \in OpenerStep \ {"serve", "serve_db", "refused"} => Exists("db")
      BY <2>2, Steps DEF Seen, Proceeded, OpenerStep
    <3>2. opc'[o] \in OpenerStep \ {"serve", "serve_db", "serve_again", "refused"} => Settled
      BY <2>2, <1>4, Steps DEF Seen, Proceeded, OpenerStep
    <3> QED BY <3>1, <3>2, <1>2, <1>3
  <2> QED BY <2>1, <2>2, Proceeds
<1> QED BY <1>1, <1>5 DEF Seen

\* ... a lock file is only in an initialized home,
LEMMA LockKept ==
    ASSUME BootInv, [Next]_vars
    PROVE  LockOnlyInWholeHome'
<1> USE DEF BootInv
<1> SUFFICES ASSUME Exists("lock")' PROVE Settled'
  BY DEF LockOnlyInWholeHome, Settled
<1>1. Settled
  <2>1. CASE files'["lock"] = files["lock"]
    BY <2>1 DEF LockOnlyInWholeHome, Exists, Settled
  <2>2. CASE Locked("lock")
    BY <2>2 DEF Locked, Seen, OpenerStep
  <2> QED BY <2>1, <2>2, Changes DEF Created, Committed, Damaged, File, Record, Private
<1> QED BY <1>1, SettledStays

\* ... and who was admitted was so to a whole home.
LEMMA AdmittedKept ==
    ASSUME BootInv, [Next]_vars
    PROVE  AdmittedIsWhole'
<1> USE DEF BootInv
<1> SUFFICES ASSUME NEW o \in Opener, opc'[o] = "admitted"
             PROVE  files'["db"].by = Legacy \/ \E i \in Initializer : Whole(i)'
  BY DEF AdmittedIsWhole, Whole
<1>1. files["db"].by = Legacy \/ \E i \in Initializer : Whole(i)
  <2>1. CASE opc[o] = "admitted"
    BY <2>1 DEF AdmittedIsWhole, Whole
  <2>2. CASE opc[o] # "admitted"
    <3>1. Proceeded(o) /\ opc[o] = "admit"
      BY <2>2, Proceeds, Steps DEF Proceeded, OpenerStep
    <3>2. files["db"].whole /\ Bound(o) /\ files["db"].by \in Vault
      BY <3>1 DEF Proceeded, Owned, File, Private
    <3>3. files["db"].by # Legacy => marker[o] = files["db"].by
      BY <3>2 DEF Bound
    <3>4. marker[o] # Foreign
      BY Setup DEF TypeOK
    <3> QED BY <3>2, <3>3, <3>4 DEF Vault, Seen
  <2> QED BY <2>1, <2>2
<1>2. files["db"].by = Legacy => files'["db"].by = Legacy
  BY Kept, Setup DEF Exists, File, Private, Record
<1> QED BY <1>1, <1>2, StaysWhole

\* The invariant holds at first, in a new home and in a legacy one,
LEMMA Initially == Init => BootInv
<1> SUFFICES ASSUME Init PROVE BootInv
  OBVIOUS
<1> USE Setup
<1>1. PICK v \in {None, Legacy} :
         files = [f \in File |-> IF v = Legacy /\ f \in Private THEN WholeOf(Legacy) ELSE PartOf(None)]
  BY DEF Init
<1>2. /\ \A f \in File : files[f] = IF v = Legacy /\ f \in Private THEN WholeOf(Legacy) ELSE PartOf(None)
      /\ files \in [File -> Entry]
  BY <1>1, Entries DEF Vault
<1>3. /\ \A f \in Private : files[f].by = (IF v = Legacy THEN Legacy ELSE None)
      /\ \A f \in File \ Private : files[f].by = None
      /\ \A f \in File : files[f].by = None => ~files[f].whole
  BY <1>2, Entries DEF File
<1>4. TypeOK
  BY <1>2, <1>3 DEF Init, TypeOK, Entry, Step, OpenerStep
<1>5. Made /\ Claimed
  BY DEF Init, Made, Claimed, PastClaim, PastCaps, PastKey, PastControl, PastDb, PastAgentCap,
         PastCommit, PastHead
<1>6. Owned
  BY <1>3 DEF Owned, Exists, Private, File, Vault
<1>7. Completed /\ LockOnlyInWholeHome
  BY <1>3 DEF Completed, LockOnlyInWholeHome, Exists, File, Private, Record
<1>8. Seen /\ AdmittedIsWhole
  BY DEF Init, Seen, AdmittedIsWhole
<1> QED BY <1>4, <1>5, <1>6, <1>7, <1>8 DEF BootInv

\* ... and after every step.
LEMMA NextKeeps == BootInv /\ [Next]_vars => BootInv'
<1> SUFFICES ASSUME BootInv, [Next]_vars PROVE BootInv'
  OBVIOUS
<1> QED BY TypeKept, MadeKept, OwnedKept, ClaimedKept, CompletedKept, SeenKept, LockKept,
           AdmittedKept DEF BootInv

\* The inductive invariant of initialization and admission.
THEOREM Invariant == Spec => []BootInv
<1>1. Init => BootInv
  BY Initially
<1>2. BootInv /\ [Next]_vars => BootInv'
  BY NextKeeps
<1> QED BY <1>1, <1>2, PTL DEF Spec

-----------------------------------------------------------------------------
(***************************************************************************)
(* What follows from it.                                                    *)
(***************************************************************************)
\* Files and progress keep their types; and what is private is only ever created
\* by the initialization that has the home's claim, unless records are lost.
THEOREM TypeCorrect == Spec => []TypeOK
<1>1. BootInv => TypeOK
  BY DEF BootInv
<1> QED BY <1>1, Invariant, PTL

\* Whatever races, stops and failures there are, what is published by its
\* completion record, locked, or served is whole (Store.bootstrap, DaemonLock and
\* Store.__init__), also after records were lost or a database was put in place.
THEOREM HomesWhole == Spec => []HomesAreWhole
<1>1. BootInv => HomesAreWhole
  BY DEF BootInv, Completed, Whole, PublishedIsWhole, HomesAreWhole
<1> QED BY <1>1, Invariant, PTL

\* No step replaces or takes over a file: exclusive creation, and the order of
\* the steps for the anchor that may be replaced.
THEOREM FilesStay == Spec => NothingReplaced
<1>1. BootInv /\ [Next]_vars =>
        [\A f \in File : Exists(f) =>
            \/ files'[f].by = files[f].by /\ (files[f].whole => files'[f].whole)
            \/ f \in Record /\ files'[f].by = None]_vars
  BY Kept DEF BootInv
<1> QED BY <1>1, Invariant, PTL DEF Spec, NothingReplaced

=============================================================================
