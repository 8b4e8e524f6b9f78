----------------------- MODULE HistoryRecovery_proofs -----------------------
(* What HistoryRecovery promises holds for any number of history choices,       *)
(* failing steps and crashes.                                                    *)
EXTENDS HistoryRecovery, TLAPS

(* ------------------------------------------------------------------------- *)
(* The inductive invariant.                                                      *)
(* ------------------------------------------------------------------------- *)
PreSnapshot == {"stop", "publish_stop", "probe", "withdraw", "recheck", "register",
                "copy", "activate"}
Trees == {"tree_remove", "tree_copy", "restore_config"}
Cleaning == {"expire", "remove", "empty"}
EntryPoints == {"entry_remove", "entry_copy"}
Points == PreSnapshot \cup Trees \cup Cleaning \cup EntryPoints
            \cup {"idle", "manifest", "intend", "lease", "write", "publish", "complete",
                  "handoff", "compensate", "quiesce", "intend_restore", "open_manifest",
                  "settle", "spend", "clear", "retry", "retry_empty", "finalize",
                  "replay_complete", "route"}

TypeInv ==
  /\ TypeOK
  /\ pc \in Points
  /\ note \in {"none", "exact_stopped", "not_stopped", "unknown", "capture", "success",
               "early"}
  /\ pc = "publish_stop" => note \in {"exact_stopped", "not_stopped", "unknown"}

Quiet == science = "stopped" /\ ~managed
Holding(phases) == record # None /\ record = hand /\ hand.phase \in phases
Saved(stages) == /\ registry = Registered(op)
                 /\ snapshot # None /\ snapshot.op = op /\ snapshot.stage \in stages
                 /\ snapshot.image = before
Reached(values) == \A i \in 1 .. 4 : i < pos => creds[Kinds[i]] = values[Kinds[i]]
Pending(values) == \A i \in 1 .. 4 : i >= pos => creds[Kinds[i]] = values[Kinds[i]]

WritePhases == {"history_credential_write_pending", "history_authority_restore_pending"}

(* What is on disk, whoever is at work or died.                                  *)
DiskInv ==
  /\ JournalIsTrue
  /\ record # None /\ record.phase = "stop_old_science" => creds = before \/ early
  /\ record = None => Whole \/ early

(* The restore command on its way.                                               *)
CommandInv ==
  /\ pc \in PreSnapshot \cup {"manifest", "intend", "lease", "write", "publish", "complete",
                              "compensate"} \cup Trees \cup Cleaning => by = "restore"
  /\ pc \in PreSnapshot => Holding({"stop_old_science"}) /\ creds = before
  /\ pc = "publish_stop" /\ ~failed => Quiet
  /\ pc = "probe" => ~managed
  /\ pc \in {"recheck", "register", "copy", "activate", "manifest", "intend", "lease",
             "write", "publish", "compensate"} \cup Trees \cup EntryPoints
        \cup {"intend_restore", "open_manifest"} => Quiet
  /\ pc = "copy" => /\ registry = Registered(op) /\ snapshot # None /\ snapshot.op = op
                    /\ note = "capture"
  /\ pc = "activate" => Saved({"captured"})
  /\ pc \in {"manifest", "intend"} =>
       /\ Holding({"authority_snapshot_active"}) /\ creds = before
       /\ Saved(IF pc = "manifest" THEN {"captured"} ELSE {"manifest"})
  /\ pc \in {"lease", "write", "publish"} => Holding({"history_credential_write_pending"})
  /\ pc = "lease" => creds = before
  /\ pc = "write" => Reached(Chosen) /\ Pending(before)
  /\ pc = "publish" => creds = Chosen
  /\ pc = "complete" => Holding({"history_credential_published"})

(* Its cleanup, which knows what it belongs to.                                  *)
CleaningInv ==
  pc \in Cleaning =>
    \/ note = "capture" /\ Holding({"stop_old_science"}) /\ creds = before
    \/ note = "success" /\ Holding({"history_credential_published"})
    \/ note = "early" /\ record = None /\ creds = before

(* Its compensation, before the intent to write.                                 *)
TreesInv ==
  /\ pc = "compensate" =>
       /\ hand # None /\ hand.op = op
       /\ record = hand =>
            /\ hand.phase \in {"stop_old_science", "authority_snapshot_active",
                               "history_credential_write_pending"}
            /\ Saved({"captured", "manifest"})
            /\ hand.phase # "history_credential_write_pending" => creds = before
  /\ pc \in Trees =>
       /\ Holding({"stop_old_science", "authority_snapshot_active"})
       /\ Saved({"captured", "manifest"})
  /\ pc \in {"tree_remove", "tree_copy"} => failed \/ Reached(before)
  /\ pc = "tree_copy" => Present
  /\ pc \in {"tree_copy", "restore_config"} => early
  /\ pc = "tree_remove" => early \/ creds = before
  /\ pc = "restore_config" => failed \/ creds = before

(* The restore under an intent, and the replay.                                  *)
ReplayInv ==
  /\ pc = "quiesce" => Holding(WritePhases)
  /\ pc = "intend_restore" => Holding({"history_credential_write_pending"})
  /\ pc \in {"open_manifest", "settle"} \cup EntryPoints =>
       Holding({"history_authority_restore_pending"})
  /\ pc \in EntryPoints => Reached(before)
  /\ pc = "entry_copy" => Present
  /\ pc = "settle" => creds = before
  /\ pc = "spend" => Holding({"authority_snapshot_active", "history_authority_restore_succeeded"})
  /\ pc = "clear" => Holding({"stop_old_science", "authority_snapshot_active",
                              "history_authority_restore_succeeded"})
  /\ pc \in {"spend", "clear"} /\ by = "restore" =>
       hand.phase = "history_authority_restore_succeeded"
  /\ pc \in {"retry", "retry_empty", "route"} => record = None
  /\ pc \in {"retry", "retry_empty"} /\ by = "restore" => creds = before
  /\ pc \in {"finalize", "replay_complete"} =>
       Holding({"history_credential_published"}) /\ by = "one_click"
  /\ pc = "handoff" => Holding({"resume_after_history_restore"})

Inv == TypeInv /\ DiskInv /\ CommandInv /\ CleaningInv /\ TreesInv /\ ReplayInv
       /\ AnswersAreTrue

(* The four kinds are the entries, each once.                                *)
LEMMA KindsFacts ==
  /\ Len(Kinds) = 4 /\ Kinds \in [1 .. 4 -> Entries]
  /\ \A i, j \in 1 .. 4 : Kinds[i] = Kinds[j] => i = j
  /\ \A e \in Entries : \E i \in 1 .. 4 : Kinds[i] = e
<1>1. Len(Kinds) = 4 /\ Kinds \in [1 .. 4 -> Entries]
  BY DEF Kinds, Entries
<1>2. /\ Kinds[1] = "encryption_key" /\ Kinds[2] = "oauth_tokens"
      /\ Kinds[3] = "active_org" /\ Kinds[4] = "virtual_org_marker"
  BY DEF Kinds
<1>3. QED
  BY <1>1, <1>2 DEF Entries

(* What the fields of an updated record are.                                     *)
LEMMA RecordChange ==
  ASSUME NEW r \in Records, NEW p \in Phases, NEW b \in BOOLEAN
  PROVE  LET n == [r EXCEPT !.phase = p, !.resume = b]
         IN n \in Records /\ n # None /\ n.op = r.op /\ n.phase = p
<1> DEFINE n == [r EXCEPT !.phase = p, !.resume = b]
<1>1. n \in Records
  BY DEF Records
<1>2. n.op = r.op /\ n.phase = p
  BY DEF Records
<1>3. QED
  BY <1>1, <1>2, NoneAssumption

(* The captured snapshot is one.                                             *)
LEMMA SnapshotChange ==
  ASSUME NEW s \in Snapshots, NEW t \in Stages, NEW c \in Images
  PROVE  [s EXCEPT !.stage = t, !.image = c] \in Snapshots
BY DEF Snapshots

(* The fresh root is registered before anything is in it.                    *)
LEMMA BareSnapshot ==
  ASSUME NEW o \in 1 .. MaxOps, NEW n,
         n = [op |-> o, stage |-> "bare", image |-> [e \in Entries |-> None]]
  PROVE  n \in Snapshots /\ n # None /\ n.op = o
<1>1. [e \in Entries |-> None] \in Images
  BY DEF Images, Values
<1>2. n \in Snapshots
  BY <1>1 DEF Snapshots, Stages
<1>3. QED
  BY <1>2, NoneAssumption

(* The operation a record is of is the last one.                                 *)
LEMMA HeldRecord ==
  ASSUME Inv, record # None
  PROVE  /\ record \in Records /\ record.op = op /\ op \in 1 .. MaxOps
         /\ op \in 0 .. MaxOps
<1>1. record \in Records /\ record.op = op /\ op \in 0 .. MaxOps
  BY DEF Inv, TypeInv, TypeOK, DiskInv, JournalIsTrue
<1>2. record.op \in 1 .. MaxOps
  BY <1>1 DEF Records
<1>3. QED
  BY <1>1, <1>2

(* The entry a command works on is one of the four.                          *)
LEMMA AtEntry ==
  ASSUME TypeOK
  PROVE  /\ pos \in 1 .. 4 /\ Entry \in Entries /\ Len(Kinds) = 4
         /\ pos # 4 => pos + 1 \in 1 .. 4
         /\ \A i \in 1 .. 4 : Kinds[i] \in Entries /\ (Kinds[i] = Entry => i = pos)
BY KindsFacts DEF TypeOK, Entry

(* What a write of one entry leaves of the others.                           *)
LEMMA EntryChange ==
  ASSUME creds \in Images, NEW e \in Entries, NEW v \in Values,
         creds' = [creds EXCEPT ![e] = v]
  PROVE  /\ creds' \in Images /\ creds'[e] = v
         /\ \A f \in Entries : f # e => creds'[f] = creds[f]
BY DEF Images

(* When every entry has been reached the images are equal.                   *)
LEMMA AllReached ==
  ASSUME NEW c \in Images, NEW d \in Images, \A i \in 1 .. 4 : c[Kinds[i]] = d[Kinds[i]]
  PROVE  c = d
<1>1. \A e \in Entries : c[e] = d[e]
  BY KindsFacts
<1>2. QED
  BY <1>1 DEF Images

(* The chosen history is an image of the entries.                            *)
LEMMA ChosenType ==
  ASSUME TypeOK
  PROVE  Chosen \in Images /\ \A e \in Entries : Chosen[e] = Written(e, before[e], op)
<1>1. \A e \in Entries : before[e] \in Values
  BY DEF TypeOK, Images
<1>2. op \in Values
  BY DEF TypeOK, Values
<1>3. \A e \in Entries : Written(e, before[e], op) \in Values
  BY <1>1, <1>2 DEF Written
<1>4. QED
  BY <1>3 DEF Chosen, Images

(* A step that changes one entry keeps what the earlier entries have reached.   *)
LEMMA ReachedStep ==
  ASSUME TypeOK, NEW v, Reached(v),
         \A f \in Entries : f # Entry => creds'[f] = creds[f]
  PROVE  /\ \A i \in 1 .. 4 : i < pos => creds'[Kinds[i]] = v[Kinds[i]]
         /\ creds'[Entry] = v[Entry] =>
              \A i \in 1 .. 4 : i < pos + 1 => creds'[Kinds[i]] = v[Kinds[i]]
<1>1. /\ pos \in 1 .. 4
      /\ \A i \in 1 .. 4 : Kinds[i] \in Entries /\ (Kinds[i] = Entry => i = pos)
  BY AtEntry
<1>2. \A i \in 1 .. 4 : i < pos => creds'[Kinds[i]] = v[Kinds[i]]
  BY <1>1 DEF Reached
<1>3. ASSUME NEW i \in 1 .. 4, i < pos + 1, creds'[Entry] = v[Entry]
      PROVE  creds'[Kinds[i]] = v[Kinds[i]]
  <2>1. i < pos \/ i = pos
    BY <1>1, <1>3
  <2>2. QED
    BY <1>2, <1>3, <2>1 DEF Entry
<1>4. QED
  BY <1>2, <1>3

(* Finalizing a published record leaves none, or the one a login resumes.       *)
LEMMA FinalizedIs ==
  ASSUME hand \in Records
  PROVE  /\ hand.resume => /\ Finalized \in Records /\ Finalized # None
                           /\ Finalized.op = hand.op
                           /\ Finalized.phase = "resume_after_history_restore"
         /\ ~hand.resume => Finalized = None
<1>1. "resume_after_history_restore" \in Phases /\ FALSE \in BOOLEAN
  BY DEF Phases
<1> DEFINE n == [hand EXCEPT !.phase = "resume_after_history_restore", !.resume = FALSE]
<1>2. n \in Records /\ n # None /\ n.op = hand.op /\ n.phase = "resume_after_history_restore"
  BY <1>1, RecordChange
<1>3. QED
  BY <1>2 DEF Finalized

(* Publishing the credentials changes the phase and nothing the journal says.   *)
LEMMA PublishedIs ==
  ASSUME Inv, hand \in Records
  PROVE  LET n == [hand EXCEPT !.phase = "history_credential_published", !.resume = resume]
         IN n \in Records /\ n # None /\ n.op = hand.op
              /\ n.phase = "history_credential_published"
<1>1. resume \in BOOLEAN /\ "history_credential_published" \in Phases
  BY DEF Inv, TypeInv, TypeOK, Phases
<1>2. QED
  BY <1>1, RecordChange


(* The record a restore begins with.                                             *)
LEMMA NewRecord ==
  ASSUME TypeOK, op < MaxOps, NEW s \in {"intent", "not_required"}
  PROVE  LET n == [op |-> op + 1, phase |-> "stop_old_science", resume |-> FALSE, stop |-> s]
         IN n \in Records /\ n # None
<1> DEFINE n == [op |-> op + 1, phase |-> "stop_old_science", resume |-> FALSE, stop |-> s]
<1>1. op + 1 \in 1 .. MaxOps
  BY HistoryConstants DEF TypeOK
<1>2. n \in Records
  BY <1>1 DEF Records, Phases, StopStates
<1>3. QED
  BY <1>2, NoneAssumption

(* The outcome of the stop is published on the record in hand.                *)
LEMMA PublishStopKeeps ==
  ASSUME Inv, NEW o \in Outcomes, PublishStop(o)
  PROVE  Inv'
<1>1. TypeInv'
  BY KindsFacts, NoneAssumption, HistoryConstants
  DEF Inv, Images, Phases, StopStates, Records, Registries, Stages, Snapshots, app, ghosts,
      Registered, Fails, Cas, Goto, Reply, Advance, At, PublishStop, Chosen, Whole, TypeOK,
      JournalIsTrue, PreSnapshot, Trees, Cleaning, EntryPoints, Points, TypeInv, Quiet,
      Holding, Saved, Reached, Pending, DiskInv, CommandInv
<1>2. DiskInv'
  BY KindsFacts, NoneAssumption
  DEF Inv, Images, Phases, StopStates, Records, Registries, Stages, Snapshots, app, ghosts,
      Registered, Fails, Cas, Goto, Reply, Advance, At, Entry, PublishStop, Present, Chosen,
      Whole, TypeOK, JournalIsTrue, AnswersAreTrue, PreSnapshot, Trees, Cleaning,
      EntryPoints, Points, TypeInv, Quiet, Holding, Saved, Reached, Pending, WritePhases,
      DiskInv, CommandInv, CleaningInv, TreesInv, ReplayInv
<1>3. CommandInv'
  BY KindsFacts, NoneAssumption
  DEF Inv, Images, Phases, StopStates, Records, Registries, Stages, Snapshots, app, ghosts,
      Registered, Fails, Cas, Goto, Reply, Advance, At, Entry, PublishStop, Present, Chosen,
      Whole, TypeOK, JournalIsTrue, AnswersAreTrue, PreSnapshot, Trees, Cleaning,
      EntryPoints, Points, TypeInv, Quiet, Holding, Saved, Reached, Pending, WritePhases,
      DiskInv, CommandInv, CleaningInv, TreesInv, ReplayInv
<1>4. CleaningInv'
  BY NoneAssumption
  DEF Inv, app, ghosts, Fails, Cas, Goto, Reply, Advance, At, PublishStop, Cleaning,
      Holding, CleaningInv
<1>5. TreesInv'
  BY KindsFacts, NoneAssumption
  DEF Inv, app, ghosts, Registered, Fails, Cas, Goto, Reply, Advance, At, Entry,
      PublishStop, Present, Trees, Holding, Saved, Reached, TreesInv
<1>6. ReplayInv'
  BY KindsFacts, NoneAssumption
  DEF Inv, app, ghosts, Fails, Cas, Goto, Reply, Advance, At, Entry, PublishStop, Present,
      EntryPoints, Holding, Reached, WritePhases, ReplayInv
<1>7. AnswersAreTrue'
  BY KindsFacts, NoneAssumption
  DEF Inv, app, ghosts, Registered, Fails, Cas, Goto, Reply, Advance, At, PublishStop,
      Chosen, Whole, JournalIsTrue, AnswersAreTrue, PreSnapshot, Trees, Cleaning,
      EntryPoints, Quiet, Holding, Saved, Reached, Pending, DiskInv, CommandInv
<1>8. QED
  BY <1>1, <1>2, <1>3, <1>4, <1>5, <1>6, <1>7 DEF Inv

(* The probe changes nothing.                                                 *)
LEMMA ProbeQuiescenceKeeps ==
  ASSUME Inv, NEW o \in Outcomes, ProbeQuiescence(o)
  PROVE  Inv'
<1>1. TypeInv'
  BY KindsFacts, NoneAssumption, HistoryConstants
  DEF Inv, Images, Phases, StopStates, Records, Registries, Stages, Snapshots, disk, app,
      local, ghosts, Fails, Goto, At, ProbeQuiescence, TypeOK, PreSnapshot, Trees, Cleaning,
      EntryPoints, Points, TypeInv
<1>2. DiskInv'
  BY NoneAssumption
  DEF Inv, disk, app, local, ghosts, Registered, Fails, Goto, At, ProbeQuiescence, Chosen,
      Whole, JournalIsTrue, DiskInv
<1>3. CommandInv'
  BY KindsFacts, NoneAssumption
  DEF Inv, Images, Phases, StopStates, Records, Registries, Stages, Snapshots, disk, app,
      local, ghosts, Registered, Fails, Goto, At, Entry, ProbeQuiescence, Present, Chosen,
      Whole, TypeOK, JournalIsTrue, AnswersAreTrue, PreSnapshot, Trees, Cleaning,
      EntryPoints, Points, TypeInv, Quiet, Holding, Saved, Reached, Pending, WritePhases,
      DiskInv, CommandInv, CleaningInv, TreesInv, ReplayInv
<1>4. CleaningInv'
  BY NoneAssumption
  DEF Inv, disk, app, local, ghosts, Fails, Goto, At, ProbeQuiescence, Cleaning, Holding,
      CleaningInv
<1>5. TreesInv'
  BY KindsFacts, NoneAssumption
  DEF Inv, disk, app, local, ghosts, Registered, Fails, Goto, At, Entry, ProbeQuiescence,
      Present, Trees, Holding, Saved, Reached, TreesInv
<1>6. ReplayInv'
  BY KindsFacts, NoneAssumption
  DEF Inv, disk, app, local, ghosts, Fails, Goto, At, Entry, ProbeQuiescence, Present,
      EntryPoints, Holding, Reached, WritePhases, ReplayInv
<1>7. AnswersAreTrue'
  BY NoneAssumption
  DEF Inv, disk, app, local, ghosts, Fails, Goto, At, ProbeQuiescence, Chosen,
      AnswersAreTrue
<1>8. QED
  BY <1>1, <1>2, <1>3, <1>4, <1>5, <1>6, <1>7 DEF Inv

(* The record goes while the login before is in place.                        *)
LEMMA WithdrawKeeps ==
  ASSUME Inv, NEW o \in Outcomes, Withdraw(o)
  PROVE  Inv'
<1>1. TypeInv'
  BY KindsFacts, NoneAssumption, HistoryConstants
  DEF Inv, Images, Phases, StopStates, Records, Registries, Stages, Snapshots, app, local,
      ghosts, Fails, Cas, Reply, At, Withdraw, TypeOK, PreSnapshot, Trees, Cleaning,
      EntryPoints, Points, TypeInv
<1>2. DiskInv'
  BY KindsFacts, NoneAssumption
  DEF Inv, app, local, ghosts, Registered, Fails, Cas, Reply, At, Withdraw, Chosen, Whole,
      JournalIsTrue, PreSnapshot, Trees, Cleaning, EntryPoints, Quiet, Holding, Saved,
      Reached, Pending, DiskInv, CommandInv
<1>3. CommandInv'
  BY KindsFacts, NoneAssumption
  DEF Inv, app, local, ghosts, Registered, Fails, Cas, Reply, At, Withdraw, Chosen,
      PreSnapshot, Trees, Cleaning, EntryPoints, Quiet, Holding, Saved, Reached, Pending,
      CommandInv
<1>4. CleaningInv'
  BY NoneAssumption
  DEF Inv, app, local, ghosts, Fails, Cas, Reply, At, Withdraw, Cleaning, Holding,
      CleaningInv
<1>5. TreesInv'
  BY KindsFacts, NoneAssumption
  DEF Inv, app, local, ghosts, Registered, Fails, Cas, Reply, At, Entry, Withdraw, Present,
      Trees, Holding, Saved, Reached, TreesInv
<1>6. ReplayInv'
  BY KindsFacts, NoneAssumption
  DEF Inv, app, local, ghosts, Fails, Cas, Reply, At, Entry, Withdraw, Present, EntryPoints,
      Holding, Reached, WritePhases, ReplayInv
<1>7. AnswersAreTrue'
  BY KindsFacts, NoneAssumption
  DEF Inv, app, local, ghosts, Registered, Fails, Cas, Reply, At, Withdraw, Chosen, Whole,
      JournalIsTrue, AnswersAreTrue, PreSnapshot, Trees, Cleaning, EntryPoints, Quiet,
      Holding, Saved, Reached, Pending, DiskInv, CommandInv
<1>8. QED
  BY <1>1, <1>2, <1>3, <1>4, <1>5, <1>6, <1>7 DEF Inv

(* The second reading changes nothing.                                        *)
LEMMA RecheckKeeps ==
  ASSUME Inv, NEW o \in Outcomes, Recheck(o)
  PROVE  Inv'
<1>1. TypeInv'
  BY KindsFacts, NoneAssumption, HistoryConstants
  DEF Inv, Images, Phases, StopStates, Records, Registries, Stages, Snapshots, disk, app,
      local, ghosts, Fails, Goto, Reply, At, Recheck, TypeOK, PreSnapshot, Trees, Cleaning,
      EntryPoints, Points, TypeInv
<1>2. DiskInv'
  BY NoneAssumption
  DEF Inv, disk, app, local, ghosts, Registered, Fails, Goto, Reply, At, Recheck, Chosen,
      Whole, JournalIsTrue, DiskInv
<1>3. CommandInv'
  BY KindsFacts, NoneAssumption
  DEF Inv, disk, app, local, ghosts, Registered, Fails, Goto, Reply, At, Recheck, Chosen,
      PreSnapshot, Trees, Cleaning, EntryPoints, Quiet, Holding, Saved, Reached, Pending,
      CommandInv
<1>4. CleaningInv'
  BY NoneAssumption
  DEF Inv, disk, app, local, ghosts, Fails, Goto, Reply, At, Recheck, Cleaning, Holding,
      CleaningInv
<1>5. TreesInv'
  BY KindsFacts, NoneAssumption
  DEF Inv, disk, app, local, ghosts, Registered, Fails, Goto, Reply, At, Entry, Recheck,
      Present, Trees, Holding, Saved, Reached, TreesInv
<1>6. ReplayInv'
  BY KindsFacts, NoneAssumption
  DEF Inv, disk, app, local, ghosts, Fails, Goto, Reply, At, Entry, Recheck, Present,
      EntryPoints, Holding, Reached, WritePhases, ReplayInv
<1>7. AnswersAreTrue'
  BY KindsFacts, NoneAssumption
  DEF Inv, disk, app, local, ghosts, Registered, Fails, Goto, Reply, At, Recheck, Chosen,
      Whole, JournalIsTrue, AnswersAreTrue, PreSnapshot, Trees, Cleaning, EntryPoints,
      Quiet, Holding, Saved, Reached, Pending, DiskInv, CommandInv
<1>8. QED
  BY <1>1, <1>2, <1>3, <1>4, <1>5, <1>6, <1>7 DEF Inv

(* A fresh root is registered while the login before is in place.             *)
LEMMA RegisterKeeps ==
  ASSUME Inv, NEW o \in Outcomes, Register(o)
  PROVE  Inv'
<1>1. TypeInv'
  <2>1. record' \in Records \cup {None} /\ hand' \in Records \cup {None}
    BY NoneAssumption, HistoryConstants, KindsFacts
      DEF Inv, TypeInv, TypeOK, app, ghosts, Empty, Registered, Fails, Goto, At, Register
  <2>2. registry' \in Registries
    BY NoneAssumption, HistoryConstants, KindsFacts
      DEF Inv, TypeInv, TypeOK, app, ghosts, Empty, Registered, Fails, Goto, At, Register,
        Registries
  <2>3. snapshot' \in Snapshots \cup {None}
    <3>1. op \in 1 .. MaxOps
      BY HeldRecord DEF Inv, CommandInv, PreSnapshot, Holding, Register, At
    <3>2. QED
      BY <3>1, BareSnapshot DEF Inv, TypeInv, TypeOK, Register
  <2>4. creds' \in Images /\ before' \in Images
    BY NoneAssumption, HistoryConstants, KindsFacts
      DEF Inv, TypeInv, TypeOK, app, ghosts, Empty, Registered, Fails, Goto, At, Register
  <2>5. pos' \in 1 .. Len(Kinds)
    BY NoneAssumption, HistoryConstants, KindsFacts
      DEF Inv, TypeInv, TypeOK, app, ghosts, Empty, Registered, Fails, Goto, At, Register
  <2>6. /\ pc' \in Points /\ note' \in {"none", "exact_stopped", "not_stopped", "unknown", "capture",
                                   "success", "early"}
        /\ pc' = "publish_stop" => note' \in {"exact_stopped", "not_stopped", "unknown"}
    BY NoneAssumption, HistoryConstants, KindsFacts
      DEF Inv, TypeInv, TypeOK, app, ghosts, Empty, Registered, Fails, Goto, At, Register,
        Points, PreSnapshot, Trees, Cleaning, EntryPoints
  <2>7. /\ faults' \in 0 .. MaxFaults /\ crashes' \in 0 .. MaxCrashes /\ op' \in 0 .. MaxOps
        /\ science' \in {"running", "stopped"} /\ managed' \in BOOLEAN /\ session' \in BOOLEAN
        /\ resume' \in BOOLEAN /\ failed' \in BOOLEAN /\ early' \in BOOLEAN
        /\ by' \in {"restore", "one_click"}
    BY NoneAssumption, HistoryConstants, KindsFacts
      DEF Inv, TypeInv, TypeOK, app, ghosts, Empty, Registered, Fails, Goto, At, Register
  <2>8. QED
    BY <2>1, <2>2, <2>3, <2>4, <2>5, <2>6, <2>7 DEF TypeInv, TypeOK
<1>2. DiskInv'
  BY KindsFacts, NoneAssumption
  DEF Inv, app, ghosts, Empty, Registered, Fails, Goto, At, Register, Chosen, Whole,
      JournalIsTrue, PreSnapshot, Trees, Cleaning, EntryPoints, Quiet, Holding, Saved,
      Reached, Pending, DiskInv, CommandInv
<1>3. CommandInv'
  <2>1. /\ by = "restore" /\ Quiet /\ creds = before /\ Holding({"stop_old_science"})
    BY DEF Inv, CommandInv, PreSnapshot, Register, At
  <2>2. op \in 1 .. MaxOps
    BY <2>1, HeldRecord DEF Holding
  <2>3. /\ UNCHANGED <<record, hand, creds, before, science, managed, by, op>>
        /\ pc' \in {"copy", "expire"} /\ note' = "capture"
    BY DEF Register, Goto, app, ghosts
  <2>4. pc' = "copy" => registry' = Registered(op) /\ snapshot' # None /\ snapshot'.op = op
    <3>1. pc' = "copy" => o = "ok"
      BY DEF Register, Goto
    <3>2. QED
      BY <2>2, <3>1, BareSnapshot DEF Register
  <2>5. QED
    BY <2>1, <2>3, <2>4
    DEF CommandInv, PreSnapshot, Trees, Cleaning, EntryPoints, Quiet, Holding, Registered
<1>4. CleaningInv'
  BY KindsFacts, NoneAssumption
  DEF Inv, app, ghosts, Empty, Registered, Fails, Goto, At, Register, Chosen, Whole,
      JournalIsTrue, PreSnapshot, Trees, Cleaning, EntryPoints, Quiet, Holding, Saved,
      Reached, Pending, DiskInv, CommandInv, CleaningInv
<1>5. TreesInv'
  BY KindsFacts, NoneAssumption
  DEF Inv, app, ghosts, Empty, Registered, Fails, Goto, At, Entry, Register, Present, Trees,
      Holding, Saved, Reached, TreesInv
<1>6. ReplayInv'
  BY KindsFacts, NoneAssumption
  DEF Inv, app, ghosts, Empty, Registered, Fails, Goto, At, Entry, Register, Present,
      EntryPoints, Holding, Reached, WritePhases, ReplayInv
<1>7. AnswersAreTrue'
  BY NoneAssumption
  DEF Inv, app, ghosts, Empty, Registered, Fails, Goto, At, Register, Chosen, AnswersAreTrue
<1>8. QED
  BY <1>1, <1>2, <1>3, <1>4, <1>5, <1>6, <1>7 DEF Inv

(* The snapshot takes the login before.                                       *)
LEMMA CopyKeeps ==
  ASSUME Inv, NEW o \in Outcomes, Copy(o)
  PROVE  Inv'
<1>1. TypeInv'
  <2>1. record' \in Records \cup {None} /\ hand' \in Records \cup {None}
    BY NoneAssumption, HistoryConstants, KindsFacts
      DEF Inv, TypeInv, TypeOK, app, local, ghosts, Fails, Goto, At, Copy
  <2>2. registry' \in Registries
    BY NoneAssumption, HistoryConstants, KindsFacts
      DEF Inv, TypeInv, TypeOK, app, local, ghosts, Fails, Goto, At, Copy, Registries
  <2>3. snapshot' \in Snapshots \cup {None}
    <3>1. snapshot \in Snapshots /\ creds \in Images /\ "captured" \in Stages
      BY DEF Inv, TypeInv, TypeOK, CommandInv, Stages, Copy, At
    <3> DEFINE n == [snapshot EXCEPT !.stage = "captured", !.image = creds]
    <3>2. n \in Snapshots
      BY <3>1, SnapshotChange
    <3>3. snapshot' \in {snapshot, n}
      BY DEF Copy
    <3>4. QED
      BY <3>1, <3>2, <3>3
  <2>4. creds' \in Images /\ before' \in Images
    BY NoneAssumption, HistoryConstants, KindsFacts
      DEF Inv, TypeInv, TypeOK, app, local, ghosts, Fails, Goto, At, Copy
  <2>5. pos' \in 1 .. Len(Kinds)
    BY NoneAssumption, HistoryConstants, KindsFacts
      DEF Inv, TypeInv, TypeOK, app, local, ghosts, Fails, Goto, At, Copy
  <2>6. /\ pc' \in Points /\ note' \in {"none", "exact_stopped", "not_stopped", "unknown", "capture",
                                   "success", "early"}
        /\ pc' = "publish_stop" => note' \in {"exact_stopped", "not_stopped", "unknown"}
    BY NoneAssumption, HistoryConstants, KindsFacts
      DEF Inv, TypeInv, TypeOK, app, local, ghosts, Fails, Goto, At, Copy, Points,
        PreSnapshot, Trees, Cleaning, EntryPoints
  <2>7. /\ faults' \in 0 .. MaxFaults /\ crashes' \in 0 .. MaxCrashes /\ op' \in 0 .. MaxOps
        /\ science' \in {"running", "stopped"} /\ managed' \in BOOLEAN /\ session' \in BOOLEAN
        /\ resume' \in BOOLEAN /\ failed' \in BOOLEAN /\ early' \in BOOLEAN
        /\ by' \in {"restore", "one_click"}
    BY NoneAssumption, HistoryConstants, KindsFacts
      DEF Inv, TypeInv, TypeOK, app, local, ghosts, Fails, Goto, At, Copy
  <2>8. QED
    BY <2>1, <2>2, <2>3, <2>4, <2>5, <2>6, <2>7 DEF TypeInv, TypeOK
<1>2. DiskInv'
  BY KindsFacts, NoneAssumption
  DEF Inv, app, local, ghosts, Registered, Fails, Goto, At, Copy, Chosen, Whole,
      JournalIsTrue, PreSnapshot, Trees, Cleaning, EntryPoints, Quiet, Holding, Saved,
      Reached, Pending, DiskInv, CommandInv
<1>3. CommandInv'
  <2>1. /\ by = "restore" /\ Quiet /\ creds = before /\ Holding({"stop_old_science"})
        /\ registry = Registered(op) /\ snapshot # None /\ snapshot.op = op /\ note = "capture"
    BY DEF Inv, CommandInv, PreSnapshot, Copy, At
  <2>2. /\ UNCHANGED <<record, hand, registry, creds, before, science, managed, by, op, note>>
        /\ (pc' = "activate" /\ o = "ok") \/ pc' = "expire"
    BY DEF Copy, Goto, app, ghosts, local
  <2>3. pc' = "activate" => Saved({"captured"})'
    <3>1. snapshot \in Snapshots /\ creds \in Images /\ "captured" \in Stages
      BY <2>1 DEF Inv, TypeInv, TypeOK, Stages
    <3> DEFINE n == [snapshot EXCEPT !.stage = "captured", !.image = creds]
    <3>2. n \in Snapshots
      BY <3>1, SnapshotChange
    <3>3. n.op = snapshot.op /\ n.stage = "captured" /\ n.image = creds
      BY <3>1 DEF Snapshots
    <3>4. pc' = "activate" => snapshot' = n
      BY <2>2 DEF Copy
    <3> HIDE DEF n
    <3>5. QED
      BY <2>1, <2>2, <3>2, <3>3, <3>4, NoneAssumption DEF Saved, Registered
  <2>4. QED
    BY <2>1, <2>2, <2>3
    DEF CommandInv, PreSnapshot, Trees, Cleaning, EntryPoints, Quiet, Holding
<1>4. CleaningInv'
  <2>1. /\ by = "restore" /\ Quiet /\ creds = before /\ Holding({"stop_old_science"})
        /\ registry = Registered(op) /\ snapshot # None /\ snapshot.op = op /\ note = "capture"
    BY DEF Inv, CommandInv, PreSnapshot, Copy, At
  <2>2. /\ UNCHANGED <<record, hand, registry, creds, before, science, managed, by, op, note>>
        /\ (pc' = "activate" /\ o = "ok") \/ pc' = "expire"
    BY DEF Copy, Goto, app, ghosts, local
  <2>3. QED
    BY <2>1, <2>2 DEF CleaningInv, Holding
<1>5. TreesInv'
  BY KindsFacts, NoneAssumption
  DEF Inv, app, local, ghosts, Registered, Fails, Goto, At, Entry, Copy, Present, Trees,
      Holding, Saved, Reached, TreesInv
<1>6. ReplayInv'
  BY KindsFacts, NoneAssumption
  DEF Inv, app, local, ghosts, Fails, Goto, At, Entry, Copy, Present, EntryPoints, Holding,
      Reached, WritePhases, ReplayInv
<1>7. AnswersAreTrue'
  BY NoneAssumption
  DEF Inv, app, local, ghosts, Fails, Goto, At, Copy, Chosen, AnswersAreTrue
<1>8. QED
  BY <1>1, <1>2, <1>3, <1>4, <1>5, <1>6, <1>7 DEF Inv

(* The record that names the snapshot is published once it is captured.       *)
LEMMA ActivateKeeps ==
  ASSUME Inv, NEW o \in Outcomes, Activate(o)
  PROVE  Inv'
<1>1. TypeInv'
  BY KindsFacts, NoneAssumption, HistoryConstants
  DEF Inv, Images, Phases, StopStates, Records, Registries, Stages, Snapshots, app, ghosts,
      Registered, Fails, Cas, Goto, Advance, At, Activate, Chosen, Whole, TypeOK,
      JournalIsTrue, PreSnapshot, Trees, Cleaning, EntryPoints, Points, TypeInv, Quiet,
      Holding, Saved, Reached, Pending, DiskInv, CommandInv
<1>2. DiskInv'
  BY KindsFacts, NoneAssumption
  DEF Inv, Images, Phases, StopStates, Records, Registries, Stages, Snapshots, app, ghosts,
      Registered, Fails, Cas, Goto, Advance, At, Entry, Activate, Present, Chosen, Whole,
      TypeOK, JournalIsTrue, AnswersAreTrue, PreSnapshot, Trees, Cleaning, EntryPoints,
      Points, TypeInv, Quiet, Holding, Saved, Reached, Pending, WritePhases, DiskInv,
      CommandInv, CleaningInv, TreesInv, ReplayInv
<1>3. CommandInv'
  BY KindsFacts, NoneAssumption
  DEF Inv, Images, Phases, StopStates, Records, Registries, Stages, Snapshots, app, ghosts,
      Registered, Fails, Cas, Goto, Advance, At, Entry, Activate, Present, Chosen, Whole,
      TypeOK, JournalIsTrue, AnswersAreTrue, PreSnapshot, Trees, Cleaning, EntryPoints,
      Points, TypeInv, Quiet, Holding, Saved, Reached, Pending, WritePhases, DiskInv,
      CommandInv, CleaningInv, TreesInv, ReplayInv
<1>4. CleaningInv'
  BY NoneAssumption
  DEF Inv, app, ghosts, Fails, Cas, Goto, Advance, At, Activate, Cleaning, Holding,
      CleaningInv
<1>5. TreesInv'
  BY KindsFacts, NoneAssumption
  DEF Inv, app, ghosts, Registered, Fails, Cas, Goto, Advance, At, Entry, Activate, Present,
      Chosen, Whole, JournalIsTrue, PreSnapshot, Trees, Cleaning, EntryPoints, Quiet,
      Holding, Saved, Reached, Pending, DiskInv, CommandInv, TreesInv
<1>6. ReplayInv'
  BY KindsFacts, NoneAssumption
  DEF Inv, app, ghosts, Fails, Cas, Goto, Advance, At, Entry, Activate, Present,
      EntryPoints, Holding, Reached, WritePhases, ReplayInv
<1>7. AnswersAreTrue'
  BY NoneAssumption
  DEF Inv, app, ghosts, Fails, Cas, Goto, Advance, At, Activate, Chosen, AnswersAreTrue
<1>8. QED
  BY <1>1, <1>2, <1>3, <1>4, <1>5, <1>6, <1>7 DEF Inv

(* The manifest is durable before the intent is.                              *)
LEMMA PersistManifestKeeps ==
  ASSUME Inv, NEW o \in Outcomes, PersistManifest(o)
  PROVE  Inv'
<1>1. TypeInv'
  BY KindsFacts, NoneAssumption, HistoryConstants
  DEF Inv, Images, Phases, StopStates, Records, Registries, Stages, Snapshots, app, local,
      ghosts, Registered, Fails, Goto, At, PersistManifest, Chosen, Whole, TypeOK,
      JournalIsTrue, PreSnapshot, Trees, Cleaning, EntryPoints, Points, TypeInv, Quiet,
      Holding, Saved, Reached, Pending, DiskInv, CommandInv
<1>2. DiskInv'
  BY KindsFacts, NoneAssumption
  DEF Inv, Images, Phases, StopStates, Records, Registries, Stages, Snapshots, app, local,
      ghosts, Registered, Fails, Goto, At, Entry, PersistManifest, Present, Chosen, Whole,
      TypeOK, JournalIsTrue, AnswersAreTrue, PreSnapshot, Trees, Cleaning, EntryPoints,
      Points, TypeInv, Quiet, Holding, Saved, Reached, Pending, WritePhases, DiskInv,
      CommandInv, CleaningInv, TreesInv, ReplayInv
<1>3. CommandInv'
  BY KindsFacts, NoneAssumption
  DEF Inv, Images, Phases, StopStates, Records, Registries, Stages, Snapshots, app, local,
      ghosts, Registered, Fails, Goto, At, Entry, PersistManifest, Present, Chosen, Whole,
      TypeOK, JournalIsTrue, AnswersAreTrue, PreSnapshot, Trees, Cleaning, EntryPoints,
      Points, TypeInv, Quiet, Holding, Saved, Reached, Pending, WritePhases, DiskInv,
      CommandInv, CleaningInv, TreesInv, ReplayInv
<1>4. CleaningInv'
  BY NoneAssumption
  DEF Inv, app, local, ghosts, Fails, Goto, At, PersistManifest, Cleaning, Holding,
      CleaningInv
<1>5. TreesInv'
  BY KindsFacts, NoneAssumption
  DEF Inv, Images, Phases, StopStates, Records, Registries, Stages, Snapshots, app, local,
      ghosts, Registered, Fails, Goto, At, Entry, PersistManifest, Present, Chosen, Whole,
      TypeOK, JournalIsTrue, AnswersAreTrue, PreSnapshot, Trees, Cleaning, EntryPoints,
      Points, TypeInv, Quiet, Holding, Saved, Reached, Pending, WritePhases, DiskInv,
      CommandInv, CleaningInv, TreesInv, ReplayInv
<1>6. ReplayInv'
  BY KindsFacts, NoneAssumption
  DEF Inv, app, local, ghosts, Fails, Goto, At, Entry, PersistManifest, Present,
      EntryPoints, Holding, Reached, WritePhases, ReplayInv
<1>7. AnswersAreTrue'
  BY NoneAssumption
  DEF Inv, app, local, ghosts, Fails, Goto, At, PersistManifest, Chosen, AnswersAreTrue
<1>8. QED
  BY <1>1, <1>2, <1>3, <1>4, <1>5, <1>6, <1>7 DEF Inv

(* The intent to write has the manifest it will need.                         *)
LEMMA IntendWriteKeeps ==
  ASSUME Inv, NEW o \in Outcomes, IntendWrite(o)
  PROVE  Inv'
<1>1. TypeInv'
  BY KindsFacts, NoneAssumption, HistoryConstants
  DEF Inv, Images, Phases, StopStates, Records, Registries, Stages, Snapshots, app, ghosts,
      Registered, Fails, Cas, Goto, Advance, At, IntendWrite, Chosen, Whole, TypeOK,
      JournalIsTrue, PreSnapshot, Trees, Cleaning, EntryPoints, Points, TypeInv, Quiet,
      Holding, Saved, Reached, Pending, DiskInv, CommandInv
<1>2. DiskInv'
  BY KindsFacts, NoneAssumption
  DEF Inv, Images, Phases, StopStates, Records, Registries, Stages, Snapshots, app, ghosts,
      Registered, Fails, Cas, Goto, Advance, At, Entry, IntendWrite, Present, Chosen, Whole,
      TypeOK, JournalIsTrue, AnswersAreTrue, PreSnapshot, Trees, Cleaning, EntryPoints,
      Points, TypeInv, Quiet, Holding, Saved, Reached, Pending, WritePhases, DiskInv,
      CommandInv, CleaningInv, TreesInv, ReplayInv
<1>3. CommandInv'
  BY KindsFacts, NoneAssumption
  DEF Inv, Images, Phases, StopStates, Records, Registries, Stages, Snapshots, app, ghosts,
      Registered, Fails, Cas, Goto, Advance, At, Entry, IntendWrite, Present, Chosen, Whole,
      TypeOK, JournalIsTrue, AnswersAreTrue, PreSnapshot, Trees, Cleaning, EntryPoints,
      Points, TypeInv, Quiet, Holding, Saved, Reached, Pending, WritePhases, DiskInv,
      CommandInv, CleaningInv, TreesInv, ReplayInv
<1>4. CleaningInv'
  BY NoneAssumption
  DEF Inv, app, ghosts, Fails, Cas, Goto, Advance, At, IntendWrite, Cleaning, Holding,
      CleaningInv
<1>5. TreesInv'
  BY KindsFacts, NoneAssumption
  DEF Inv, app, ghosts, Registered, Fails, Cas, Goto, Advance, At, Entry, IntendWrite,
      Present, Chosen, Whole, JournalIsTrue, PreSnapshot, Trees, Cleaning, EntryPoints,
      Quiet, Holding, Saved, Reached, Pending, DiskInv, CommandInv, TreesInv
<1>6. ReplayInv'
  BY KindsFacts, NoneAssumption
  DEF Inv, app, ghosts, Fails, Cas, Goto, Advance, At, Entry, IntendWrite, Present,
      EntryPoints, Holding, Reached, WritePhases, ReplayInv
<1>7. AnswersAreTrue'
  BY NoneAssumption
  DEF Inv, app, ghosts, Fails, Cas, Goto, Advance, At, IntendWrite, Chosen, AnswersAreTrue
<1>8. QED
  BY <1>1, <1>2, <1>3, <1>4, <1>5, <1>6, <1>7 DEF Inv

(* The credentials are written under the intent.                              *)
LEMMA TakeLeaseKeeps ==
  ASSUME Inv, NEW o \in Outcomes, TakeLease(o)
  PROVE  Inv'
<1>1. TypeInv'
  BY KindsFacts, NoneAssumption, HistoryConstants
  DEF Inv, Images, Phases, StopStates, Records, Registries, Stages, Snapshots, disk, app,
      ghosts, Fails, Goto, Reply, At, TakeLease, TypeOK, PreSnapshot, Trees, Cleaning,
      EntryPoints, Points, TypeInv
<1>2. DiskInv'
  BY NoneAssumption
  DEF Inv, disk, app, ghosts, Registered, Fails, Goto, Reply, At, TakeLease, Chosen, Whole,
      JournalIsTrue, DiskInv
<1>3. CommandInv'
  BY KindsFacts, NoneAssumption
  DEF Inv, disk, app, ghosts, Registered, Fails, Goto, Reply, At, TakeLease, Chosen,
      PreSnapshot, Trees, Cleaning, EntryPoints, Quiet, Holding, Saved, Reached, Pending,
      CommandInv
<1>4. CleaningInv'
  BY NoneAssumption
  DEF Inv, disk, app, ghosts, Fails, Goto, Reply, At, TakeLease, Cleaning, Holding,
      CleaningInv
<1>5. TreesInv'
  BY KindsFacts, NoneAssumption
  DEF Inv, disk, app, ghosts, Registered, Fails, Goto, Reply, At, Entry, TakeLease, Present,
      Trees, Holding, Saved, Reached, TreesInv
<1>6. ReplayInv'
  BY KindsFacts, NoneAssumption
  DEF Inv, disk, app, ghosts, Fails, Goto, Reply, At, Entry, TakeLease, Present,
      EntryPoints, Holding, Reached, WritePhases, ReplayInv
<1>7. AnswersAreTrue'
  BY KindsFacts, NoneAssumption
  DEF Inv, disk, app, ghosts, Registered, Fails, Goto, Reply, At, TakeLease, Chosen, Whole,
      JournalIsTrue, AnswersAreTrue, PreSnapshot, Trees, Cleaning, EntryPoints, Quiet,
      Holding, Saved, Reached, Pending, DiskInv, CommandInv
<1>8. QED
  BY <1>1, <1>2, <1>3, <1>4, <1>5, <1>6, <1>7 DEF Inv

(* Each entry written is the chosen one, the rest still the one before.       *)
LEMMA WriteEntryKeeps ==
  ASSUME Inv, NEW o \in Outcomes, WriteEntry(o)
  PROVE  Inv'
<1>1. TypeInv'
  <2>1. record' \in Records \cup {None} /\ hand' \in Records \cup {None}
    BY NoneAssumption, HistoryConstants, KindsFacts
      DEF Inv, TypeInv, TypeOK, app, ghosts, Fails, Goto, At, Entry, WriteEntry
  <2>2. registry' \in Registries
    BY NoneAssumption, HistoryConstants, KindsFacts
      DEF Inv, TypeInv, TypeOK, app, ghosts, Fails, Goto, At, Entry, WriteEntry, Registries
  <2>3. snapshot' \in Snapshots \cup {None}
    BY NoneAssumption, HistoryConstants, KindsFacts
      DEF Inv, TypeInv, TypeOK, app, ghosts, Fails, Goto, At, Entry, WriteEntry
  <2>4. creds' \in Images /\ before' \in Images
    <3>1. Entry \in Entries /\ creds \in Images
      BY AtEntry DEF Inv, TypeInv, TypeOK
    <3>2. creds[Entry] \in Values /\ None \in Values
      BY <3>1 DEF Images, Values
    <3>3. record # None /\ record = hand
      BY DEF Inv, CommandInv, Holding, WriteEntry, At
    <3>4. hand.op \in Values
      BY <3>3, HeldRecord DEF Values
    <3>5. Written(Entry, creds[Entry], hand.op) \in Values
      BY <3>2, <3>4 DEF Written
    <3>6. \E v \in Values : creds' = [creds EXCEPT ![Entry] = v]
      <4> DEFINE v == IF o = "ok" THEN Written(Entry, creds[Entry], hand.op)
                      ELSE IF o = "late" /\ Entry = "oauth_tokens" THEN None
                      ELSE IF o = "late" THEN Written(Entry, creds[Entry], hand.op)
                      ELSE creds[Entry]
      <4>1. v \in Values
        BY <3>2, <3>5
      <4>2. creds' = [creds EXCEPT ![Entry] = v]
        BY DEF WriteEntry
      <4>3. QED
        BY <4>1, <4>2
    <3>7. before' \in Images
      BY DEF Inv, TypeInv, TypeOK, WriteEntry, ghosts
    <3>8. QED
      BY <3>1, <3>6, <3>7, EntryChange
  <2>5. pos' \in 1 .. Len(Kinds)
    BY NoneAssumption, HistoryConstants, KindsFacts
      DEF Inv, TypeInv, TypeOK, app, ghosts, Fails, Goto, At, Entry, WriteEntry
  <2>6. /\ pc' \in Points /\ note' \in {"none", "exact_stopped", "not_stopped", "unknown", "capture",
                                   "success", "early"}
        /\ pc' = "publish_stop" => note' \in {"exact_stopped", "not_stopped", "unknown"}
    BY NoneAssumption, HistoryConstants, KindsFacts
      DEF Inv, TypeInv, TypeOK, app, ghosts, Fails, Goto, At, Entry, WriteEntry, Points,
        PreSnapshot, Trees, Cleaning, EntryPoints
  <2>7. /\ faults' \in 0 .. MaxFaults /\ crashes' \in 0 .. MaxCrashes /\ op' \in 0 .. MaxOps
        /\ science' \in {"running", "stopped"} /\ managed' \in BOOLEAN /\ session' \in BOOLEAN
        /\ resume' \in BOOLEAN /\ failed' \in BOOLEAN /\ early' \in BOOLEAN
        /\ by' \in {"restore", "one_click"}
    BY NoneAssumption, HistoryConstants, KindsFacts
      DEF Inv, TypeInv, TypeOK, app, ghosts, Fails, Goto, At, Entry, WriteEntry
  <2>8. QED
    BY <2>1, <2>2, <2>3, <2>4, <2>5, <2>6, <2>7 DEF TypeInv, TypeOK
<1>2. DiskInv'
  BY KindsFacts, NoneAssumption
  DEF Inv, app, ghosts, Registered, Fails, Goto, At, Entry, WriteEntry, Chosen, Whole,
      JournalIsTrue, PreSnapshot, Trees, Cleaning, EntryPoints, Quiet, Holding, Saved,
      Reached, Pending, DiskInv, CommandInv
<1>3. CommandInv'
  <2>1. /\ by = "restore" /\ Quiet /\ Holding({"history_credential_write_pending"})
        /\ Reached(Chosen) /\ Pending(before)
    BY DEF Inv, CommandInv, WriteEntry, At
  <2>2. TypeOK /\ pos \in 1 .. 4 /\ Entry \in Entries /\ Len(Kinds) = 4 /\ hand.op = op
        /\ creds \in Images /\ before \in Images /\ Chosen \in Images
    BY <2>1, AtEntry, ChosenType, HeldRecord DEF Inv, TypeInv, TypeOK, Holding
  <2>3. /\ UNCHANGED <<record, hand, before, science, managed, by, op>>
        /\ \/ pc' = "compensate"
           \/ pc' = "write" /\ o = "ok" /\ pos # 4 /\ pos' = pos + 1
           \/ pc' = "publish" /\ o = "ok" /\ pos = 4
    BY <2>2 DEF WriteEntry, Goto, app, ghosts
  <2>4. creds' \in Images /\ \A f \in Entries : f # Entry => creds'[f] = creds[f]
    <3>1. creds' \in Images
      BY <1>1 DEF TypeInv, TypeOK
    <3>2. QED
      BY <2>2, <3>1 DEF WriteEntry, Images
  <2>5. o = "ok" => creds'[Entry] = Chosen[Entry]
    <3>1. creds[Entry] = before[Entry]
      BY <2>1, <2>2 DEF Pending, Entry
    <3>2. o = "ok" => creds'[Entry] = Written(Entry, creds[Entry], hand.op)
      BY <2>2 DEF WriteEntry, Images
    <3>3. Chosen[Entry] = Written(Entry, before[Entry], op)
      BY <2>2, ChosenType
    <3>4. QED
      BY <2>2, <3>1, <3>2, <3>3
  <2>6. o = "ok" => \A i \in 1 .. 4 : i < pos + 1 => creds'[Kinds[i]] = Chosen[Kinds[i]]
    BY <2>1, <2>2, <2>4, <2>5, ReachedStep
  <2>7. Chosen' = Chosen
    BY <2>3 DEF Chosen
  <2>8. pc' = "write" => Reached(Chosen)' /\ Pending(before)'
    <3>1. pc' = "write" => Reached(Chosen)'
      BY <2>3, <2>6, <2>7 DEF Reached
    <3>2. ASSUME NEW i \in 1 .. 4, i >= pos + 1
          PROVE  creds'[Kinds[i]] = before[Kinds[i]]
      <4>1. Kinds[i] \in Entries /\ Kinds[i] # Entry
        BY <2>2, <3>2, AtEntry
      <4>2. i >= pos
        BY <2>2, <3>2
      <4>3. QED
        BY <2>1, <2>4, <4>1, <4>2 DEF Pending
    <3>3. pc' = "write" => Pending(before)'
      BY <2>3, <3>2 DEF Pending
    <3>4. QED
      BY <3>1, <3>3
  <2>9. pc' = "publish" => creds' = Chosen'
    <3>1. pc' = "publish" => \A i \in 1 .. 4 : creds'[Kinds[i]] = Chosen[Kinds[i]]
      BY <2>3, <2>6
    <3>2. QED
      BY <2>2, <2>4, <2>7, <3>1, AllReached
  <2>10. QED
    BY <2>1, <2>3, <2>8, <2>9
    DEF CommandInv, PreSnapshot, Trees, Cleaning, EntryPoints, Quiet, Holding
<1>4. CleaningInv'
  BY KindsFacts, NoneAssumption
  DEF Inv, app, ghosts, Fails, Goto, At, Entry, WriteEntry, Cleaning, Holding, CleaningInv
<1>5. TreesInv'
  BY KindsFacts, NoneAssumption
  DEF Inv, Images, Phases, StopStates, Records, Registries, Stages, Snapshots, app, ghosts,
      Registered, Fails, Goto, At, Entry, WriteEntry, Present, Chosen, Whole, TypeOK,
      JournalIsTrue, AnswersAreTrue, PreSnapshot, Trees, Cleaning, EntryPoints, Points,
      TypeInv, Quiet, Holding, Saved, Reached, Pending, WritePhases, DiskInv, CommandInv,
      CleaningInv, TreesInv, ReplayInv
<1>6. ReplayInv'
  BY KindsFacts, NoneAssumption
  DEF Inv, app, ghosts, Fails, Goto, At, Entry, WriteEntry, Present, EntryPoints, Holding,
      Reached, WritePhases, ReplayInv
<1>7. AnswersAreTrue'
  BY KindsFacts, NoneAssumption
  DEF Inv, app, ghosts, Fails, Goto, At, Entry, WriteEntry, Chosen, AnswersAreTrue
<1>8. QED
  BY <1>1, <1>2, <1>3, <1>4, <1>5, <1>6, <1>7 DEF Inv

(* All four are written when the record says so.                              *)
LEMMA PublishKeeps ==
  ASSUME Inv, NEW o \in Outcomes, Publish(o)
  PROVE  Inv'
<1>1. TypeInv'
  <2>1. record' \in Records \cup {None} /\ hand' \in Records \cup {None}
    <3>1. hand \in Records
      BY NoneAssumption DEF Inv, TypeInv, TypeOK, CommandInv, Holding, Publish, At
    <3>2. resume \in BOOLEAN /\ "history_credential_published" \in Phases
      BY DEF Inv, TypeInv, TypeOK, Phases
    <3> DEFINE n == [hand EXCEPT !.phase = "history_credential_published", !.resume = resume]
    <3>3. n \in Records
      BY <3>1, <3>2, RecordChange
    <3> HIDE DEF n
    <3>4. record' \in {record, n} /\ hand' \in {hand, n}
      BY DEF Publish, Advance, Cas, n
    <3>5. QED
      BY <3>1, <3>3, <3>4 DEF Inv, TypeInv, TypeOK
  <2>2. registry' \in Registries
    BY NoneAssumption, HistoryConstants, KindsFacts
      DEF Inv, TypeInv, TypeOK, app, ghosts, Fails, Cas, Goto, Advance, At, Publish,
        Registries
  <2>3. snapshot' \in Snapshots \cup {None}
    BY NoneAssumption, HistoryConstants, KindsFacts
      DEF Inv, TypeInv, TypeOK, app, ghosts, Fails, Cas, Goto, Advance, At, Publish
  <2>4. creds' \in Images /\ before' \in Images
    BY NoneAssumption, HistoryConstants, KindsFacts
      DEF Inv, TypeInv, TypeOK, app, ghosts, Fails, Cas, Goto, Advance, At, Publish
  <2>5. pos' \in 1 .. Len(Kinds)
    BY NoneAssumption, HistoryConstants, KindsFacts
      DEF Inv, TypeInv, TypeOK, app, ghosts, Fails, Cas, Goto, Advance, At, Publish
  <2>6. /\ pc' \in Points /\ note' \in {"none", "exact_stopped", "not_stopped", "unknown", "capture",
                                   "success", "early"}
        /\ pc' = "publish_stop" => note' \in {"exact_stopped", "not_stopped", "unknown"}
    BY NoneAssumption, HistoryConstants, KindsFacts
      DEF Inv, TypeInv, TypeOK, app, ghosts, Fails, Cas, Goto, Advance, At, Publish, Points,
        PreSnapshot, Trees, Cleaning, EntryPoints
  <2>7. /\ faults' \in 0 .. MaxFaults /\ crashes' \in 0 .. MaxCrashes /\ op' \in 0 .. MaxOps
        /\ science' \in {"running", "stopped"} /\ managed' \in BOOLEAN /\ session' \in BOOLEAN
        /\ resume' \in BOOLEAN /\ failed' \in BOOLEAN /\ early' \in BOOLEAN
        /\ by' \in {"restore", "one_click"}
    BY NoneAssumption, HistoryConstants, KindsFacts
      DEF Inv, TypeInv, TypeOK, app, ghosts, Fails, Cas, Goto, Advance, At, Publish
  <2>8. QED
    BY <2>1, <2>2, <2>3, <2>4, <2>5, <2>6, <2>7 DEF TypeInv, TypeOK
<1>2. DiskInv'
  <2>1. hand \in Records /\ record = hand /\ hand.op = op /\ creds = Chosen
    BY NoneAssumption DEF Inv, TypeInv, TypeOK, DiskInv, JournalIsTrue, CommandInv, Holding,
        Publish, At
  <2> DEFINE n == [hand EXCEPT !.phase = "history_credential_published", !.resume = resume]
  <2>2. n \in Records /\ n # None /\ n.op = hand.op /\ n.phase = "history_credential_published"
    BY <2>1, PublishedIs
  <2>3. record' \in {record, n}
    BY DEF Publish, Advance, Cas
  <2> HIDE DEF n
  <2>4. UNCHANGED <<registry, snapshot, creds, op, before, early>>
    BY DEF Publish, ghosts
  <2>5. Chosen' = Chosen /\ Whole'
    BY <2>1, <2>4 DEF Chosen, Whole
  <2>6. CASE record' = record
    BY <2>1, <2>4, <2>5, <2>6 DEF Inv, DiskInv, JournalIsTrue
  <2>7. CASE record' = n
    BY <2>1, <2>2, <2>4, <2>5, <2>7 DEF DiskInv, JournalIsTrue
  <2>8. QED
    BY <2>3, <2>6, <2>7
<1>3. CommandInv'
  BY KindsFacts, NoneAssumption
  DEF Inv, app, ghosts, Registered, Fails, Cas, Goto, Advance, At, Publish, Chosen,
      PreSnapshot, Trees, Cleaning, EntryPoints, Quiet, Holding, Saved, Reached, Pending,
      CommandInv
<1>4. CleaningInv'
  <2>1. hand \in Records /\ record = hand /\ hand.op = op /\ creds = Chosen
    BY NoneAssumption DEF Inv, TypeInv, TypeOK, DiskInv, JournalIsTrue, CommandInv, Holding,
        Publish, At
  <2> DEFINE n == [hand EXCEPT !.phase = "history_credential_published", !.resume = resume]
  <2>2. n \in Records /\ n # None /\ n.op = hand.op /\ n.phase = "history_credential_published"
    BY <2>1, PublishedIs
  <2>3. pc' \in Cleaning => o = "ok" /\ note' = "success"
    BY DEF Publish, Goto, Cleaning, Outcomes
  <2>4. o = "ok" => record' = n /\ hand' = n
    BY DEF Publish, Advance, Cas
  <2> HIDE DEF n
  <2>5. QED
    BY <2>2, <2>3, <2>4 DEF CleaningInv, Holding
<1>5. TreesInv'
  BY KindsFacts, NoneAssumption
  DEF Inv, Images, Phases, StopStates, Records, Registries, Stages, Snapshots, app, ghosts,
      Registered, Fails, Cas, Goto, Advance, At, Entry, Publish, Present, Chosen, Whole,
      TypeOK, JournalIsTrue, AnswersAreTrue, PreSnapshot, Trees, Cleaning, EntryPoints,
      Points, TypeInv, Quiet, Holding, Saved, Reached, Pending, WritePhases, DiskInv,
      CommandInv, CleaningInv, TreesInv, ReplayInv
<1>6. ReplayInv'
  BY KindsFacts, NoneAssumption
  DEF Inv, app, ghosts, Fails, Cas, Goto, Advance, At, Entry, Publish, Present, EntryPoints,
      Holding, Reached, WritePhases, ReplayInv
<1>7. AnswersAreTrue'
  BY NoneAssumption
  DEF Inv, app, ghosts, Fails, Cas, Goto, Advance, At, Publish, Chosen, AnswersAreTrue
<1>8. QED
  BY <1>1, <1>2, <1>3, <1>4, <1>5, <1>6, <1>7 DEF Inv

(* A completed restore leaves the chosen history.                             *)
LEMMA CompleteKeeps ==
  ASSUME Inv, NEW o \in Outcomes, Complete(o)
  PROVE  Inv'
<1>1. TypeInv'
  <2>1. record' \in Records \cup {None} /\ hand' \in Records \cup {None}
    <3>1. hand \in Records
      BY NoneAssumption DEF Inv, TypeInv, TypeOK, CommandInv, Holding, Complete, At
    <3>2. Finalized \in Records \cup {None}
      <4>1. "resume_after_history_restore" \in Phases /\ FALSE \in BOOLEAN
        BY DEF Phases
      <4> DEFINE n == [hand EXCEPT !.phase = "resume_after_history_restore", !.resume = FALSE]
      <4>2. n \in Records
        BY <3>1, <4>1, RecordChange
      <4>3. Finalized \in {n, None}
        BY DEF Finalized
      <4>4. QED
        BY <4>2, <4>3
    <3>3. record' \in {record, Finalized} /\ hand' \in {hand, Finalized}
      BY DEF Complete, Advance, Cas
    <3>4. QED
      BY <3>1, <3>2, <3>3 DEF Inv, TypeInv, TypeOK
  <2>2. registry' \in Registries
    BY NoneAssumption, HistoryConstants, KindsFacts
      DEF Inv, TypeInv, TypeOK, app, ghosts, Fails, Cas, Goto, Reply, Advance, At,
        Finalized, Complete, Registries
  <2>3. snapshot' \in Snapshots \cup {None}
    BY NoneAssumption, HistoryConstants, KindsFacts
      DEF Inv, TypeInv, TypeOK, app, ghosts, Fails, Cas, Goto, Reply, Advance, At,
        Finalized, Complete
  <2>4. creds' \in Images /\ before' \in Images
    BY NoneAssumption, HistoryConstants, KindsFacts
      DEF Inv, TypeInv, TypeOK, app, ghosts, Fails, Cas, Goto, Reply, Advance, At,
        Finalized, Complete
  <2>5. pos' \in 1 .. Len(Kinds)
    BY NoneAssumption, HistoryConstants, KindsFacts
      DEF Inv, TypeInv, TypeOK, app, ghosts, Fails, Cas, Goto, Reply, Advance, At,
        Finalized, Complete
  <2>6. /\ pc' \in Points /\ note' \in {"none", "exact_stopped", "not_stopped", "unknown", "capture",
                                   "success", "early"}
        /\ pc' = "publish_stop" => note' \in {"exact_stopped", "not_stopped", "unknown"}
    BY NoneAssumption, HistoryConstants, KindsFacts
      DEF Inv, TypeInv, TypeOK, app, ghosts, Fails, Cas, Goto, Reply, Advance, At,
        Finalized, Complete, Points, PreSnapshot, Trees, Cleaning, EntryPoints
  <2>7. /\ faults' \in 0 .. MaxFaults /\ crashes' \in 0 .. MaxCrashes /\ op' \in 0 .. MaxOps
        /\ science' \in {"running", "stopped"} /\ managed' \in BOOLEAN /\ session' \in BOOLEAN
        /\ resume' \in BOOLEAN /\ failed' \in BOOLEAN /\ early' \in BOOLEAN
        /\ by' \in {"restore", "one_click"}
    BY NoneAssumption, HistoryConstants, KindsFacts
      DEF Inv, TypeInv, TypeOK, app, ghosts, Fails, Cas, Goto, Reply, Advance, At,
        Finalized, Complete
  <2>8. QED
    BY <2>1, <2>2, <2>3, <2>4, <2>5, <2>6, <2>7 DEF TypeInv, TypeOK
<1>2. DiskInv'
  <2>1. /\ hand \in Records /\ record = hand /\ hand.op = op
        /\ hand.phase = "history_credential_published" /\ creds = Chosen
    BY NoneAssumption DEF Inv, TypeInv, TypeOK, DiskInv, JournalIsTrue, CommandInv, Holding, Complete, At
  <2>2. UNCHANGED <<registry, snapshot, creds, op, before, early>>
    BY DEF Complete, ghosts
  <2>3. Chosen' = Chosen /\ Whole'
    BY <2>1, <2>2 DEF Chosen, Whole
  <2>4. CASE record' = record
    BY <2>1, <2>2, <2>3, <2>4 DEF Inv, DiskInv, JournalIsTrue
  <2>5. CASE record' = Finalized
    BY <2>1, <2>2, <2>3, <2>5, FinalizedIs DEF DiskInv, JournalIsTrue
  <2>6. QED
    BY <2>4, <2>5 DEF Complete, Advance, Cas
<1>3. CommandInv'
  BY KindsFacts, NoneAssumption
  DEF Inv, app, ghosts, Registered, Fails, Cas, Goto, Reply, Advance, At, Finalized,
      Complete, Chosen, PreSnapshot, Trees, Cleaning, EntryPoints, Quiet, Holding, Saved,
      Reached, Pending, CommandInv
<1>4. CleaningInv'
  BY NoneAssumption
  DEF Inv, app, ghosts, Fails, Cas, Goto, Reply, Advance, At, Finalized, Complete, Cleaning,
      Holding, CleaningInv
<1>5. TreesInv'
  BY KindsFacts, NoneAssumption
  DEF Inv, app, ghosts, Registered, Fails, Cas, Goto, Reply, Advance, At, Entry, Finalized,
      Complete, Present, Trees, Holding, Saved, Reached, TreesInv
<1>6. ReplayInv'
  <2>1. hand \in Records /\ record = hand
    BY NoneAssumption DEF Inv, TypeInv, TypeOK, CommandInv, Holding, Complete, At
  <2>2. pc' = "idle" \/ (pc' = "handoff" /\ o = "ok" /\ hand.resume)
    BY DEF Complete, Goto, Reply
  <2>3. pc' = "handoff" => Holding({"resume_after_history_restore"})'
    BY <2>1, <2>2, FinalizedIs DEF Holding, Complete, Advance, Cas
  <2>4. QED
    BY <2>2, <2>3 DEF ReplayInv, EntryPoints
<1>7. AnswersAreTrue'
  BY KindsFacts, NoneAssumption
  DEF Inv, app, ghosts, Registered, Fails, Cas, Goto, Reply, Advance, At, Finalized,
      Complete, Chosen, Whole, JournalIsTrue, AnswersAreTrue, PreSnapshot, Trees, Cleaning,
      EntryPoints, Quiet, Holding, Saved, Reached, Pending, DiskInv, CommandInv
<1>8. QED
  BY <1>1, <1>2, <1>3, <1>4, <1>5, <1>6, <1>7 DEF Inv

(* The record handed to the login is of the chosen history.                   *)
LEMMA HandoffKeeps ==
  ASSUME Inv, NEW o \in Outcomes, Handoff(o)
  PROVE  Inv'
<1>1. TypeInv'
  BY KindsFacts, NoneAssumption, HistoryConstants
  DEF Inv, Images, Phases, StopStates, Records, Registries, Stages, Snapshots, app, local,
      ghosts, Fails, Cas, Reply, At, Handoff, TypeOK, PreSnapshot, Trees, Cleaning,
      EntryPoints, Points, TypeInv
<1>2. DiskInv'
  BY KindsFacts, NoneAssumption
  DEF Inv, app, local, ghosts, Registered, Fails, Cas, Reply, At, Entry, Handoff, Present,
      Chosen, Whole, JournalIsTrue, AnswersAreTrue, PreSnapshot, Trees, Cleaning,
      EntryPoints, Quiet, Holding, Saved, Reached, Pending, WritePhases, DiskInv,
      CommandInv, CleaningInv, TreesInv, ReplayInv
<1>3. CommandInv'
  BY KindsFacts, NoneAssumption
  DEF Inv, app, local, ghosts, Registered, Fails, Cas, Reply, At, Handoff, Chosen,
      PreSnapshot, Trees, Cleaning, EntryPoints, Quiet, Holding, Saved, Reached, Pending,
      CommandInv
<1>4. CleaningInv'
  BY NoneAssumption
  DEF Inv, app, local, ghosts, Fails, Cas, Reply, At, Handoff, Cleaning, Holding,
      CleaningInv
<1>5. TreesInv'
  BY KindsFacts, NoneAssumption
  DEF Inv, app, local, ghosts, Registered, Fails, Cas, Reply, At, Entry, Handoff, Present,
      Trees, Holding, Saved, Reached, TreesInv
<1>6. ReplayInv'
  BY KindsFacts, NoneAssumption
  DEF Inv, app, local, ghosts, Fails, Cas, Reply, At, Entry, Handoff, Present, EntryPoints,
      Holding, Reached, WritePhases, ReplayInv
<1>7. AnswersAreTrue'
  BY KindsFacts, NoneAssumption
  DEF Inv, app, local, ghosts, Registered, Fails, Cas, Reply, At, Entry, Handoff, Present,
      Chosen, Whole, JournalIsTrue, AnswersAreTrue, PreSnapshot, Trees, Cleaning,
      EntryPoints, Quiet, Holding, Saved, Reached, Pending, WritePhases, DiskInv,
      CommandInv, CleaningInv, TreesInv, ReplayInv
<1>8. QED
  BY <1>1, <1>2, <1>3, <1>4, <1>5, <1>6, <1>7 DEF Inv

(* What a cleanup belongs to survives the loss of its snapshot.               *)
LEMMA ExpireKeeps ==
  ASSUME Inv, NEW o \in Outcomes, Expire(o)
  PROVE  Inv'
<1>1. TypeInv'
  <2>1. record' \in Records \cup {None} /\ hand' \in Records \cup {None}
    BY NoneAssumption, HistoryConstants, KindsFacts
      DEF Inv, TypeInv, TypeOK, app, local, ghosts, Empty, Registered, Expendable, Fails,
        Goto, Reply, At, AfterCleanup, Expire
  <2>2. registry' \in Registries
    BY NoneAssumption, HistoryConstants, KindsFacts
      DEF Inv, TypeInv, TypeOK, app, local, ghosts, Empty, Registered, Expendable, Fails,
        Goto, Reply, At, AfterCleanup, Expire, Registries
  <2>3. snapshot' \in Snapshots \cup {None}
    <3>1. note = "capture" => op \in 1 .. MaxOps
      BY HeldRecord DEF Inv, CleaningInv, Cleaning, Holding, Expire, At
    <3>2. registry = Registered(op) => registry # Empty
      BY DEF Registered, Empty
    <3>3. QED
      BY <3>1, <3>2, BareSnapshot DEF Inv, TypeInv, TypeOK, Expire
  <2>4. creds' \in Images /\ before' \in Images
    BY NoneAssumption, HistoryConstants, KindsFacts
      DEF Inv, TypeInv, TypeOK, app, local, ghosts, Empty, Registered, Expendable, Fails,
        Goto, Reply, At, AfterCleanup, Expire
  <2>5. pos' \in 1 .. Len(Kinds)
    BY NoneAssumption, HistoryConstants, KindsFacts
      DEF Inv, TypeInv, TypeOK, app, local, ghosts, Empty, Registered, Expendable, Fails,
        Goto, Reply, At, AfterCleanup, Expire
  <2>6. /\ pc' \in Points /\ note' \in {"none", "exact_stopped", "not_stopped", "unknown", "capture",
                                   "success", "early"}
        /\ pc' = "publish_stop" => note' \in {"exact_stopped", "not_stopped", "unknown"}
    BY NoneAssumption, HistoryConstants, KindsFacts
      DEF Inv, TypeInv, TypeOK, app, local, ghosts, Empty, Registered, Expendable, Fails,
        Goto, Reply, At, AfterCleanup, Expire, Points, PreSnapshot, Trees, Cleaning,
        EntryPoints
  <2>7. /\ faults' \in 0 .. MaxFaults /\ crashes' \in 0 .. MaxCrashes /\ op' \in 0 .. MaxOps
        /\ science' \in {"running", "stopped"} /\ managed' \in BOOLEAN /\ session' \in BOOLEAN
        /\ resume' \in BOOLEAN /\ failed' \in BOOLEAN /\ early' \in BOOLEAN
        /\ by' \in {"restore", "one_click"}
    BY NoneAssumption, HistoryConstants, KindsFacts
      DEF Inv, TypeInv, TypeOK, app, local, ghosts, Empty, Registered, Expendable, Fails,
        Goto, Reply, At, AfterCleanup, Expire
  <2>8. QED
    BY <2>1, <2>2, <2>3, <2>4, <2>5, <2>6, <2>7 DEF TypeInv, TypeOK
<1>2. DiskInv'
  BY KindsFacts, NoneAssumption
  DEF Inv, app, local, ghosts, Empty, Registered, Expendable, Fails, Goto, Reply, At, Entry,
      AfterCleanup, Expire, Present, Chosen, Whole, JournalIsTrue, AnswersAreTrue,
      PreSnapshot, Trees, Cleaning, EntryPoints, Quiet, Holding, Saved, Reached, Pending,
      WritePhases, DiskInv, CommandInv, CleaningInv, TreesInv, ReplayInv
<1>3. CommandInv'
  BY KindsFacts, NoneAssumption
  DEF Inv, app, local, ghosts, Empty, Registered, Expendable, Fails, Goto, Reply, At, Entry,
      AfterCleanup, Expire, Present, Chosen, Whole, JournalIsTrue, AnswersAreTrue,
      PreSnapshot, Trees, Cleaning, EntryPoints, Quiet, Holding, Saved, Reached, Pending,
      WritePhases, DiskInv, CommandInv, CleaningInv, TreesInv, ReplayInv
<1>4. CleaningInv'
  BY NoneAssumption
  DEF Inv, app, local, ghosts, Empty, Registered, Expendable, Fails, Goto, Reply, At,
      AfterCleanup, Expire, Cleaning, Holding, CleaningInv
<1>5. TreesInv'
  BY KindsFacts, NoneAssumption
  DEF Inv, app, local, ghosts, Empty, Registered, Expendable, Fails, Goto, Reply, At, Entry,
      AfterCleanup, Expire, Present, Trees, Holding, Saved, Reached, TreesInv
<1>6. ReplayInv'
  BY KindsFacts, NoneAssumption
  DEF Inv, app, local, ghosts, Empty, Registered, Expendable, Fails, Goto, Reply, At, Entry,
      AfterCleanup, Expire, Present, EntryPoints, Holding, Reached, WritePhases, ReplayInv
<1>7. AnswersAreTrue'
  BY KindsFacts, NoneAssumption
  DEF Inv, app, local, ghosts, Empty, Registered, Expendable, Fails, Goto, Reply, At, Entry,
      AfterCleanup, Expire, Present, Chosen, Whole, JournalIsTrue, AnswersAreTrue,
      PreSnapshot, Trees, Cleaning, EntryPoints, Quiet, Holding, Saved, Reached, Pending,
      WritePhases, DiskInv, CommandInv, CleaningInv, TreesInv, ReplayInv
<1>8. QED
  BY <1>1, <1>2, <1>3, <1>4, <1>5, <1>6, <1>7 DEF Inv

(* The same when the root goes.                                               *)
LEMMA RemoveRootKeeps ==
  ASSUME Inv, NEW o \in Outcomes, RemoveRoot(o)
  PROVE  Inv'
<1>1. TypeInv'
  BY KindsFacts, NoneAssumption, HistoryConstants
  DEF Inv, Images, Phases, StopStates, Records, Registries, Stages, Snapshots, app, local,
      ghosts, Fails, Goto, Reply, At, AfterCleanup, RemoveRoot, TypeOK, PreSnapshot, Trees,
      Cleaning, EntryPoints, Points, TypeInv
<1>2. DiskInv'
  BY KindsFacts, NoneAssumption
  DEF Inv, app, local, ghosts, Registered, Fails, Goto, Reply, At, Entry, AfterCleanup,
      RemoveRoot, Present, Chosen, Whole, JournalIsTrue, AnswersAreTrue, PreSnapshot, Trees,
      Cleaning, EntryPoints, Quiet, Holding, Saved, Reached, Pending, WritePhases, DiskInv,
      CommandInv, CleaningInv, TreesInv, ReplayInv
<1>3. CommandInv'
  BY KindsFacts, NoneAssumption
  DEF Inv, app, local, ghosts, Registered, Fails, Goto, Reply, At, Entry, AfterCleanup,
      RemoveRoot, Present, Chosen, Whole, JournalIsTrue, AnswersAreTrue, PreSnapshot, Trees,
      Cleaning, EntryPoints, Quiet, Holding, Saved, Reached, Pending, WritePhases, DiskInv,
      CommandInv, CleaningInv, TreesInv, ReplayInv
<1>4. CleaningInv'
  BY NoneAssumption
  DEF Inv, app, local, ghosts, Fails, Goto, Reply, At, AfterCleanup, RemoveRoot, Cleaning,
      Holding, CleaningInv
<1>5. TreesInv'
  BY KindsFacts, NoneAssumption
  DEF Inv, app, local, ghosts, Registered, Fails, Goto, Reply, At, Entry, AfterCleanup,
      RemoveRoot, Present, Trees, Holding, Saved, Reached, TreesInv
<1>6. ReplayInv'
  BY KindsFacts, NoneAssumption
  DEF Inv, app, local, ghosts, Fails, Goto, Reply, At, Entry, AfterCleanup, RemoveRoot,
      Present, EntryPoints, Holding, Reached, WritePhases, ReplayInv
<1>7. AnswersAreTrue'
  BY KindsFacts, NoneAssumption
  DEF Inv, app, local, ghosts, Registered, Fails, Goto, Reply, At, Entry, AfterCleanup,
      RemoveRoot, Present, Chosen, Whole, JournalIsTrue, AnswersAreTrue, PreSnapshot, Trees,
      Cleaning, EntryPoints, Quiet, Holding, Saved, Reached, Pending, WritePhases, DiskInv,
      CommandInv, CleaningInv, TreesInv, ReplayInv
<1>8. QED
  BY <1>1, <1>2, <1>3, <1>4, <1>5, <1>6, <1>7 DEF Inv

(* The same when the registry is emptied.                                     *)
LEMMA EmptyRegistryKeeps ==
  ASSUME Inv, NEW o \in Outcomes, EmptyRegistry(o)
  PROVE  Inv'
<1>1. TypeInv'
  BY KindsFacts, NoneAssumption, HistoryConstants
  DEF Inv, Images, Phases, StopStates, Records, Registries, Stages, Snapshots, app, local,
      ghosts, Empty, Fails, Goto, Reply, At, AfterCleanup, EmptyRegistry, TypeOK,
      PreSnapshot, Trees, Cleaning, EntryPoints, Points, TypeInv
<1>2. DiskInv'
  BY KindsFacts, NoneAssumption
  DEF Inv, app, local, ghosts, Empty, Registered, Fails, Goto, Reply, At, Entry,
      AfterCleanup, EmptyRegistry, Present, Chosen, Whole, JournalIsTrue, AnswersAreTrue,
      PreSnapshot, Trees, Cleaning, EntryPoints, Quiet, Holding, Saved, Reached, Pending,
      WritePhases, DiskInv, CommandInv, CleaningInv, TreesInv, ReplayInv
<1>3. CommandInv'
  BY KindsFacts, NoneAssumption
  DEF Inv, app, local, ghosts, Empty, Registered, Fails, Goto, Reply, At, Entry,
      AfterCleanup, EmptyRegistry, Present, Chosen, Whole, JournalIsTrue, AnswersAreTrue,
      PreSnapshot, Trees, Cleaning, EntryPoints, Quiet, Holding, Saved, Reached, Pending,
      WritePhases, DiskInv, CommandInv, CleaningInv, TreesInv, ReplayInv
<1>4. CleaningInv'
  BY NoneAssumption
  DEF Inv, app, local, ghosts, Empty, Fails, Goto, Reply, At, AfterCleanup, EmptyRegistry,
      Cleaning, Holding, CleaningInv
<1>5. TreesInv'
  BY KindsFacts, NoneAssumption
  DEF Inv, app, local, ghosts, Empty, Registered, Fails, Goto, Reply, At, Entry,
      AfterCleanup, EmptyRegistry, Present, Trees, Holding, Saved, Reached, TreesInv
<1>6. ReplayInv'
  BY KindsFacts, NoneAssumption
  DEF Inv, app, local, ghosts, Empty, Fails, Goto, Reply, At, Entry, AfterCleanup,
      EmptyRegistry, Present, EntryPoints, Holding, Reached, WritePhases, ReplayInv
<1>7. AnswersAreTrue'
  BY KindsFacts, NoneAssumption
  DEF Inv, app, local, ghosts, Empty, Registered, Fails, Goto, Reply, At, Entry,
      AfterCleanup, EmptyRegistry, Present, Chosen, Whole, JournalIsTrue, AnswersAreTrue,
      PreSnapshot, Trees, Cleaning, EntryPoints, Quiet, Holding, Saved, Reached, Pending,
      WritePhases, DiskInv, CommandInv, CleaningInv, TreesInv, ReplayInv
<1>8. QED
  BY <1>1, <1>2, <1>3, <1>4, <1>5, <1>6, <1>7 DEF Inv

(* A compensation starts with the snapshot it needs.                          *)
LEMMA CompensateKeeps ==
  ASSUME Inv, NEW o \in Outcomes, Compensate(o)
  PROVE  Inv'
<1>1. TypeInv'
  <2>1. record' \in Records \cup {None} /\ hand' \in Records \cup {None}
    BY NoneAssumption, HistoryConstants, KindsFacts
      DEF Inv, TypeInv, TypeOK, disk, app, ghosts, Fails, Goto, Reply, At, Compensate
  <2>2. registry' \in Registries
    BY NoneAssumption, HistoryConstants, KindsFacts
      DEF Inv, TypeInv, TypeOK, disk, app, ghosts, Fails, Goto, Reply, At, Compensate,
        Registries
  <2>3. snapshot' \in Snapshots \cup {None}
    BY NoneAssumption, HistoryConstants, KindsFacts
      DEF Inv, TypeInv, TypeOK, disk, app, ghosts, Fails, Goto, Reply, At, Compensate
  <2>4. creds' \in Images /\ before' \in Images
    BY NoneAssumption, HistoryConstants, KindsFacts
      DEF Inv, TypeInv, TypeOK, disk, app, ghosts, Fails, Goto, Reply, At, Compensate
  <2>5. pos' \in 1 .. Len(Kinds)
    BY NoneAssumption, HistoryConstants, KindsFacts
      DEF Inv, TypeInv, TypeOK, disk, app, ghosts, Fails, Goto, Reply, At, Compensate
  <2>6. /\ pc' \in Points /\ note' \in {"none", "exact_stopped", "not_stopped", "unknown", "capture",
                                   "success", "early"}
        /\ pc' = "publish_stop" => note' \in {"exact_stopped", "not_stopped", "unknown"}
    BY NoneAssumption, HistoryConstants, KindsFacts
      DEF Inv, TypeInv, TypeOK, disk, app, ghosts, Fails, Goto, Reply, At, Compensate,
        Points, PreSnapshot, Trees, Cleaning, EntryPoints
  <2>7. /\ faults' \in 0 .. MaxFaults /\ crashes' \in 0 .. MaxCrashes /\ op' \in 0 .. MaxOps
        /\ science' \in {"running", "stopped"} /\ managed' \in BOOLEAN /\ session' \in BOOLEAN
        /\ resume' \in BOOLEAN /\ failed' \in BOOLEAN /\ early' \in BOOLEAN
        /\ by' \in {"restore", "one_click"}
    <3>1. faults' \in 0 .. MaxFaults
      BY HistoryConstants DEF Inv, TypeInv, TypeOK, Compensate, Fails
    <3>2. QED
      BY <3>1 DEF Inv, TypeInv, TypeOK, Compensate, app, ghosts
  <2>8. QED
    BY <2>1, <2>2, <2>3, <2>4, <2>5, <2>6, <2>7 DEF TypeInv, TypeOK
<1>2. DiskInv'
  BY NoneAssumption
  DEF Inv, disk, app, ghosts, Registered, Fails, Goto, Reply, At, Compensate, Chosen, Whole,
      JournalIsTrue, DiskInv
<1>3. CommandInv'
  BY KindsFacts, NoneAssumption
  DEF Inv, disk, app, ghosts, Registered, Fails, Goto, Reply, At, Compensate, Chosen,
      PreSnapshot, Trees, Cleaning, EntryPoints, Quiet, Holding, Saved, Reached, Pending,
      CommandInv
<1>4. CleaningInv'
  BY NoneAssumption
  DEF Inv, disk, app, ghosts, Fails, Goto, Reply, At, Compensate, Cleaning, Holding,
      CleaningInv
<1>5. TreesInv'
  BY KindsFacts, NoneAssumption
  DEF Inv, disk, app, ghosts, Registered, Fails, Goto, Reply, At, Entry, Compensate,
      Present, Trees, Holding, Saved, Reached, TreesInv
<1>6. ReplayInv'
  BY KindsFacts, NoneAssumption
  DEF Inv, disk, app, ghosts, Registered, Fails, Goto, Reply, At, Entry, Compensate,
      Present, Chosen, Whole, JournalIsTrue, AnswersAreTrue, PreSnapshot, Trees, Cleaning,
      EntryPoints, Quiet, Holding, Saved, Reached, Pending, WritePhases, DiskInv,
      CommandInv, CleaningInv, TreesInv, ReplayInv
<1>7. AnswersAreTrue'
  BY NoneAssumption
  DEF Inv, disk, app, ghosts, Fails, Goto, Reply, At, Compensate, Chosen, AnswersAreTrue
<1>8. QED
  BY <1>1, <1>2, <1>3, <1>4, <1>5, <1>6, <1>7 DEF Inv

(* A tree is removed before it is copied back.                                *)
LEMMA TreeRemoveKeeps ==
  ASSUME Inv, NEW o \in Outcomes, TreeRemove(o)
  PROVE  Inv'
<1>1. TypeInv'
  <2>1. record' \in Records \cup {None} /\ hand' \in Records \cup {None}
    BY NoneAssumption, HistoryConstants, KindsFacts
      DEF Inv, TypeInv, TypeOK, app, Fails, Goto, At, Entry, Present, NextTree, TreeRemove
  <2>2. registry' \in Registries
    BY NoneAssumption, HistoryConstants, KindsFacts
      DEF Inv, TypeInv, TypeOK, app, Fails, Goto, At, Entry, Present, NextTree, TreeRemove,
        Registries
  <2>3. snapshot' \in Snapshots \cup {None}
    BY NoneAssumption, HistoryConstants, KindsFacts
      DEF Inv, TypeInv, TypeOK, app, Fails, Goto, At, Entry, Present, NextTree, TreeRemove
  <2>4. creds' \in Images /\ before' \in Images
    <3>1. Entry \in Entries /\ creds \in Images
      BY AtEntry DEF Inv, TypeInv, TypeOK
    <3>2. creds[Entry] \in Values /\ None \in Values
      BY <3>1 DEF Images, Values
    <3>3. \E v \in Values : creds' = [creds EXCEPT ![Entry] = v]
      BY <3>1, <3>2 DEF TreeRemove
    <3>4. before' \in Images
      BY DEF Inv, TypeInv, TypeOK, TreeRemove, ghosts
    <3>5. QED
      BY <3>1, <3>3, <3>4, EntryChange
  <2>5. pos' \in 1 .. Len(Kinds)
    BY NoneAssumption, HistoryConstants, KindsFacts
      DEF Inv, TypeInv, TypeOK, app, Fails, Goto, At, Entry, Present, NextTree, TreeRemove
  <2>6. /\ pc' \in Points /\ note' \in {"none", "exact_stopped", "not_stopped", "unknown", "capture",
                                   "success", "early"}
        /\ pc' = "publish_stop" => note' \in {"exact_stopped", "not_stopped", "unknown"}
    BY NoneAssumption, HistoryConstants, KindsFacts
      DEF Inv, TypeInv, TypeOK, app, Fails, Goto, At, Entry, Present, NextTree, TreeRemove,
        Points, PreSnapshot, Trees, Cleaning, EntryPoints
  <2>7. /\ faults' \in 0 .. MaxFaults /\ crashes' \in 0 .. MaxCrashes /\ op' \in 0 .. MaxOps
        /\ science' \in {"running", "stopped"} /\ managed' \in BOOLEAN /\ session' \in BOOLEAN
        /\ resume' \in BOOLEAN /\ failed' \in BOOLEAN /\ early' \in BOOLEAN
        /\ by' \in {"restore", "one_click"}
    BY NoneAssumption, HistoryConstants, KindsFacts
      DEF Inv, TypeInv, TypeOK, app, Fails, Goto, At, Entry, Present, NextTree, TreeRemove
  <2>8. QED
    BY <2>1, <2>2, <2>3, <2>4, <2>5, <2>6, <2>7 DEF TypeInv, TypeOK
<1>2. DiskInv'
  BY KindsFacts, NoneAssumption
  DEF Inv, app, Registered, Fails, Goto, At, Entry, Present, NextTree, TreeRemove, Chosen,
      Whole, JournalIsTrue, AnswersAreTrue, PreSnapshot, Trees, Cleaning, EntryPoints,
      Quiet, Holding, Saved, Reached, Pending, WritePhases, DiskInv, CommandInv,
      CleaningInv, TreesInv, ReplayInv
<1>3. CommandInv'
  BY KindsFacts, NoneAssumption
  DEF Inv, app, Registered, Fails, Goto, At, Entry, Present, NextTree, TreeRemove, Chosen,
      PreSnapshot, Trees, Cleaning, EntryPoints, Quiet, Holding, Saved, Reached, Pending,
      CommandInv
<1>4. CleaningInv'
  BY KindsFacts, NoneAssumption
  DEF Inv, app, Fails, Goto, At, Entry, Present, NextTree, TreeRemove, Cleaning, Holding,
      CleaningInv
<1>5. TreesInv'
  <2>1. /\ Holding({"stop_old_science", "authority_snapshot_active"})
        /\ Saved({"captured", "manifest"}) /\ (failed \/ Reached(before))
    BY DEF Inv, TreesInv, Trees, TreeRemove, At
  <2>2. TypeOK /\ pos \in 1 .. 4 /\ Entry \in Entries /\ Len(Kinds) = 4
        /\ creds \in Images /\ before \in Images
    BY AtEntry DEF Inv, TypeInv, TypeOK
  <2>3. /\ UNCHANGED <<record, hand, registry, snapshot, before, op>>
        /\ early' /\ failed' = (failed \/ o # "ok")
        /\ \/ pc' = "tree_copy" /\ Present /\ pos' = pos
           \/ pc' = "tree_remove" /\ (o = "ok" => ~Present) /\ pos # 4 /\ pos' = pos + 1
           \/ pc' = "restore_config" /\ (o = "ok" => ~Present) /\ pos = 4 /\ pos' = pos
    BY <2>2 DEF TreeRemove, NextTree, Goto
  <2>4. creds' \in Images /\ \A f \in Entries : f # Entry => creds'[f] = creds[f]
    <3>1. creds' \in Images
      BY <1>1 DEF TypeInv, TypeOK
    <3>2. QED
      BY <2>2, <3>1 DEF TreeRemove, Images
  <2>5. failed' \/ Reached(before)
    BY <2>1, <2>3
  <2>6. ~failed' => \A i \in 1 .. 4 : i < pos => creds'[Kinds[i]] = before[Kinds[i]]
    BY <2>2, <2>4, <2>5, ReachedStep
  <2>7. ~failed' /\ pc' # "tree_copy" => creds'[Entry] = before[Entry]
    <3>1. ~failed' /\ pc' # "tree_copy" => ~Present /\ o = "ok"
      BY <2>3
    <3>2. ~Present => before[Entry] = None
      BY <2>1 DEF Present, Saved
    <3>3. o = "ok" => creds'[Entry] = None
      BY <2>2 DEF TreeRemove, Images
    <3>4. QED
      BY <3>1, <3>2, <3>3
  <2>8. ~failed' /\ pc' # "tree_copy" =>
          \A i \in 1 .. 4 : i < pos + 1 => creds'[Kinds[i]] = before[Kinds[i]]
    BY <2>2, <2>4, <2>5, <2>7, ReachedStep
  <2>9. pc' \in {"tree_remove", "tree_copy"} => failed' \/ Reached(before)'
    BY <2>3, <2>6, <2>8 DEF Reached
  <2>10. pc' = "restore_config" => failed' \/ creds' = before'
    <3>1. pc' = "restore_config" /\ ~failed' =>
            \A i \in 1 .. 4 : creds'[Kinds[i]] = before[Kinds[i]]
      BY <2>3, <2>8
    <3>2. QED
      BY <2>2, <2>3, <2>4, <3>1, AllReached
  <2>11. pc' = "tree_copy" => Present'
    BY <2>3 DEF Present, Entry
  <2>12. QED
    BY <2>1, <2>3, <2>9, <2>10, <2>11 DEF TreesInv, Trees, Holding, Saved, Registered
<1>6. ReplayInv'
  BY KindsFacts, NoneAssumption
  DEF Inv, app, Fails, Goto, At, Entry, Present, NextTree, TreeRemove, EntryPoints, Holding,
      Reached, WritePhases, ReplayInv
<1>7. AnswersAreTrue'
  BY KindsFacts, NoneAssumption
  DEF Inv, app, Fails, Goto, At, Entry, Present, NextTree, TreeRemove, Chosen,
      AnswersAreTrue
<1>8. QED
  BY <1>1, <1>2, <1>3, <1>4, <1>5, <1>6, <1>7 DEF Inv

(* A tree copied back is the one before, or an error is kept.                 *)
LEMMA TreeCopyKeeps ==
  ASSUME Inv, NEW o \in Outcomes, TreeCopy(o)
  PROVE  Inv'
<1>1. TypeInv'
  BY KindsFacts, NoneAssumption, HistoryConstants
  DEF Inv, Images, Phases, StopStates, Records, Registries, Stages, Snapshots, app, ghosts,
      Registered, Fails, Goto, At, Entry, Present, NextTree, TreeCopy, Chosen, Whole,
      TypeOK, JournalIsTrue, AnswersAreTrue, PreSnapshot, Trees, Cleaning, EntryPoints,
      Points, TypeInv, Quiet, Holding, Saved, Reached, Pending, WritePhases, DiskInv,
      CommandInv, CleaningInv, TreesInv, ReplayInv
<1>2. DiskInv'
  BY KindsFacts, NoneAssumption
  DEF Inv, app, ghosts, Registered, Fails, Goto, At, Entry, Present, NextTree, TreeCopy,
      Chosen, Whole, JournalIsTrue, AnswersAreTrue, PreSnapshot, Trees, Cleaning,
      EntryPoints, Quiet, Holding, Saved, Reached, Pending, WritePhases, DiskInv,
      CommandInv, CleaningInv, TreesInv, ReplayInv
<1>3. CommandInv'
  BY KindsFacts, NoneAssumption
  DEF Inv, app, ghosts, Registered, Fails, Goto, At, Entry, NextTree, TreeCopy, Chosen,
      PreSnapshot, Trees, Cleaning, EntryPoints, Quiet, Holding, Saved, Reached, Pending,
      CommandInv
<1>4. CleaningInv'
  BY KindsFacts, NoneAssumption
  DEF Inv, app, ghosts, Fails, Goto, At, Entry, NextTree, TreeCopy, Cleaning, Holding,
      CleaningInv
<1>5. TreesInv'
  <2>1. /\ Holding({"stop_old_science", "authority_snapshot_active"})
        /\ Saved({"captured", "manifest"}) /\ (failed \/ Reached(before))
    BY DEF Inv, TreesInv, Trees, TreeCopy, At
  <2>2. TypeOK /\ pos \in 1 .. 4 /\ Entry \in Entries /\ Len(Kinds) = 4
        /\ creds \in Images /\ before \in Images
    BY AtEntry DEF Inv, TypeInv, TypeOK
  <2>3. /\ UNCHANGED <<record, hand, registry, snapshot, before, op>>
        /\ early' /\ failed' = (failed \/ o # "ok")
        /\ \/ pc' = "tree_copy" /\ Present /\ pos' = pos
           \/ pc' = "tree_remove" /\ pos # 4 /\ pos' = pos + 1
           \/ pc' = "restore_config" /\ pos = 4 /\ pos' = pos
    BY <2>2 DEF Inv, TreesInv, TreeCopy, At, NextTree, Goto, ghosts
  <2>4. creds' \in Images /\ \A f \in Entries : f # Entry => creds'[f] = creds[f]
    <3>1. creds' \in Images
      BY <1>1 DEF TypeInv, TypeOK
    <3>2. QED
      BY <2>2, <3>1 DEF TreeCopy, Images
  <2>5. failed' \/ Reached(before)
    BY <2>1, <2>3
  <2>6. ~failed' => \A i \in 1 .. 4 : i < pos => creds'[Kinds[i]] = before[Kinds[i]]
    BY <2>2, <2>4, <2>5, ReachedStep
  <2>7. ~failed' /\ pc' # "tree_copy" => creds'[Entry] = before[Entry]
    <3>1. ~failed' => o = "ok"
      BY <2>3
    <3>2. o = "ok" => creds'[Entry] = snapshot.image[Entry]
      BY <2>2 DEF TreeCopy, Images
    <3>3. QED
      BY <2>1, <3>1, <3>2 DEF Saved
  <2>8. ~failed' /\ pc' # "tree_copy" =>
          \A i \in 1 .. 4 : i < pos + 1 => creds'[Kinds[i]] = before[Kinds[i]]
    BY <2>2, <2>4, <2>5, <2>7, ReachedStep
  <2>9. pc' \in {"tree_remove", "tree_copy"} => failed' \/ Reached(before)'
    BY <2>3, <2>6, <2>8 DEF Reached
  <2>10. pc' = "restore_config" => failed' \/ creds' = before'
    <3>1. pc' = "restore_config" /\ ~failed' =>
            \A i \in 1 .. 4 : creds'[Kinds[i]] = before[Kinds[i]]
      BY <2>3, <2>8
    <3>2. QED
      BY <2>2, <2>3, <2>4, <3>1, AllReached
  <2>11. pc' = "tree_copy" => Present'
    BY <2>3 DEF Present, Entry
  <2>12. QED
    BY <2>1, <2>3, <2>9, <2>10, <2>11 DEF TreesInv, Trees, Holding, Saved, Registered
<1>6. ReplayInv'
  BY KindsFacts, NoneAssumption
  DEF Inv, app, ghosts, Fails, Goto, At, Entry, Present, NextTree, TreeCopy, EntryPoints,
      Holding, Reached, WritePhases, ReplayInv
<1>7. AnswersAreTrue'
  BY KindsFacts, NoneAssumption
  DEF Inv, app, ghosts, Fails, Goto, At, Entry, NextTree, TreeCopy, Chosen, AnswersAreTrue
<1>8. QED
  BY <1>1, <1>2, <1>3, <1>4, <1>5, <1>6, <1>7 DEF Inv

(* Only a clean restore gives the record and the snapshot up.                 *)
LEMMA RestoreConfigKeeps ==
  ASSUME Inv, NEW o \in Outcomes, RestoreConfig(o)
  PROVE  Inv'
<1>1. TypeInv'
  BY KindsFacts, NoneAssumption, HistoryConstants
  DEF Inv, Images, Phases, StopStates, Records, Registries, Stages, Snapshots, app, ghosts,
      Fails, Cas, Goto, Reply, At, RestoreConfig, TypeOK, PreSnapshot, Trees, Cleaning,
      EntryPoints, Points, TypeInv
<1>2. DiskInv'
  BY KindsFacts, NoneAssumption
  DEF Inv, app, ghosts, Registered, Fails, Cas, Goto, Reply, At, Entry, Present,
      RestoreConfig, Chosen, Whole, JournalIsTrue, AnswersAreTrue, PreSnapshot, Trees,
      Cleaning, EntryPoints, Quiet, Holding, Saved, Reached, Pending, WritePhases, DiskInv,
      CommandInv, CleaningInv, TreesInv, ReplayInv
<1>3. CommandInv'
  BY KindsFacts, NoneAssumption
  DEF Inv, app, ghosts, Registered, Fails, Cas, Goto, Reply, At, RestoreConfig, Chosen,
      PreSnapshot, Trees, Cleaning, EntryPoints, Quiet, Holding, Saved, Reached, Pending,
      CommandInv
<1>4. CleaningInv'
  BY KindsFacts, NoneAssumption
  DEF Inv, app, ghosts, Registered, Fails, Cas, Goto, Reply, At, Entry, Present,
      RestoreConfig, Chosen, Whole, JournalIsTrue, AnswersAreTrue, PreSnapshot, Trees,
      Cleaning, EntryPoints, Quiet, Holding, Saved, Reached, Pending, WritePhases, DiskInv,
      CommandInv, CleaningInv, TreesInv, ReplayInv
<1>5. TreesInv'
  BY KindsFacts, NoneAssumption
  DEF Inv, app, ghosts, Registered, Fails, Cas, Goto, Reply, At, Entry, Present,
      RestoreConfig, Trees, Holding, Saved, Reached, TreesInv
<1>6. ReplayInv'
  BY KindsFacts, NoneAssumption
  DEF Inv, app, ghosts, Fails, Cas, Goto, Reply, At, Entry, Present, RestoreConfig,
      EntryPoints, Holding, Reached, WritePhases, ReplayInv
<1>7. AnswersAreTrue'
  BY NoneAssumption
  DEF Inv, app, ghosts, Fails, Cas, Goto, Reply, At, RestoreConfig, Chosen, AnswersAreTrue
<1>8. QED
  BY <1>1, <1>2, <1>3, <1>4, <1>5, <1>6, <1>7 DEF Inv

(* A restore under the intent starts with Science stopped.                    *)
LEMMA QuiesceKeeps ==
  ASSUME Inv, NEW o \in Outcomes, Quiesce(o)
  PROVE  Inv'
<1>1. TypeInv'
  BY KindsFacts, NoneAssumption, HistoryConstants
  DEF Inv, Images, Phases, StopStates, Records, Registries, Stages, Snapshots, disk, app,
      local, ghosts, Fails, Goto, Reply, At, Refuse, Quiesce, TypeOK, PreSnapshot, Trees,
      Cleaning, EntryPoints, Points, TypeInv
<1>2. DiskInv'
  BY NoneAssumption
  DEF Inv, disk, app, local, ghosts, Registered, Fails, Goto, Reply, At, Refuse, Quiesce,
      Chosen, Whole, JournalIsTrue, DiskInv
<1>3. CommandInv'
  BY KindsFacts, NoneAssumption
  DEF Inv, Images, Phases, StopStates, Records, Registries, Stages, Snapshots, disk, app,
      local, ghosts, Registered, Fails, Goto, Reply, At, Entry, Present, Refuse, Quiesce,
      Chosen, Whole, TypeOK, JournalIsTrue, AnswersAreTrue, PreSnapshot, Trees, Cleaning,
      EntryPoints, Points, TypeInv, Quiet, Holding, Saved, Reached, Pending, WritePhases,
      DiskInv, CommandInv, CleaningInv, TreesInv, ReplayInv
<1>4. CleaningInv'
  BY NoneAssumption
  DEF Inv, disk, app, local, ghosts, Fails, Goto, Reply, At, Refuse, Quiesce, Cleaning,
      Holding, CleaningInv
<1>5. TreesInv'
  BY KindsFacts, NoneAssumption
  DEF Inv, disk, app, local, ghosts, Registered, Fails, Goto, Reply, At, Entry, Present,
      Refuse, Quiesce, Trees, Holding, Saved, Reached, TreesInv
<1>6. ReplayInv'
  BY KindsFacts, NoneAssumption
  DEF Inv, disk, app, local, ghosts, Fails, Goto, Reply, At, Entry, Present, Refuse,
      Quiesce, EntryPoints, Holding, Reached, WritePhases, ReplayInv
<1>7. AnswersAreTrue'
  BY NoneAssumption
  DEF Inv, disk, app, local, ghosts, Fails, Goto, Reply, At, Refuse, Quiesce, Chosen,
      AnswersAreTrue
<1>8. QED
  BY <1>1, <1>2, <1>3, <1>4, <1>5, <1>6, <1>7 DEF Inv

(* The intent to restore keeps the snapshot.                                  *)
LEMMA IntendRestoreKeeps ==
  ASSUME Inv, NEW o \in Outcomes, IntendRestore(o)
  PROVE  Inv'
<1>1. TypeInv'
  BY KindsFacts, NoneAssumption, HistoryConstants
  DEF Inv, Images, Phases, StopStates, Records, Registries, Stages, Snapshots, app, ghosts,
      Registered, Fails, Cas, Goto, Reply, Advance, At, Entry, Present, Refuse,
      IntendRestore, Chosen, Whole, TypeOK, JournalIsTrue, AnswersAreTrue, PreSnapshot,
      Trees, Cleaning, EntryPoints, Points, TypeInv, Quiet, Holding, Saved, Reached,
      Pending, WritePhases, DiskInv, CommandInv, CleaningInv, TreesInv, ReplayInv
<1>2. DiskInv'
  BY KindsFacts, NoneAssumption
  DEF Inv, Images, Phases, StopStates, Records, Registries, Stages, Snapshots, app, ghosts,
      Registered, Fails, Cas, Goto, Reply, Advance, At, Entry, Present, Refuse,
      IntendRestore, Chosen, Whole, TypeOK, JournalIsTrue, AnswersAreTrue, PreSnapshot,
      Trees, Cleaning, EntryPoints, Points, TypeInv, Quiet, Holding, Saved, Reached,
      Pending, WritePhases, DiskInv, CommandInv, CleaningInv, TreesInv, ReplayInv
<1>3. CommandInv'
  BY KindsFacts, NoneAssumption
  DEF Inv, app, ghosts, Registered, Fails, Cas, Goto, Reply, Advance, At, Refuse,
      IntendRestore, Chosen, PreSnapshot, Trees, Cleaning, EntryPoints, Quiet, Holding,
      Saved, Reached, Pending, CommandInv
<1>4. CleaningInv'
  BY NoneAssumption
  DEF Inv, app, ghosts, Fails, Cas, Goto, Reply, Advance, At, Refuse, IntendRestore,
      Cleaning, Holding, CleaningInv
<1>5. TreesInv'
  BY KindsFacts, NoneAssumption
  DEF Inv, app, ghosts, Registered, Fails, Cas, Goto, Reply, Advance, At, Entry, Present,
      Refuse, IntendRestore, Trees, Holding, Saved, Reached, TreesInv
<1>6. ReplayInv'
  BY KindsFacts, NoneAssumption
  DEF Inv, Images, Phases, StopStates, Records, Registries, Stages, Snapshots, app, ghosts,
      Registered, Fails, Cas, Goto, Reply, Advance, At, Entry, Present, Refuse,
      IntendRestore, Chosen, Whole, TypeOK, JournalIsTrue, AnswersAreTrue, PreSnapshot,
      Trees, Cleaning, EntryPoints, Points, TypeInv, Quiet, Holding, Saved, Reached,
      Pending, WritePhases, DiskInv, CommandInv, CleaningInv, TreesInv, ReplayInv
<1>7. AnswersAreTrue'
  BY NoneAssumption
  DEF Inv, app, ghosts, Fails, Cas, Goto, Reply, Advance, At, Refuse, IntendRestore, Chosen,
      AnswersAreTrue
<1>8. QED
  BY <1>1, <1>2, <1>3, <1>4, <1>5, <1>6, <1>7 DEF Inv

(* The manifest of the record is the one that is opened.                      *)
LEMMA OpenManifestKeeps ==
  ASSUME Inv, NEW o \in Outcomes, OpenManifest(o)
  PROVE  Inv'
<1>1. TypeInv'
  BY KindsFacts, NoneAssumption, HistoryConstants
  DEF Inv, Images, Phases, StopStates, Records, Registries, Stages, Snapshots, disk, app,
      ghosts, Fails, Goto, Reply, At, Refuse, OpenManifest, TypeOK, PreSnapshot, Trees,
      Cleaning, EntryPoints, Points, TypeInv
<1>2. DiskInv'
  BY NoneAssumption
  DEF Inv, disk, app, ghosts, Registered, Fails, Goto, Reply, At, Refuse, OpenManifest,
      Chosen, Whole, JournalIsTrue, DiskInv
<1>3. CommandInv'
  BY KindsFacts, NoneAssumption
  DEF Inv, disk, app, ghosts, Registered, Fails, Goto, Reply, At, Refuse, OpenManifest,
      Chosen, PreSnapshot, Trees, Cleaning, EntryPoints, Quiet, Holding, Saved, Reached,
      Pending, CommandInv
<1>4. CleaningInv'
  BY NoneAssumption
  DEF Inv, disk, app, ghosts, Fails, Goto, Reply, At, Refuse, OpenManifest, Cleaning,
      Holding, CleaningInv
<1>5. TreesInv'
  BY KindsFacts, NoneAssumption
  DEF Inv, disk, app, ghosts, Registered, Fails, Goto, Reply, At, Entry, Present, Refuse,
      OpenManifest, Trees, Holding, Saved, Reached, TreesInv
<1>6. ReplayInv'
  BY KindsFacts, NoneAssumption
  DEF Inv, disk, app, ghosts, Registered, Fails, Goto, Reply, At, Entry, Present, Refuse,
      OpenManifest, Chosen, Whole, JournalIsTrue, PreSnapshot, Trees, Cleaning, EntryPoints,
      Quiet, Holding, Saved, Reached, Pending, WritePhases, DiskInv, CommandInv, ReplayInv
<1>7. AnswersAreTrue'
  BY NoneAssumption
  DEF Inv, disk, app, ghosts, Fails, Goto, Reply, At, Refuse, OpenManifest, Chosen,
      AnswersAreTrue
<1>8. QED
  BY <1>1, <1>2, <1>3, <1>4, <1>5, <1>6, <1>7 DEF Inv

(* An entry is removed under the intent to restore.                           *)
LEMMA EntryRemoveKeeps ==
  ASSUME Inv, NEW o \in Outcomes, EntryRemove(o)
  PROVE  Inv'
<1>1. TypeInv'
  <2>1. record' \in Records \cup {None} /\ hand' \in Records \cup {None}
    BY NoneAssumption, HistoryConstants, KindsFacts
      DEF Inv, TypeInv, TypeOK, app, ghosts, Fails, Goto, Reply, At, Entry, Present, Refuse,
        NextEntry, EntryRemove
  <2>2. registry' \in Registries
    BY NoneAssumption, HistoryConstants, KindsFacts
      DEF Inv, TypeInv, TypeOK, app, ghosts, Fails, Goto, Reply, At, Entry, Present, Refuse,
        NextEntry, EntryRemove, Registries
  <2>3. snapshot' \in Snapshots \cup {None}
    BY NoneAssumption, HistoryConstants, KindsFacts
      DEF Inv, TypeInv, TypeOK, app, ghosts, Fails, Goto, Reply, At, Entry, Present, Refuse,
        NextEntry, EntryRemove
  <2>4. creds' \in Images /\ before' \in Images
    <3>1. Entry \in Entries /\ creds \in Images
      BY AtEntry DEF Inv, TypeInv, TypeOK
    <3>2. creds[Entry] \in Values /\ None \in Values
      BY <3>1 DEF Images, Values
    <3>3. \E v \in Values : creds' = [creds EXCEPT ![Entry] = v]
      BY <3>1, <3>2 DEF EntryRemove
    <3>4. before' \in Images
      BY DEF Inv, TypeInv, TypeOK, EntryRemove, ghosts
    <3>5. QED
      BY <3>1, <3>3, <3>4, EntryChange
  <2>5. pos' \in 1 .. Len(Kinds)
    BY NoneAssumption, HistoryConstants, KindsFacts
      DEF Inv, TypeInv, TypeOK, app, ghosts, Fails, Goto, Reply, At, Entry, Present, Refuse,
        NextEntry, EntryRemove
  <2>6. /\ pc' \in Points /\ note' \in {"none", "exact_stopped", "not_stopped", "unknown", "capture",
                                   "success", "early"}
        /\ pc' = "publish_stop" => note' \in {"exact_stopped", "not_stopped", "unknown"}
    BY NoneAssumption, HistoryConstants, KindsFacts
      DEF Inv, TypeInv, TypeOK, app, ghosts, Fails, Goto, Reply, At, Entry, Present, Refuse,
        NextEntry, EntryRemove, Points, PreSnapshot, Trees, Cleaning, EntryPoints
  <2>7. /\ faults' \in 0 .. MaxFaults /\ crashes' \in 0 .. MaxCrashes /\ op' \in 0 .. MaxOps
        /\ science' \in {"running", "stopped"} /\ managed' \in BOOLEAN /\ session' \in BOOLEAN
        /\ resume' \in BOOLEAN /\ failed' \in BOOLEAN /\ early' \in BOOLEAN
        /\ by' \in {"restore", "one_click"}
    BY NoneAssumption, HistoryConstants, KindsFacts
      DEF Inv, TypeInv, TypeOK, app, ghosts, Fails, Goto, Reply, At, Entry, Present, Refuse,
        NextEntry, EntryRemove
  <2>8. QED
    BY <2>1, <2>2, <2>3, <2>4, <2>5, <2>6, <2>7 DEF TypeInv, TypeOK
<1>2. DiskInv'
  BY KindsFacts, NoneAssumption
  DEF Inv, app, ghosts, Registered, Fails, Goto, Reply, At, Entry, Present, Refuse,
      NextEntry, EntryRemove, Chosen, Whole, JournalIsTrue, AnswersAreTrue, PreSnapshot,
      Trees, Cleaning, EntryPoints, Quiet, Holding, Saved, Reached, Pending, WritePhases,
      DiskInv, CommandInv, CleaningInv, TreesInv, ReplayInv
<1>3. CommandInv'
  BY KindsFacts, NoneAssumption
  DEF Inv, app, ghosts, Registered, Fails, Goto, Reply, At, Entry, Present, Refuse,
      NextEntry, EntryRemove, Chosen, PreSnapshot, Trees, Cleaning, EntryPoints, Quiet,
      Holding, Saved, Reached, Pending, CommandInv
<1>4. CleaningInv'
  BY KindsFacts, NoneAssumption
  DEF Inv, app, ghosts, Fails, Goto, Reply, At, Entry, Present, Refuse, NextEntry,
      EntryRemove, Cleaning, Holding, CleaningInv
<1>5. TreesInv'
  BY KindsFacts, NoneAssumption
  DEF Inv, app, ghosts, Registered, Fails, Goto, Reply, At, Entry, Present, Refuse,
      NextEntry, EntryRemove, Trees, Holding, Saved, Reached, TreesInv
<1>6. ReplayInv'
  BY KindsFacts, NoneAssumption
  DEF Inv, Images, Phases, StopStates, Records, Registries, Stages, Snapshots, app, ghosts,
      Registered, Fails, Goto, Reply, At, Entry, Present, Refuse, NextEntry, EntryRemove,
      Chosen, Whole, TypeOK, JournalIsTrue, AnswersAreTrue, PreSnapshot, Trees, Cleaning,
      EntryPoints, Points, TypeInv, Quiet, Holding, Saved, Reached, Pending, WritePhases,
      DiskInv, CommandInv, CleaningInv, TreesInv, ReplayInv
<1>7. AnswersAreTrue'
  BY KindsFacts, NoneAssumption
  DEF Inv, app, ghosts, Fails, Goto, Reply, At, Entry, Present, Refuse, NextEntry,
      EntryRemove, Chosen, AnswersAreTrue
<1>8. QED
  BY <1>1, <1>2, <1>3, <1>4, <1>5, <1>6, <1>7 DEF Inv

(* An entry copied back is the one before.                                    *)
LEMMA EntryCopyKeeps ==
  ASSUME Inv, NEW o \in Outcomes, EntryCopy(o)
  PROVE  Inv'
<1>1. TypeInv'
  BY KindsFacts, NoneAssumption, HistoryConstants
  DEF Inv, Images, Phases, StopStates, Records, Registries, Stages, Snapshots, app, ghosts,
      Registered, Fails, Goto, Reply, At, Entry, Present, Refuse, NextEntry, EntryCopy,
      Chosen, Whole, TypeOK, JournalIsTrue, AnswersAreTrue, PreSnapshot, Trees, Cleaning,
      EntryPoints, Points, TypeInv, Quiet, Holding, Saved, Reached, Pending, WritePhases,
      DiskInv, CommandInv, CleaningInv, TreesInv, ReplayInv
<1>2. DiskInv'
  BY KindsFacts, NoneAssumption
  DEF Inv, app, ghosts, Registered, Fails, Goto, Reply, At, Entry, Present, Refuse,
      NextEntry, EntryCopy, Chosen, Whole, JournalIsTrue, AnswersAreTrue, PreSnapshot,
      Trees, Cleaning, EntryPoints, Quiet, Holding, Saved, Reached, Pending, WritePhases,
      DiskInv, CommandInv, CleaningInv, TreesInv, ReplayInv
<1>3. CommandInv'
  BY KindsFacts, NoneAssumption
  DEF Inv, app, ghosts, Registered, Fails, Goto, Reply, At, Entry, Refuse, NextEntry,
      EntryCopy, Chosen, PreSnapshot, Trees, Cleaning, EntryPoints, Quiet, Holding, Saved,
      Reached, Pending, CommandInv
<1>4. CleaningInv'
  BY KindsFacts, NoneAssumption
  DEF Inv, app, ghosts, Fails, Goto, Reply, At, Entry, Refuse, NextEntry, EntryCopy,
      Cleaning, Holding, CleaningInv
<1>5. TreesInv'
  BY KindsFacts, NoneAssumption
  DEF Inv, app, ghosts, Registered, Fails, Goto, Reply, At, Entry, Present, Refuse,
      NextEntry, EntryCopy, Trees, Holding, Saved, Reached, TreesInv
<1>6. ReplayInv'
  BY KindsFacts, NoneAssumption
  DEF Inv, Images, Phases, StopStates, Records, Registries, Stages, Snapshots, app, ghosts,
      Registered, Fails, Goto, Reply, At, Entry, Present, Refuse, NextEntry, EntryCopy,
      Chosen, Whole, TypeOK, JournalIsTrue, AnswersAreTrue, PreSnapshot, Trees, Cleaning,
      EntryPoints, Points, TypeInv, Quiet, Holding, Saved, Reached, Pending, WritePhases,
      DiskInv, CommandInv, CleaningInv, TreesInv, ReplayInv
<1>7. AnswersAreTrue'
  BY KindsFacts, NoneAssumption
  DEF Inv, app, ghosts, Fails, Goto, Reply, At, Entry, Refuse, NextEntry, EntryCopy, Chosen,
      AnswersAreTrue
<1>8. QED
  BY <1>1, <1>2, <1>3, <1>4, <1>5, <1>6, <1>7 DEF Inv

(* All four are back when the record says so.                                 *)
LEMMA SettleRestoreKeeps ==
  ASSUME Inv, NEW o \in Outcomes, SettleRestore(o)
  PROVE  Inv'
<1>1. TypeInv'
  BY KindsFacts, NoneAssumption, HistoryConstants
  DEF Inv, Images, Phases, StopStates, Records, Registries, Stages, Snapshots, app, ghosts,
      Registered, Fails, Cas, Goto, Reply, Advance, At, Entry, Present, Refuse,
      SettleRestore, Chosen, Whole, TypeOK, JournalIsTrue, AnswersAreTrue, PreSnapshot,
      Trees, Cleaning, EntryPoints, Points, TypeInv, Quiet, Holding, Saved, Reached,
      Pending, WritePhases, DiskInv, CommandInv, CleaningInv, TreesInv, ReplayInv
<1>2. DiskInv'
  BY KindsFacts, NoneAssumption
  DEF Inv, Images, Phases, StopStates, Records, Registries, Stages, Snapshots, app, ghosts,
      Registered, Fails, Cas, Goto, Reply, Advance, At, Entry, Present, Refuse,
      SettleRestore, Chosen, Whole, TypeOK, JournalIsTrue, AnswersAreTrue, PreSnapshot,
      Trees, Cleaning, EntryPoints, Points, TypeInv, Quiet, Holding, Saved, Reached,
      Pending, WritePhases, DiskInv, CommandInv, CleaningInv, TreesInv, ReplayInv
<1>3. CommandInv'
  BY KindsFacts, NoneAssumption
  DEF Inv, app, ghosts, Registered, Fails, Cas, Goto, Reply, Advance, At, Refuse,
      SettleRestore, Chosen, PreSnapshot, Trees, Cleaning, EntryPoints, Quiet, Holding,
      Saved, Reached, Pending, CommandInv
<1>4. CleaningInv'
  BY NoneAssumption
  DEF Inv, app, ghosts, Fails, Cas, Goto, Reply, Advance, At, Refuse, SettleRestore,
      Cleaning, Holding, CleaningInv
<1>5. TreesInv'
  BY KindsFacts, NoneAssumption
  DEF Inv, app, ghosts, Registered, Fails, Cas, Goto, Reply, Advance, At, Entry, Present,
      Refuse, SettleRestore, Trees, Holding, Saved, Reached, TreesInv
<1>6. ReplayInv'
  BY KindsFacts, NoneAssumption
  DEF Inv, Images, Phases, StopStates, Records, Registries, Stages, Snapshots, app, ghosts,
      Registered, Fails, Cas, Goto, Reply, Advance, At, Entry, Present, Refuse,
      SettleRestore, Chosen, Whole, TypeOK, JournalIsTrue, AnswersAreTrue, PreSnapshot,
      Trees, Cleaning, EntryPoints, Points, TypeInv, Quiet, Holding, Saved, Reached,
      Pending, WritePhases, DiskInv, CommandInv, CleaningInv, TreesInv, ReplayInv
<1>7. AnswersAreTrue'
  BY NoneAssumption
  DEF Inv, app, ghosts, Fails, Cas, Goto, Reply, Advance, At, Refuse, SettleRestore, Chosen,
      AnswersAreTrue
<1>8. QED
  BY <1>1, <1>2, <1>3, <1>4, <1>5, <1>6, <1>7 DEF Inv

(* The snapshot is given up after the restore is recorded.                    *)
LEMMA SpendKeeps ==
  ASSUME Inv, NEW o \in Outcomes, Spend(o)
  PROVE  Inv'
<1>1. TypeInv'
  BY KindsFacts, NoneAssumption, HistoryConstants
  DEF Inv, Images, Phases, StopStates, Records, Registries, Stages, Snapshots, app, local,
      ghosts, Expendable, Fails, Goto, Reply, At, Refuse, Spend, TypeOK, PreSnapshot, Trees,
      Cleaning, EntryPoints, Points, TypeInv
<1>2. DiskInv'
  BY KindsFacts, NoneAssumption
  DEF Inv, app, local, ghosts, Registered, Expendable, Fails, Goto, Reply, At, Entry,
      Present, Refuse, Spend, Chosen, Whole, JournalIsTrue, AnswersAreTrue, PreSnapshot,
      Trees, Cleaning, EntryPoints, Quiet, Holding, Saved, Reached, Pending, WritePhases,
      DiskInv, CommandInv, CleaningInv, TreesInv, ReplayInv
<1>3. CommandInv'
  BY KindsFacts, NoneAssumption
  DEF Inv, app, local, ghosts, Registered, Expendable, Fails, Goto, Reply, At, Refuse,
      Spend, Chosen, PreSnapshot, Trees, Cleaning, EntryPoints, Quiet, Holding, Saved,
      Reached, Pending, CommandInv
<1>4. CleaningInv'
  BY NoneAssumption
  DEF Inv, app, local, ghosts, Expendable, Fails, Goto, Reply, At, Refuse, Spend, Cleaning,
      Holding, CleaningInv
<1>5. TreesInv'
  BY KindsFacts, NoneAssumption
  DEF Inv, app, local, ghosts, Registered, Expendable, Fails, Goto, Reply, At, Entry,
      Present, Refuse, Spend, Trees, Holding, Saved, Reached, TreesInv
<1>6. ReplayInv'
  BY KindsFacts, NoneAssumption
  DEF Inv, app, local, ghosts, Expendable, Fails, Goto, Reply, At, Entry, Present, Refuse,
      Spend, EntryPoints, Holding, Reached, WritePhases, ReplayInv
<1>7. AnswersAreTrue'
  BY NoneAssumption
  DEF Inv, app, local, ghosts, Expendable, Fails, Goto, Reply, At, Refuse, Spend, Chosen,
      AnswersAreTrue
<1>8. QED
  BY <1>1, <1>2, <1>3, <1>4, <1>5, <1>6, <1>7 DEF Inv

(* The record goes when nothing of it is left to do.                          *)
LEMMA ClearKeeps ==
  ASSUME Inv, NEW o \in Outcomes, Clear(o)
  PROVE  Inv'
<1>1. TypeInv'
  BY KindsFacts, NoneAssumption, HistoryConstants
  DEF Inv, Images, Phases, StopStates, Records, Registries, Stages, Snapshots, app, local,
      ghosts, Fails, Cas, Goto, Reply, At, Refuse, Finish, Clear, TypeOK, PreSnapshot,
      Trees, Cleaning, EntryPoints, Points, TypeInv
<1>2. DiskInv'
  BY KindsFacts, NoneAssumption
  DEF Inv, app, local, ghosts, Registered, Fails, Cas, Goto, Reply, At, Entry, Present,
      Refuse, Finish, Clear, Chosen, Whole, JournalIsTrue, AnswersAreTrue, PreSnapshot,
      Trees, Cleaning, EntryPoints, Quiet, Holding, Saved, Reached, Pending, WritePhases,
      DiskInv, CommandInv, CleaningInv, TreesInv, ReplayInv
<1>3. CommandInv'
  BY KindsFacts, NoneAssumption
  DEF Inv, app, local, ghosts, Registered, Fails, Cas, Goto, Reply, At, Refuse, Finish,
      Clear, Chosen, PreSnapshot, Trees, Cleaning, EntryPoints, Quiet, Holding, Saved,
      Reached, Pending, CommandInv
<1>4. CleaningInv'
  BY NoneAssumption
  DEF Inv, app, local, ghosts, Fails, Cas, Goto, Reply, At, Refuse, Finish, Clear, Cleaning,
      Holding, CleaningInv
<1>5. TreesInv'
  BY KindsFacts, NoneAssumption
  DEF Inv, app, local, ghosts, Registered, Fails, Cas, Goto, Reply, At, Entry, Present,
      Refuse, Finish, Clear, Trees, Holding, Saved, Reached, TreesInv
<1>6. ReplayInv'
  BY KindsFacts, NoneAssumption
  DEF Inv, app, local, ghosts, Registered, Fails, Cas, Goto, Reply, At, Entry, Present,
      Refuse, Finish, Clear, Chosen, Whole, JournalIsTrue, PreSnapshot, Trees, Cleaning,
      EntryPoints, Quiet, Holding, Saved, Reached, Pending, WritePhases, DiskInv,
      CommandInv, ReplayInv
<1>7. AnswersAreTrue'
  BY KindsFacts, NoneAssumption
  DEF Inv, app, local, ghosts, Registered, Fails, Cas, Goto, Reply, At, Entry, Present,
      Refuse, Finish, Clear, Chosen, Whole, JournalIsTrue, AnswersAreTrue, PreSnapshot,
      Trees, Cleaning, EntryPoints, Quiet, Holding, Saved, Reached, Pending, WritePhases,
      DiskInv, CommandInv, CleaningInv, TreesInv, ReplayInv
<1>8. QED
  BY <1>1, <1>2, <1>3, <1>4, <1>5, <1>6, <1>7 DEF Inv

(* An expendable root goes without touching the entries.                      *)
LEMMA RetryRemoveKeeps ==
  ASSUME Inv, NEW o \in Outcomes, RetryRemove(o)
  PROVE  Inv'
<1>1. TypeInv'
  BY KindsFacts, NoneAssumption, HistoryConstants
  DEF Inv, Images, Phases, StopStates, Records, Registries, Stages, Snapshots, app, local,
      ghosts, Empty, Fails, Goto, Reply, At, Refuse, Finish, Ticketed, RetryRemove, TypeOK,
      PreSnapshot, Trees, Cleaning, EntryPoints, Points, TypeInv
<1>2. DiskInv'
  BY NoneAssumption
  DEF Inv, app, local, ghosts, Empty, Registered, Fails, Goto, Reply, At, Refuse, Finish,
      Ticketed, RetryRemove, Chosen, Whole, JournalIsTrue, DiskInv
<1>3. CommandInv'
  BY KindsFacts, NoneAssumption
  DEF Inv, app, local, ghosts, Empty, Registered, Fails, Goto, Reply, At, Refuse, Finish,
      Ticketed, RetryRemove, Chosen, PreSnapshot, Trees, Cleaning, EntryPoints, Quiet,
      Holding, Saved, Reached, Pending, CommandInv
<1>4. CleaningInv'
  BY NoneAssumption
  DEF Inv, app, local, ghosts, Empty, Fails, Goto, Reply, At, Refuse, Finish, Ticketed,
      RetryRemove, Cleaning, Holding, CleaningInv
<1>5. TreesInv'
  BY KindsFacts, NoneAssumption
  DEF Inv, app, local, ghosts, Empty, Registered, Fails, Goto, Reply, At, Entry, Present,
      Refuse, Finish, Ticketed, RetryRemove, Trees, Holding, Saved, Reached, TreesInv
<1>6. ReplayInv'
  BY KindsFacts, NoneAssumption
  DEF Inv, app, local, ghosts, Empty, Fails, Goto, Reply, At, Entry, Present, Refuse,
      Finish, Ticketed, RetryRemove, EntryPoints, Holding, Reached, WritePhases, ReplayInv
<1>7. AnswersAreTrue'
  BY KindsFacts, NoneAssumption
  DEF Inv, app, local, ghosts, Empty, Registered, Fails, Goto, Reply, At, Entry, Present,
      Refuse, Finish, Ticketed, RetryRemove, Chosen, Whole, JournalIsTrue, AnswersAreTrue,
      PreSnapshot, Trees, Cleaning, EntryPoints, Quiet, Holding, Saved, Reached, Pending,
      WritePhases, DiskInv, CommandInv, CleaningInv, TreesInv, ReplayInv
<1>8. QED
  BY <1>1, <1>2, <1>3, <1>4, <1>5, <1>6, <1>7 DEF Inv

(* And so does its registration.                                              *)
LEMMA RetryEmptyKeeps ==
  ASSUME Inv, NEW o \in Outcomes, RetryEmpty(o)
  PROVE  Inv'
<1>1. TypeInv'
  BY KindsFacts, NoneAssumption, HistoryConstants
  DEF Inv, Images, Phases, StopStates, Records, Registries, Stages, Snapshots, app, local,
      ghosts, Empty, Fails, Goto, Reply, At, Refuse, Finish, RetryEmpty, TypeOK,
      PreSnapshot, Trees, Cleaning, EntryPoints, Points, TypeInv
<1>2. DiskInv'
  BY KindsFacts, NoneAssumption
  DEF Inv, app, local, ghosts, Empty, Registered, Fails, Goto, Reply, At, Entry, Present,
      Refuse, Finish, RetryEmpty, Chosen, Whole, JournalIsTrue, AnswersAreTrue, PreSnapshot,
      Trees, Cleaning, EntryPoints, Quiet, Holding, Saved, Reached, Pending, WritePhases,
      DiskInv, CommandInv, CleaningInv, TreesInv, ReplayInv
<1>3. CommandInv'
  BY KindsFacts, NoneAssumption
  DEF Inv, app, local, ghosts, Empty, Registered, Fails, Goto, Reply, At, Refuse, Finish,
      RetryEmpty, Chosen, PreSnapshot, Trees, Cleaning, EntryPoints, Quiet, Holding, Saved,
      Reached, Pending, CommandInv
<1>4. CleaningInv'
  BY NoneAssumption
  DEF Inv, app, local, ghosts, Empty, Fails, Goto, Reply, At, Refuse, Finish, RetryEmpty,
      Cleaning, Holding, CleaningInv
<1>5. TreesInv'
  BY KindsFacts, NoneAssumption
  DEF Inv, app, local, ghosts, Empty, Registered, Fails, Goto, Reply, At, Entry, Present,
      Refuse, Finish, RetryEmpty, Trees, Holding, Saved, Reached, TreesInv
<1>6. ReplayInv'
  BY KindsFacts, NoneAssumption
  DEF Inv, app, local, ghosts, Empty, Fails, Goto, Reply, At, Entry, Present, Refuse,
      Finish, RetryEmpty, EntryPoints, Holding, Reached, WritePhases, ReplayInv
<1>7. AnswersAreTrue'
  BY KindsFacts, NoneAssumption
  DEF Inv, app, local, ghosts, Empty, Registered, Fails, Goto, Reply, At, Entry, Present,
      Refuse, Finish, RetryEmpty, Chosen, Whole, JournalIsTrue, AnswersAreTrue, PreSnapshot,
      Trees, Cleaning, EntryPoints, Quiet, Holding, Saved, Reached, Pending, WritePhases,
      DiskInv, CommandInv, CleaningInv, TreesInv, ReplayInv
<1>8. QED
  BY <1>1, <1>2, <1>3, <1>4, <1>5, <1>6, <1>7 DEF Inv

(* The snapshot of published credentials is given up.                         *)
LEMMA ReplayFinalizeKeeps ==
  ASSUME Inv, NEW o \in Outcomes, ReplayFinalize(o)
  PROVE  Inv'
<1>1. TypeInv'
  BY KindsFacts, NoneAssumption, HistoryConstants
  DEF Inv, Images, Phases, StopStates, Records, Registries, Stages, Snapshots, app, local,
      ghosts, Empty, Expendable, Fails, Goto, Reply, At, Refuse, ReplayFinalize, TypeOK,
      PreSnapshot, Trees, Cleaning, EntryPoints, Points, TypeInv
<1>2. DiskInv'
  BY KindsFacts, NoneAssumption
  DEF Inv, app, local, ghosts, Empty, Registered, Expendable, Fails, Goto, Reply, At, Entry,
      Present, Refuse, ReplayFinalize, Chosen, Whole, JournalIsTrue, AnswersAreTrue,
      PreSnapshot, Trees, Cleaning, EntryPoints, Quiet, Holding, Saved, Reached, Pending,
      WritePhases, DiskInv, CommandInv, CleaningInv, TreesInv, ReplayInv
<1>3. CommandInv'
  BY KindsFacts, NoneAssumption
  DEF Inv, app, local, ghosts, Empty, Registered, Expendable, Fails, Goto, Reply, At,
      Refuse, ReplayFinalize, Chosen, PreSnapshot, Trees, Cleaning, EntryPoints, Quiet,
      Holding, Saved, Reached, Pending, CommandInv
<1>4. CleaningInv'
  BY NoneAssumption
  DEF Inv, app, local, ghosts, Empty, Expendable, Fails, Goto, Reply, At, Refuse,
      ReplayFinalize, Cleaning, Holding, CleaningInv
<1>5. TreesInv'
  BY KindsFacts, NoneAssumption
  DEF Inv, app, local, ghosts, Empty, Registered, Expendable, Fails, Goto, Reply, At, Entry,
      Present, Refuse, ReplayFinalize, Trees, Holding, Saved, Reached, TreesInv
<1>6. ReplayInv'
  BY KindsFacts, NoneAssumption
  DEF Inv, app, local, ghosts, Empty, Expendable, Fails, Goto, Reply, At, Entry, Present,
      Refuse, ReplayFinalize, EntryPoints, Holding, Reached, WritePhases, ReplayInv
<1>7. AnswersAreTrue'
  BY NoneAssumption
  DEF Inv, app, local, ghosts, Empty, Expendable, Fails, Goto, Reply, At, Refuse,
      ReplayFinalize, Chosen, AnswersAreTrue
<1>8. QED
  BY <1>1, <1>2, <1>3, <1>4, <1>5, <1>6, <1>7 DEF Inv

(* The replay completes as the command would have.                            *)
LEMMA ReplayCompleteKeeps ==
  ASSUME Inv, NEW o \in Outcomes, ReplayComplete(o)
  PROVE  Inv'
<1>1. TypeInv'
  <2>1. record' \in Records \cup {None} /\ hand' \in Records \cup {None}
    <3>1. hand \in Records
      BY NoneAssumption DEF Inv, TypeInv, TypeOK, ReplayInv, Holding, ReplayComplete, At
    <3>2. Finalized \in Records \cup {None}
      <4>1. "resume_after_history_restore" \in Phases /\ FALSE \in BOOLEAN
        BY DEF Phases
      <4> DEFINE n == [hand EXCEPT !.phase = "resume_after_history_restore", !.resume = FALSE]
      <4>2. n \in Records
        BY <3>1, <4>1, RecordChange
      <4>3. Finalized \in {n, None}
        BY DEF Finalized
      <4>4. QED
        BY <4>2, <4>3
    <3>3. record' \in {record, Finalized} /\ hand' \in {hand, Finalized}
      BY DEF ReplayComplete, local, Cas
    <3>4. QED
      BY <3>1, <3>2, <3>3 DEF Inv, TypeInv, TypeOK
  <2>2. registry' \in Registries
    BY NoneAssumption, HistoryConstants, KindsFacts
      DEF Inv, TypeInv, TypeOK, app, local, ghosts, Fails, Cas, Reply, At, Finalized,
        Refuse, Finish, ReplayComplete, Registries
  <2>3. snapshot' \in Snapshots \cup {None}
    BY NoneAssumption, HistoryConstants, KindsFacts
      DEF Inv, TypeInv, TypeOK, app, local, ghosts, Fails, Cas, Reply, At, Finalized,
        Refuse, Finish, ReplayComplete
  <2>4. creds' \in Images /\ before' \in Images
    BY NoneAssumption, HistoryConstants, KindsFacts
      DEF Inv, TypeInv, TypeOK, app, local, ghosts, Fails, Cas, Reply, At, Finalized,
        Refuse, Finish, ReplayComplete
  <2>5. pos' \in 1 .. Len(Kinds)
    BY NoneAssumption, HistoryConstants, KindsFacts
      DEF Inv, TypeInv, TypeOK, app, local, ghosts, Fails, Cas, Reply, At, Finalized,
        Refuse, Finish, ReplayComplete
  <2>6. /\ pc' \in Points /\ note' \in {"none", "exact_stopped", "not_stopped", "unknown", "capture",
                                   "success", "early"}
        /\ pc' = "publish_stop" => note' \in {"exact_stopped", "not_stopped", "unknown"}
    BY NoneAssumption, HistoryConstants, KindsFacts
      DEF Inv, TypeInv, TypeOK, app, local, ghosts, Fails, Cas, Reply, At, Finalized,
        Refuse, Finish, ReplayComplete, Points, PreSnapshot, Trees, Cleaning, EntryPoints
  <2>7. /\ faults' \in 0 .. MaxFaults /\ crashes' \in 0 .. MaxCrashes /\ op' \in 0 .. MaxOps
        /\ science' \in {"running", "stopped"} /\ managed' \in BOOLEAN /\ session' \in BOOLEAN
        /\ resume' \in BOOLEAN /\ failed' \in BOOLEAN /\ early' \in BOOLEAN
        /\ by' \in {"restore", "one_click"}
    BY NoneAssumption, HistoryConstants, KindsFacts
      DEF Inv, TypeInv, TypeOK, app, local, ghosts, Fails, Cas, Reply, At, Finalized,
        Refuse, Finish, ReplayComplete
  <2>8. QED
    BY <2>1, <2>2, <2>3, <2>4, <2>5, <2>6, <2>7 DEF TypeInv, TypeOK
<1>2. DiskInv'
  <2>1. /\ hand \in Records /\ record = hand /\ hand.op = op
        /\ hand.phase = "history_credential_published" /\ creds = Chosen
    BY NoneAssumption DEF Inv, TypeInv, TypeOK, DiskInv, JournalIsTrue, ReplayInv, Holding, ReplayComplete, At
  <2>2. UNCHANGED <<registry, snapshot, creds, op, before, early>>
    BY DEF ReplayComplete, ghosts
  <2>3. Chosen' = Chosen /\ Whole'
    BY <2>1, <2>2 DEF Chosen, Whole
  <2>4. CASE record' = record
    BY <2>1, <2>2, <2>3, <2>4 DEF Inv, DiskInv, JournalIsTrue
  <2>5. CASE record' = Finalized
    BY <2>1, <2>2, <2>3, <2>5, FinalizedIs DEF DiskInv, JournalIsTrue
  <2>6. QED
    BY <2>4, <2>5 DEF ReplayComplete, Cas
<1>3. CommandInv'
  BY KindsFacts, NoneAssumption
  DEF Inv, app, local, ghosts, Registered, Fails, Cas, Reply, At, Finalized, Refuse, Finish,
      ReplayComplete, Chosen, PreSnapshot, Trees, Cleaning, EntryPoints, Quiet, Holding,
      Saved, Reached, Pending, CommandInv
<1>4. CleaningInv'
  BY NoneAssumption
  DEF Inv, app, local, ghosts, Fails, Cas, Reply, At, Finalized, Refuse, Finish,
      ReplayComplete, Cleaning, Holding, CleaningInv
<1>5. TreesInv'
  BY KindsFacts, NoneAssumption
  DEF Inv, app, local, ghosts, Registered, Fails, Cas, Reply, At, Entry, Finalized, Present,
      Refuse, Finish, ReplayComplete, Trees, Holding, Saved, Reached, TreesInv
<1>6. ReplayInv'
  BY KindsFacts, NoneAssumption
  DEF Inv, app, local, ghosts, Fails, Cas, Reply, At, Entry, Finalized, Present, Refuse,
      Finish, ReplayComplete, EntryPoints, Holding, Reached, WritePhases, ReplayInv
<1>7. AnswersAreTrue'
  BY KindsFacts, NoneAssumption
  DEF Inv, app, local, ghosts, Registered, Fails, Cas, Reply, At, Entry, Finalized, Present,
      Refuse, Finish, ReplayComplete, Chosen, Whole, JournalIsTrue, AnswersAreTrue,
      PreSnapshot, Trees, Cleaning, EntryPoints, Quiet, Holding, Saved, Reached, Pending,
      WritePhases, DiskInv, CommandInv, CleaningInv, TreesInv, ReplayInv
<1>8. QED
  BY <1>1, <1>2, <1>3, <1>4, <1>5, <1>6, <1>7 DEF Inv

(* A restore begins on the login that is in place.                            *)
LEMMA BeginKeeps ==
  ASSUME Inv, NEW r \in BOOLEAN, NEW o \in Outcomes, Begin(r, o)
  PROVE  Inv'
<1>1. TypeInv'
  <2>1. record' \in Records \cup {None} /\ hand' \in Records \cup {None}
    <3> DEFINE s == IF managed THEN "intent" ELSE "not_required"
               n == [op |-> op + 1, phase |-> "stop_old_science", resume |-> FALSE, stop |-> s]
    <3>1. s \in {"intent", "not_required"}
      OBVIOUS
    <3>2. TypeOK /\ op < MaxOps
      BY DEF Inv, TypeInv, Begin
    <3> HIDE DEF s
    <3>3. n \in Records
      BY <3>1, <3>2, NewRecord
    <3>4. hand' = n /\ record' \in {record, n}
      BY DEF Begin, s
    <3>5. QED
      BY <3>2, <3>3, <3>4 DEF TypeOK
  <2>2. registry' \in Registries
    BY NoneAssumption, HistoryConstants, KindsFacts
      DEF Inv, TypeInv, TypeOK, app, Fails, Goto, Reply, At, Begin, Registries
  <2>3. snapshot' \in Snapshots \cup {None}
    BY NoneAssumption, HistoryConstants, KindsFacts
      DEF Inv, TypeInv, TypeOK, app, Fails, Goto, Reply, At, Begin
  <2>4. creds' \in Images /\ before' \in Images
    BY NoneAssumption, HistoryConstants, KindsFacts
      DEF Inv, TypeInv, TypeOK, app, Fails, Goto, Reply, At, Begin
  <2>5. pos' \in 1 .. Len(Kinds)
    BY NoneAssumption, HistoryConstants, KindsFacts
      DEF Inv, TypeInv, TypeOK, app, Fails, Goto, Reply, At, Begin
  <2>6. /\ pc' \in Points /\ note' \in {"none", "exact_stopped", "not_stopped", "unknown", "capture",
                                   "success", "early"}
        /\ pc' = "publish_stop" => note' \in {"exact_stopped", "not_stopped", "unknown"}
    BY NoneAssumption, HistoryConstants, KindsFacts
      DEF Inv, TypeInv, TypeOK, app, Fails, Goto, Reply, At, Begin, Points, PreSnapshot,
        Trees, Cleaning, EntryPoints
  <2>7. /\ faults' \in 0 .. MaxFaults /\ crashes' \in 0 .. MaxCrashes /\ op' \in 0 .. MaxOps
        /\ science' \in {"running", "stopped"} /\ managed' \in BOOLEAN /\ session' \in BOOLEAN
        /\ resume' \in BOOLEAN /\ failed' \in BOOLEAN /\ early' \in BOOLEAN
        /\ by' \in {"restore", "one_click"}
    <3>1. faults' \in 0 .. MaxFaults
      BY HistoryConstants DEF Inv, TypeInv, TypeOK, Begin, Fails
    <3>2. op' \in 0 .. MaxOps
      BY HistoryConstants DEF Inv, TypeInv, TypeOK, Begin
    <3>3. QED
      BY <3>1, <3>2 DEF Inv, TypeInv, TypeOK, Begin, app
  <2>8. QED
    BY <2>1, <2>2, <2>3, <2>4, <2>5, <2>6, <2>7 DEF TypeInv, TypeOK
<1>2. DiskInv'
  BY KindsFacts, NoneAssumption
  DEF Inv, app, Registered, Fails, Goto, Reply, At, Begin, Chosen, Whole, JournalIsTrue,
      PreSnapshot, Trees, Cleaning, EntryPoints, Quiet, Holding, Saved, Reached, Pending,
      DiskInv, CommandInv
<1>3. CommandInv'
  <2>1. creds' = creds /\ before' = creds /\ UNCHANGED <<science, managed>>
    BY DEF Begin, app
  <2>2. /\ pc' \in {"stop", "probe", "idle"} /\ (pc' # "idle" => o = "ok") /\ by' = "restore"
        /\ pc' = "probe" => ~managed
    BY DEF Begin, Goto, Reply
  <2>3. o = "ok" => Holding({"stop_old_science"})'
    <3>1. o = "ok" => record' = hand' /\ hand'.phase = "stop_old_science"
      BY DEF Begin
    <3> DEFINE s == IF managed THEN "intent" ELSE "not_required"
               n == [op |-> op + 1, phase |-> "stop_old_science", resume |-> FALSE, stop |-> s]
    <3>2. o = "ok" => record' # None
      <4>1. s \in {"intent", "not_required"}
        OBVIOUS
      <4>2. TypeOK /\ op < MaxOps
        BY DEF Inv, TypeInv, Begin
      <4> HIDE DEF s
      <4>3. n # None
        BY <4>1, <4>2, NewRecord
      <4>4. o = "ok" => record' = n
        BY DEF Begin, s
      <4>5. QED
        BY <4>3, <4>4
    <3>3. QED
      BY <3>1, <3>2 DEF Holding
  <2>4. QED
    BY <2>1, <2>2, <2>3 DEF CommandInv, PreSnapshot, Trees, Cleaning, EntryPoints
<1>4. CleaningInv'
  BY KindsFacts, NoneAssumption
  DEF Inv, app, Registered, Fails, Goto, Reply, At, Begin, Chosen, Whole, JournalIsTrue,
      PreSnapshot, Trees, Cleaning, EntryPoints, Quiet, Holding, Saved, Reached, Pending,
      DiskInv, CommandInv, CleaningInv
<1>5. TreesInv'
  BY KindsFacts, NoneAssumption
  DEF Inv, app, Registered, Fails, Goto, Reply, At, Entry, Begin, Present, Chosen, Whole,
      JournalIsTrue, PreSnapshot, Trees, Cleaning, EntryPoints, Quiet, Holding, Saved,
      Reached, Pending, DiskInv, CommandInv, TreesInv
<1>6. ReplayInv'
  BY KindsFacts, NoneAssumption
  DEF Inv, app, Registered, Fails, Goto, Reply, At, Entry, Begin, Present, Chosen, Whole,
      JournalIsTrue, PreSnapshot, Trees, Cleaning, EntryPoints, Quiet, Holding, Saved,
      Reached, Pending, WritePhases, DiskInv, CommandInv, ReplayInv
<1>7. AnswersAreTrue'
  BY KindsFacts, NoneAssumption
  DEF Inv, app, Registered, Fails, Goto, Reply, At, Begin, Chosen, Whole, JournalIsTrue,
      AnswersAreTrue, PreSnapshot, Trees, Cleaning, EntryPoints, Quiet, Holding, Saved,
      Reached, Pending, DiskInv, CommandInv
<1>8. QED
  BY <1>1, <1>2, <1>3, <1>4, <1>5, <1>6, <1>7 DEF Inv

(* An exact stop without an error leaves Science stopped.                     *)
LEMMA StopScienceKeeps ==
  ASSUME Inv, NEW r \in StopResults, NEW now \in {"running", "stopped"}, StopScience(r, now)
  PROVE  Inv'
<1>1. TypeInv'
  <2>1. record' \in Records \cup {None} /\ hand' \in Records \cup {None}
    BY NoneAssumption, HistoryConstants, KindsFacts
      DEF Inv, TypeInv, TypeOK, disk, ghosts, Fails, Goto, At, StopScience
  <2>2. registry' \in Registries
    BY NoneAssumption, HistoryConstants, KindsFacts
      DEF Inv, TypeInv, TypeOK, disk, ghosts, Fails, Goto, At, StopScience, Registries
  <2>3. snapshot' \in Snapshots \cup {None}
    BY NoneAssumption, HistoryConstants, KindsFacts
      DEF Inv, TypeInv, TypeOK, disk, ghosts, Fails, Goto, At, StopScience
  <2>4. creds' \in Images /\ before' \in Images
    BY NoneAssumption, HistoryConstants, KindsFacts
      DEF Inv, TypeInv, TypeOK, disk, ghosts, Fails, Goto, At, StopScience
  <2>5. pos' \in 1 .. Len(Kinds)
    BY NoneAssumption, HistoryConstants, KindsFacts
      DEF Inv, TypeInv, TypeOK, disk, ghosts, Fails, Goto, At, StopScience
  <2>6. /\ pc' \in Points /\ note' \in {"none", "exact_stopped", "not_stopped", "unknown", "capture",
                                   "success", "early"}
        /\ pc' = "publish_stop" => note' \in {"exact_stopped", "not_stopped", "unknown"}
    <3>1. r.outcome \in {"exact_stopped", "not_stopped", "unknown"}
      BY DEF StopResults
    <3>2. QED
      BY <3>1 DEF StopScience, Goto, Points, PreSnapshot
  <2>7. /\ faults' \in 0 .. MaxFaults /\ crashes' \in 0 .. MaxCrashes /\ op' \in 0 .. MaxOps
        /\ science' \in {"running", "stopped"} /\ managed' \in BOOLEAN /\ session' \in BOOLEAN
        /\ resume' \in BOOLEAN /\ failed' \in BOOLEAN /\ early' \in BOOLEAN
        /\ by' \in {"restore", "one_click"}
    <3>1. faults' \in 0 .. MaxFaults
      BY HistoryConstants DEF Inv, TypeInv, TypeOK, StopScience, Fails
    <3>2. failed' \in BOOLEAN /\ managed' \in BOOLEAN /\ science' \in {"running", "stopped"}
      BY DEF StopScience, StopResults
    <3>3. QED
      BY <3>1, <3>2 DEF Inv, TypeInv, TypeOK, StopScience, ghosts
  <2>8. QED
    BY <2>1, <2>2, <2>3, <2>4, <2>5, <2>6, <2>7 DEF TypeInv, TypeOK
<1>2. DiskInv'
  BY KindsFacts, NoneAssumption
  DEF Inv, disk, ghosts, Registered, Fails, Goto, At, StopScience, Chosen, Whole,
      JournalIsTrue, PreSnapshot, Trees, Cleaning, EntryPoints, Quiet, Holding, Saved,
      Reached, Pending, DiskInv, CommandInv
<1>3. CommandInv'
  <2>1. by = "restore" /\ Holding({"stop_old_science"}) /\ creds = before
    BY DEF Inv, CommandInv, PreSnapshot, StopScience, At
  <2>2. pc' = "publish_stop" /\ UNCHANGED <<record, hand, by, creds, before>>
    BY DEF StopScience, Goto, disk, ghosts
  <2>3. ~failed' => Quiet'
    BY DEF StopScience, StopResults, Quiet
  <2>4. QED
    BY <2>1, <2>2, <2>3 DEF CommandInv, PreSnapshot, Trees, Cleaning, EntryPoints, Holding
<1>4. CleaningInv'
  BY KindsFacts, NoneAssumption
  DEF Inv, disk, ghosts, Registered, Fails, Goto, At, StopScience, Chosen, Whole,
      JournalIsTrue, PreSnapshot, Trees, Cleaning, EntryPoints, Quiet, Holding, Saved,
      Reached, Pending, DiskInv, CommandInv, CleaningInv
<1>5. TreesInv'
  BY KindsFacts, NoneAssumption
  DEF Inv, disk, ghosts, Registered, Fails, Goto, At, Entry, StopScience, Present, Chosen,
      Whole, JournalIsTrue, PreSnapshot, Trees, Cleaning, EntryPoints, Quiet, Holding,
      Saved, Reached, Pending, DiskInv, CommandInv, TreesInv
<1>6. ReplayInv'
  BY KindsFacts, NoneAssumption
  DEF Inv, disk, ghosts, Registered, Fails, Goto, At, Entry, StopScience, Present, Chosen,
      Whole, JournalIsTrue, PreSnapshot, Trees, Cleaning, EntryPoints, Quiet, Holding,
      Saved, Reached, Pending, WritePhases, DiskInv, CommandInv, ReplayInv
<1>7. AnswersAreTrue'
  BY KindsFacts, NoneAssumption
  DEF Inv, disk, ghosts, Registered, Fails, Goto, At, StopScience, Chosen, Whole,
      JournalIsTrue, AnswersAreTrue, PreSnapshot, Trees, Cleaning, EntryPoints, Quiet,
      Holding, Saved, Reached, Pending, DiskInv, CommandInv
<1>8. QED
  BY <1>1, <1>2, <1>3, <1>4, <1>5, <1>6, <1>7 DEF Inv

(* A login finds in the record what its replay needs.                         *)
LEMMA OneClickKeeps ==
  ASSUME Inv, OneClick
  PROVE  Inv'
<1>1. TypeInv'
  BY KindsFacts, NoneAssumption, HistoryConstants
  DEF Inv, Images, Phases, StopStates, Records, Registries, Stages, Snapshots, disk, app,
      ghosts, Registered, Goto, Reply, At, SafelyStopped, OneClick, Chosen, Whole, TypeOK,
      JournalIsTrue, PreSnapshot, Trees, Cleaning, EntryPoints, Points, TypeInv, Quiet,
      Holding, Saved, Reached, Pending, DiskInv, CommandInv
<1>2. DiskInv'
  BY KindsFacts, NoneAssumption
  DEF Inv, disk, app, ghosts, Registered, Goto, Reply, At, SafelyStopped, OneClick, Chosen,
      Whole, JournalIsTrue, PreSnapshot, Trees, Cleaning, EntryPoints, Quiet, Holding,
      Saved, Reached, Pending, DiskInv, CommandInv
<1>3. CommandInv'
  BY KindsFacts, NoneAssumption
  DEF Inv, disk, app, ghosts, Registered, Goto, Reply, At, SafelyStopped, OneClick, Chosen,
      Whole, JournalIsTrue, PreSnapshot, Trees, Cleaning, EntryPoints, Quiet, Holding,
      Saved, Reached, Pending, DiskInv, CommandInv
<1>4. CleaningInv'
  BY KindsFacts, NoneAssumption
  DEF Inv, disk, app, ghosts, Registered, Goto, Reply, At, SafelyStopped, OneClick, Chosen,
      Whole, JournalIsTrue, PreSnapshot, Trees, Cleaning, EntryPoints, Quiet, Holding,
      Saved, Reached, Pending, DiskInv, CommandInv, CleaningInv
<1>5. TreesInv'
  BY KindsFacts, NoneAssumption
  DEF Inv, disk, app, ghosts, Registered, Goto, Reply, At, Entry, Present, SafelyStopped,
      OneClick, Chosen, Whole, JournalIsTrue, PreSnapshot, Trees, Cleaning, EntryPoints,
      Quiet, Holding, Saved, Reached, Pending, DiskInv, CommandInv, TreesInv
<1>6. ReplayInv'
  BY KindsFacts, NoneAssumption
  DEF Inv, Images, Phases, StopStates, Records, Registries, Stages, Snapshots, disk, app,
      ghosts, Registered, Goto, Reply, At, Entry, Present, SafelyStopped, OneClick, Chosen,
      Whole, TypeOK, JournalIsTrue, AnswersAreTrue, PreSnapshot, Trees, Cleaning,
      EntryPoints, Points, TypeInv, Quiet, Holding, Saved, Reached, Pending, WritePhases,
      DiskInv, CommandInv, CleaningInv, TreesInv, ReplayInv
<1>7. AnswersAreTrue'
  BY KindsFacts, NoneAssumption
  DEF Inv, disk, app, ghosts, Registered, Goto, Reply, At, SafelyStopped, OneClick, Chosen,
      Whole, JournalIsTrue, AnswersAreTrue, PreSnapshot, Trees, Cleaning, EntryPoints,
      Quiet, Holding, Saved, Reached, Pending, DiskInv, CommandInv
<1>8. QED
  BY <1>1, <1>2, <1>3, <1>4, <1>5, <1>6, <1>7 DEF Inv

(* The login that follows finds no record.                                    *)
LEMMA RouteKeeps ==
  ASSUME Inv, NEW run \in BOOLEAN, Route(run)
  PROVE  Inv'
<1>1. TypeInv'
  BY KindsFacts, NoneAssumption, HistoryConstants
  DEF Inv, Images, Phases, StopStates, Records, Registries, Stages, Snapshots, disk, local,
      ghosts, Registered, Reply, At, Route, Chosen, Whole, TypeOK, JournalIsTrue,
      PreSnapshot, Trees, Cleaning, EntryPoints, Points, TypeInv, Quiet, Holding, Saved,
      Reached, Pending, DiskInv, CommandInv
<1>2. DiskInv'
  BY KindsFacts, NoneAssumption
  DEF Inv, disk, local, ghosts, Registered, Reply, At, Route, Chosen, Whole, JournalIsTrue,
      PreSnapshot, Trees, Cleaning, EntryPoints, Quiet, Holding, Saved, Reached, Pending,
      DiskInv, CommandInv
<1>3. CommandInv'
  BY KindsFacts, NoneAssumption
  DEF Inv, disk, local, ghosts, Registered, Reply, At, Route, Chosen, Whole, JournalIsTrue,
      PreSnapshot, Trees, Cleaning, EntryPoints, Quiet, Holding, Saved, Reached, Pending,
      DiskInv, CommandInv
<1>4. CleaningInv'
  BY KindsFacts, NoneAssumption
  DEF Inv, disk, local, ghosts, Registered, Reply, At, Route, Chosen, Whole, JournalIsTrue,
      PreSnapshot, Trees, Cleaning, EntryPoints, Quiet, Holding, Saved, Reached, Pending,
      DiskInv, CommandInv, CleaningInv
<1>5. TreesInv'
  BY KindsFacts, NoneAssumption
  DEF Inv, disk, local, ghosts, Registered, Reply, At, Entry, Present, Route, Chosen, Whole,
      JournalIsTrue, PreSnapshot, Trees, Cleaning, EntryPoints, Quiet, Holding, Saved,
      Reached, Pending, DiskInv, CommandInv, TreesInv
<1>6. ReplayInv'
  BY KindsFacts, NoneAssumption
  DEF Inv, disk, local, ghosts, Registered, Reply, At, Entry, Present, Route, Chosen, Whole,
      JournalIsTrue, PreSnapshot, Trees, Cleaning, EntryPoints, Quiet, Holding, Saved,
      Reached, Pending, WritePhases, DiskInv, CommandInv, ReplayInv
<1>7. AnswersAreTrue'
  BY KindsFacts, NoneAssumption
  DEF Inv, disk, local, ghosts, Registered, Reply, At, Route, Chosen, Whole, JournalIsTrue,
      AnswersAreTrue, PreSnapshot, Trees, Cleaning, EntryPoints, Quiet, Holding, Saved,
      Reached, Pending, DiskInv, CommandInv
<1>8. QED
  BY <1>1, <1>2, <1>3, <1>4, <1>5, <1>6, <1>7 DEF Inv

(* Whoever starts or stops Science does so while no command runs.             *)
LEMMA ScienceOutsideKeeps ==
  ASSUME Inv, NEW now \in {"running", "stopped"}, ScienceOutside(now)
  PROVE  Inv'
<1>1. TypeInv'
  BY KindsFacts, NoneAssumption, HistoryConstants
  DEF Inv, Images, Phases, StopStates, Records, Registries, Stages, Snapshots, disk, local,
      ghosts, Registered, Fails, At, ScienceOutside, Chosen, Whole, TypeOK, JournalIsTrue,
      PreSnapshot, Trees, Cleaning, EntryPoints, Points, TypeInv, Quiet, Holding, Saved,
      Reached, Pending, DiskInv, CommandInv
<1>2. DiskInv'
  BY KindsFacts, NoneAssumption
  DEF Inv, disk, local, ghosts, Registered, Fails, At, ScienceOutside, Chosen, Whole,
      JournalIsTrue, PreSnapshot, Trees, Cleaning, EntryPoints, Quiet, Holding, Saved,
      Reached, Pending, DiskInv, CommandInv
<1>3. CommandInv'
  BY KindsFacts, NoneAssumption
  DEF Inv, disk, local, ghosts, Registered, Fails, At, ScienceOutside, Chosen, Whole,
      JournalIsTrue, PreSnapshot, Trees, Cleaning, EntryPoints, Quiet, Holding, Saved,
      Reached, Pending, DiskInv, CommandInv
<1>4. CleaningInv'
  BY KindsFacts, NoneAssumption
  DEF Inv, disk, local, ghosts, Registered, Fails, At, ScienceOutside, Chosen, Whole,
      JournalIsTrue, PreSnapshot, Trees, Cleaning, EntryPoints, Quiet, Holding, Saved,
      Reached, Pending, DiskInv, CommandInv, CleaningInv
<1>5. TreesInv'
  BY KindsFacts, NoneAssumption
  DEF Inv, disk, local, ghosts, Registered, Fails, At, Entry, Present, ScienceOutside,
      Chosen, Whole, JournalIsTrue, PreSnapshot, Trees, Cleaning, EntryPoints, Quiet,
      Holding, Saved, Reached, Pending, DiskInv, CommandInv, TreesInv
<1>6. ReplayInv'
  BY KindsFacts, NoneAssumption
  DEF Inv, disk, local, ghosts, Registered, Fails, At, Entry, Present, ScienceOutside,
      Chosen, Whole, JournalIsTrue, PreSnapshot, Trees, Cleaning, EntryPoints, Quiet,
      Holding, Saved, Reached, Pending, WritePhases, DiskInv, CommandInv, ReplayInv
<1>7. AnswersAreTrue'
  BY KindsFacts, NoneAssumption
  DEF Inv, disk, local, ghosts, Registered, Fails, At, ScienceOutside, Chosen, Whole,
      JournalIsTrue, AnswersAreTrue, PreSnapshot, Trees, Cleaning, EntryPoints, Quiet,
      Holding, Saved, Reached, Pending, DiskInv, CommandInv
<1>8. QED
  BY <1>1, <1>2, <1>3, <1>4, <1>5, <1>6, <1>7 DEF Inv

(* The disk tells as much after a crash as before it.                         *)
LEMMA CrashKeeps ==
  ASSUME Inv, Crash
  PROVE  Inv'
<1>1. TypeInv'
  <2>1. record' \in Records \cup {None} /\ hand' \in Records \cup {None}
    BY NoneAssumption, HistoryConstants, KindsFacts
      DEF Inv, TypeInv, TypeOK, disk, ghosts, Crash
  <2>2. registry' \in Registries
    BY NoneAssumption, HistoryConstants, KindsFacts
      DEF Inv, TypeInv, TypeOK, disk, ghosts, Crash, Registries
  <2>3. snapshot' \in Snapshots \cup {None}
    BY NoneAssumption, HistoryConstants, KindsFacts
      DEF Inv, TypeInv, TypeOK, disk, ghosts, Crash
  <2>4. creds' \in Images /\ before' \in Images
    BY NoneAssumption, HistoryConstants, KindsFacts
      DEF Inv, TypeInv, TypeOK, disk, ghosts, Crash
  <2>5. pos' \in 1 .. Len(Kinds)
    BY NoneAssumption, HistoryConstants, KindsFacts
      DEF Inv, TypeInv, TypeOK, disk, ghosts, Crash
  <2>6. /\ pc' \in Points /\ note' \in {"none", "exact_stopped", "not_stopped", "unknown", "capture",
                                   "success", "early"}
        /\ pc' = "publish_stop" => note' \in {"exact_stopped", "not_stopped", "unknown"}
    BY NoneAssumption, HistoryConstants, KindsFacts
      DEF Inv, TypeInv, TypeOK, disk, ghosts, Crash, Points, PreSnapshot, Trees, Cleaning,
        EntryPoints
  <2>7. /\ faults' \in 0 .. MaxFaults /\ crashes' \in 0 .. MaxCrashes /\ op' \in 0 .. MaxOps
        /\ science' \in {"running", "stopped"} /\ managed' \in BOOLEAN /\ session' \in BOOLEAN
        /\ resume' \in BOOLEAN /\ failed' \in BOOLEAN /\ early' \in BOOLEAN
        /\ by' \in {"restore", "one_click"}
    <3>1. crashes' \in 0 .. MaxCrashes
      BY HistoryConstants DEF Inv, TypeInv, TypeOK, Crash
    <3>2. QED
      BY <3>1 DEF Inv, TypeInv, TypeOK, Crash, ghosts
  <2>8. QED
    BY <2>1, <2>2, <2>3, <2>4, <2>5, <2>6, <2>7 DEF TypeInv, TypeOK
<1>2. DiskInv'
  BY KindsFacts, NoneAssumption
  DEF Inv, disk, ghosts, Registered, Crash, Chosen, Whole, JournalIsTrue, PreSnapshot,
      Trees, Cleaning, EntryPoints, Quiet, Holding, Saved, Reached, Pending, DiskInv,
      CommandInv
<1>3. CommandInv'
  BY KindsFacts, NoneAssumption
  DEF Inv, disk, ghosts, Registered, Crash, Chosen, Whole, JournalIsTrue, PreSnapshot,
      Trees, Cleaning, EntryPoints, Quiet, Holding, Saved, Reached, Pending, DiskInv,
      CommandInv
<1>4. CleaningInv'
  BY KindsFacts, NoneAssumption
  DEF Inv, disk, ghosts, Registered, Crash, Chosen, Whole, JournalIsTrue, PreSnapshot,
      Trees, Cleaning, EntryPoints, Quiet, Holding, Saved, Reached, Pending, DiskInv,
      CommandInv, CleaningInv
<1>5. TreesInv'
  BY KindsFacts, NoneAssumption
  DEF Inv, disk, ghosts, Registered, Entry, Present, Crash, Chosen, Whole, JournalIsTrue,
      PreSnapshot, Trees, Cleaning, EntryPoints, Quiet, Holding, Saved, Reached, Pending,
      DiskInv, CommandInv, TreesInv
<1>6. ReplayInv'
  BY KindsFacts, NoneAssumption
  DEF Inv, disk, ghosts, Registered, Entry, Present, Crash, Chosen, Whole, JournalIsTrue,
      PreSnapshot, Trees, Cleaning, EntryPoints, Quiet, Holding, Saved, Reached, Pending,
      WritePhases, DiskInv, CommandInv, ReplayInv
<1>7. AnswersAreTrue'
  BY KindsFacts, NoneAssumption
  DEF Inv, disk, ghosts, Registered, Crash, Chosen, Whole, JournalIsTrue, AnswersAreTrue,
      PreSnapshot, Trees, Cleaning, EntryPoints, Quiet, Holding, Saved, Reached, Pending,
      DiskInv, CommandInv
<1>8. QED
  BY <1>1, <1>2, <1>3, <1>4, <1>5, <1>6, <1>7 DEF Inv

(* ------------------------------------------------------------------------- *)
(* The theorems.                                                                 *)
(* ------------------------------------------------------------------------- *)
(* The state a Desktop starts in, with no journal open.                          *)
LEMMA InitInv == Init => Inv
<1> SUFFICES ASSUME Init PROVE Inv
  OBVIOUS
<1>1. creds \in Images /\ before = creds /\ record = None /\ hand = None
      /\ snapshot = None /\ registry = Empty
  <2>1. None \in Values /\ 0 \in Values
    BY HistoryConstants DEF Values
  <2>2. creds \in [Entries -> {None, 0}]
    BY DEF Init
  <2>3. creds \in Images
    BY <2>1, <2>2 DEF Images
  <2>4. QED
    BY <2>3 DEF Init
<1>2. TypeOK
  <2>1. registry \in Registries /\ op \in 0 .. MaxOps /\ faults \in 0 .. MaxFaults
        /\ crashes \in 0 .. MaxCrashes
    BY <1>1, HistoryConstants DEF Init, Empty, Registries
  <2>2. pos \in 1 .. Len(Kinds)
    BY KindsFacts DEF Init
  <2>3. QED
    BY <1>1, <2>1, <2>2 DEF Init, TypeOK
<1>3. TypeInv
  BY <1>2 DEF Init, TypeInv, Points
<1>4. DiskInv
  BY <1>1 DEF Init, DiskInv, JournalIsTrue, Whole
<1>5. CommandInv /\ CleaningInv /\ TreesInv /\ ReplayInv
  BY DEF Init, CommandInv, CleaningInv, TreesInv, ReplayInv, PreSnapshot, Trees, Cleaning,
      EntryPoints
<1>6. AnswersAreTrue
  BY DEF Init, AnswersAreTrue
<1>7. QED
  BY <1>3, <1>4, <1>5, <1>6 DEF Inv

(* A step outside the commands changes nothing.                                  *)
LEMMA StutterKeeps == Inv /\ UNCHANGED vars => Inv'
<1> SUFFICES ASSUME Inv, UNCHANGED vars PROVE Inv'
  OBVIOUS
<1> USE DEF Inv, vars, disk, app, local, ghosts
<1>1. TypeInv'
  BY DEF TypeInv, TypeOK
<1>2. DiskInv'
  BY DEF DiskInv, JournalIsTrue, Whole, Chosen
<1>3. CommandInv' /\ CleaningInv'
  BY DEF CommandInv, CleaningInv, Quiet, Holding, Saved, Reached, Pending, Chosen
<1>4. TreesInv'
  BY DEF TreesInv, Holding, Saved, Reached, Present, Entry
<1>5. ReplayInv' /\ AnswersAreTrue'
  BY DEF ReplayInv, AnswersAreTrue, Holding, Reached, Present, Entry, Chosen
<1>6. QED
  BY <1>1, <1>2, <1>3, <1>4, <1>5

(* Every step keeps the invariant.                                               *)
LEMMA StepKeeps == Inv /\ [Next]_vars => Inv'
<1> SUFFICES ASSUME Inv, [Next]_vars PROVE Inv'
  OBVIOUS
<1>1. CASE \E o \in Outcomes : Step(o)
  <2> PICK o \in Outcomes : Step(o)
    BY <1>1
  <2>1. CASE PublishStop(o)
    BY <2>1, PublishStopKeeps
  <2>2. CASE ProbeQuiescence(o)
    BY <2>2, ProbeQuiescenceKeeps
  <2>3. CASE Withdraw(o)
    BY <2>3, WithdrawKeeps
  <2>4. CASE Recheck(o)
    BY <2>4, RecheckKeeps
  <2>5. CASE Register(o)
    BY <2>5, RegisterKeeps
  <2>6. CASE Copy(o)
    BY <2>6, CopyKeeps
  <2>7. CASE Activate(o)
    BY <2>7, ActivateKeeps
  <2>8. CASE PersistManifest(o)
    BY <2>8, PersistManifestKeeps
  <2>9. CASE IntendWrite(o)
    BY <2>9, IntendWriteKeeps
  <2>10. CASE TakeLease(o)
    BY <2>10, TakeLeaseKeeps
  <2>11. CASE WriteEntry(o)
    BY <2>11, WriteEntryKeeps
  <2>12. CASE Publish(o)
    BY <2>12, PublishKeeps
  <2>13. CASE Complete(o)
    BY <2>13, CompleteKeeps
  <2>14. CASE Handoff(o)
    BY <2>14, HandoffKeeps
  <2>15. CASE Expire(o)
    BY <2>15, ExpireKeeps
  <2>16. CASE RemoveRoot(o)
    BY <2>16, RemoveRootKeeps
  <2>17. CASE EmptyRegistry(o)
    BY <2>17, EmptyRegistryKeeps
  <2>18. CASE Compensate(o)
    BY <2>18, CompensateKeeps
  <2>19. CASE TreeRemove(o)
    BY <2>19, TreeRemoveKeeps
  <2>20. CASE TreeCopy(o)
    BY <2>20, TreeCopyKeeps
  <2>21. CASE RestoreConfig(o)
    BY <2>21, RestoreConfigKeeps
  <2>22. CASE Quiesce(o)
    BY <2>22, QuiesceKeeps
  <2>23. CASE IntendRestore(o)
    BY <2>23, IntendRestoreKeeps
  <2>24. CASE OpenManifest(o)
    BY <2>24, OpenManifestKeeps
  <2>25. CASE EntryRemove(o)
    BY <2>25, EntryRemoveKeeps
  <2>26. CASE EntryCopy(o)
    BY <2>26, EntryCopyKeeps
  <2>27. CASE SettleRestore(o)
    BY <2>27, SettleRestoreKeeps
  <2>28. CASE Spend(o)
    BY <2>28, SpendKeeps
  <2>29. CASE Clear(o)
    BY <2>29, ClearKeeps
  <2>30. CASE RetryRemove(o)
    BY <2>30, RetryRemoveKeeps
  <2>31. CASE RetryEmpty(o)
    BY <2>31, RetryEmptyKeeps
  <2>32. CASE ReplayFinalize(o)
    BY <2>32, ReplayFinalizeKeeps
  <2>33. CASE ReplayComplete(o)
    BY <2>33, ReplayCompleteKeeps
  <2>34. QED
    BY <2>1, <2>2, <2>3, <2>4, <2>5, <2>6, <2>7, <2>8, <2>9, <2>10, <2>11, <2>12, <2>13,
        <2>14, <2>15, <2>16, <2>17, <2>18, <2>19, <2>20, <2>21, <2>22, <2>23, <2>24,
        <2>25, <2>26, <2>27, <2>28, <2>29, <2>30, <2>31, <2>32, <2>33 DEF Step
<1>2. CASE \E r \in BOOLEAN, o \in Outcomes : Begin(r, o)
  BY <1>2, BeginKeeps
<1>3. CASE \E r \in StopResults, now \in {"running", "stopped"} : StopScience(r, now)
  BY <1>3, StopScienceKeeps
<1>4. CASE OneClick
  BY <1>4, OneClickKeeps
<1>5. CASE \E run \in BOOLEAN : Route(run)
  BY <1>5, RouteKeeps
<1>6. CASE \E now \in {"running", "stopped"} : ScienceOutside(now)
  BY <1>6, ScienceOutsideKeeps
<1>7. CASE Crash
  BY <1>7, CrashKeeps
<1>8. CASE UNCHANGED vars
  BY <1>8, StutterKeeps
<1>9. QED
  BY <1>1, <1>2, <1>3, <1>4, <1>5, <1>6, <1>7, <1>8 DEF Next

(* Whatever fails and wherever the Desktop dies, the invariant holds.           *)
THEOREM HistoryInvariance == Spec => []Inv
<1>1. QED
  BY InitInv, StepKeeps, PTL DEF Spec

(* The state keeps its types.                                                    *)
THEOREM HistoryTypes == Spec => []TypeOK
<1>1. Inv => TypeOK
  BY DEF Inv, TypeInv
<1>2. QED
  BY <1>1, HistoryInvariance, PTL

(* Each phase of the journal is true of the disk, so a replay of a later login   *)
(* can act on the record alone.                                                  *)
THEOREM JournalTellsTheTruth == Spec => []JournalIsTrue
<1>1. Inv => JournalIsTrue
  BY DEF Inv, DiskInv
<1>2. QED
  BY <1>1, HistoryInvariance, PTL

(* Torn credentials always have an open intent and the image of the login before *)
(* it, but for a compensation that runs without an intent.                       *)
THEOREM TornCredentialsAreJournaled == Spec => []TornIsJournaled
<1>1. Inv => TornIsJournaled
  <2> SUFFICES ASSUME Inv, ~Whole, ~early
               PROVE  /\ record # None /\ record.phase \in WritePhases
                      /\ registry = Registered(op)
                      /\ snapshot = [op |-> op, stage |-> "manifest", image |-> before]
    BY DEF TornIsJournaled, WritePhases
  <2>1. record # None /\ record.phase \in Phases
    BY DEF Inv, TypeInv, TypeOK, DiskInv, Records
  <2>2. creds # before /\ creds # Chosen
    BY DEF Whole
  <2>3. record.phase \in WritePhases
    BY <2>1, <2>2 DEF Inv, DiskInv, JournalIsTrue, Phases, WritePhases
  <2>4. QED
    BY <2>1, <2>3 DEF Inv, DiskInv, JournalIsTrue, WritePhases
<1>2. QED
  BY <1>1, HistoryInvariance, PTL

(* A command answers what is on disk.                                            *)
THEOREM HistoryAnswersAreTrue == Spec => []AnswersAreTrue
<1>1. Inv => AnswersAreTrue
  BY DEF Inv
<1>2. QED
  BY <1>1, HistoryInvariance, PTL

(* Credentials are written only while Science is stopped and unmanaged, and only *)
(* under the record of the operation that writes them.                           *)
THEOREM CredentialsChangeUnderQuiescence == Spec => WritesUnderQuiescence
<1> DEFINE Covered == science = "stopped" /\ ~managed /\ record # None /\ record.op = op
<1>1. ASSUME Inv, [Next]_vars, creds' # creds
      PROVE  Covered
  <2>1. \E o \in Outcomes : WriteEntry(o) \/ TreeRemove(o) \/ TreeCopy(o) \/ EntryRemove(o)
                              \/ EntryCopy(o)
    <3>1. ~UNCHANGED vars
      BY <1>1 DEF vars, disk
    <3>2. \A r \in BOOLEAN, o \in Outcomes : ~Begin(r, o)
      BY <1>1 DEF Begin
    <3>3. \A r \in StopResults, now \in {"running", "stopped"} : ~StopScience(r, now)
      BY <1>1 DEF StopScience, disk
    <3>4. ~OneClick /\ ~Crash
      BY <1>1 DEF OneClick, Crash, disk
    <3>5. /\ \A run \in BOOLEAN : ~Route(run)
          /\ \A now \in {"running", "stopped"} : ~ScienceOutside(now)
      BY <1>1 DEF Route, ScienceOutside, disk
    <3>6. PICK o \in Outcomes : Step(o)
      BY <1>1, <3>1, <3>2, <3>3, <3>4, <3>5 DEF Next
    <3>7. WriteEntry(o) \/ TreeRemove(o) \/ TreeCopy(o) \/ EntryRemove(o) \/ EntryCopy(o)
      BY <1>1, <3>6
      DEF Step, PublishStop, ProbeQuiescence, Withdraw, Recheck, Register, Copy, Activate,
          PersistManifest, IntendWrite, TakeLease, Publish, Complete,
          Handoff, Expire, RemoveRoot, EmptyRegistry, Compensate,
          RestoreConfig, Quiesce, IntendRestore, OpenManifest,
          SettleRestore, Spend, Clear, RetryRemove, RetryEmpty,
          ReplayFinalize, ReplayComplete, disk
    <3>8. QED
      BY <3>7
  <2>2. Quiet /\ record # None
    <3>1. pc \in {"write", "tree_remove", "tree_copy", "entry_remove", "entry_copy"}
      BY <2>1 DEF WriteEntry, TreeRemove, TreeCopy, EntryRemove, EntryCopy, At
    <3>2. QED
      BY <1>1, <3>1
      DEF Inv, CommandInv, TreesInv, ReplayInv, Trees, EntryPoints, Holding
  <2>3. record.op = op
    BY <1>1, <2>2, HeldRecord
  <2>4. QED
    BY <2>2, <2>3 DEF Quiet
<1>2. Inv /\ [Next]_vars => [creds' # creds => Covered]_vars
  BY <1>1
<1>3. QED
  BY <1>2, HistoryInvariance, PTL DEF Spec, WritesUnderQuiescence
=============================================================================
