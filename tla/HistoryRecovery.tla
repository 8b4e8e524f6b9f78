--------------------------- MODULE HistoryRecovery ---------------------------
(* Restoring a history record the user chose: history_recovery.rs with the     *)
(* snapshot registry it shares with the one-click transaction, the credential   *)
(* writer and the replay a one-click login starts with.  The Desktop is a       *)
(* single instance and its lifecycle serialises the commands, so that what can  *)
(* fall between two steps is a failed write or a crash.                          *)
EXTENDS Naturals, Sequences

CONSTANTS
  None,         \* no record, no snapshot, an entry that is absent
  MaxOps,       \* history choices taken
  MaxFaults,    \* file operations and probes that fail
  MaxCrashes    \* crashes of the Desktop

ASSUME HistoryConstants ==
  /\ MaxOps \in Nat /\ MaxFaults \in Nat /\ MaxCrashes \in Nat
  /\ None \notin Nat

(* The protected entries, in the order they are written and restored.           *)
Kinds == <<"encryption_key", "oauth_tokens", "active_org", "virtual_org_marker">>
Entries == {"encryption_key", "oauth_tokens", "active_org", "virtual_org_marker"}

(* An entry holds what operation n wrote, 0 standing for the captured login.    *)
Values == {None} \cup (0 .. MaxOps)
Images == [Entries -> Values]

Phases == {"stop_old_science", "authority_snapshot_active",
           "history_credential_write_pending", "history_credential_published",
           "history_authority_restore_pending",
           "history_authority_restore_succeeded", "resume_after_history_restore"}
StopStates == {"not_required", "intent", "exact_stopped", "not_stopped", "unknown"}
Records == [op : 1 .. MaxOps, phase : Phases, stop : StopStates, resume : BOOLEAN]
Registries == [kind : {"empty", "active_recovery", "cleanup_only"}, op : 0 .. MaxOps]
Stages == {"bare", "captured", "manifest"}
Snapshots == [op : 1 .. MaxOps, stage : Stages, image : Images]

(* No record at all is not a record.                                            *)
ASSUME NoneAssumption == None \notin Records \cup Snapshots

VARIABLES
  record,      \* runtime_transaction of config.json
  registry,    \* the pending-cleanup manifest
  snapshot,    \* the snapshot root it names
  creds,       \* the protected entries on disk
  science,     \* whether Science runs
  managed,     \* AppState.science_runtime is known
  session,     \* AppState.history_recovery holds choices
  op,          \* history choices taken so far
  pc,          \* where the running command is
  by,          \* the command: a history restore or a one-click login
  hand,        \* the complete record it expects in config.json
  resume,      \* its argument: continue with a one-click login
  note,        \* a stop outcome to publish, or what a cleanup belongs to
  pos,         \* the entry it works on
  failed,      \* errors collected by the restore of the trees
  answer,      \* the last answer of a command
  before,      \* history: the entries when the operation began
  early,       \* history: a restore without a durable intent replaced an entry
  faults, crashes

disk   == <<record, registry, snapshot, creds>>
app    == <<science, managed, session>>
local  == <<by, hand, resume, note, pos, failed>>
ghosts == <<op, before, early>>
vars == <<disk, app, local, ghosts, pc, answer, faults, crashes>>

Empty == [kind |-> "empty", op |-> 0]
Registered(o) == [kind |-> "active_recovery", op |-> o]
Expendable(o) == [kind |-> "cleanup_only", op |-> o]

Init ==
  /\ record = None /\ registry = Empty /\ snapshot = None
  /\ creds \in {c \in [Entries -> {None, 0}] :
                  c["oauth_tokens"] = c["active_org"]}
  /\ science \in {"running", "stopped"}
  /\ managed = (science = "running")
  /\ session = TRUE
  /\ op = 0 /\ before = creds /\ early = FALSE
  /\ pc = "idle" /\ by = "one_click" /\ hand = None /\ resume = FALSE
  /\ note = "none" /\ pos = 1 /\ failed = FALSE /\ answer = "none"
  /\ faults = 0 /\ crashes = 0

(* A durable write, or another file operation: it succeeds, it is refused      *)
(* before anything changed, or it reports an error after the change.            *)
Outcomes == {"ok", "refused", "late"}
Fails(o) == /\ faults' = IF o = "ok" THEN faults ELSE faults + 1
            /\ o # "ok" => faults < MaxFaults

(* The compare-and-swap on the complete record: whoever finds another record    *)
(* than the one in hand changes nothing and fails.                              *)
Cas(next, o) ==
  IF record = hand
  THEN /\ record' = IF o = "refused" THEN record ELSE next
       /\ Fails(o)
  ELSE o = "refused" /\ UNCHANGED <<record, faults>>

Goto(where) == pc' = where /\ answer' = "none"
Reply(a) == pc' = "idle" /\ answer' = a

(* A successful swap is what the command then holds.                            *)
Advance(next, o) == Cas(next, o) /\ hand' = IF o = "ok" THEN next ELSE hand

At(where) == pc = where
Entry == Kinds[pos]

------------------------------------------------------------------------------
(* The restore command, up to its intent to write.                              *)

(* begin_history_transaction: the whole configuration must be the one the       *)
(* choice was checked against, with no journal open.                             *)
Begin(r, o) ==
  /\ At("idle") /\ session /\ record = None /\ op < MaxOps
  /\ op' = op + 1 /\ before' = creds /\ early' = FALSE
  /\ by' = "restore" /\ resume' = r /\ pos' = 1 /\ failed' = FALSE
  /\ LET next == [op |-> op + 1, phase |-> "stop_old_science", resume |-> FALSE,
                  stop |-> IF managed THEN "intent" ELSE "not_required"]
     IN /\ record' = IF o = "refused" THEN record ELSE next
        /\ hand' = next
  /\ Fails(o)
  /\ IF o = "ok" THEN Goto(IF managed THEN "stop" ELSE "probe")
     ELSE Reply("refused")
  /\ UNCHANGED <<registry, snapshot, creds, app, note, crashes>>

(* The exact stop, and the outcome it will publish.  Only a confirmed stop      *)
(* clears the runtime from AppState; an unknown one may have stopped it.         *)
StopResults == [outcome : {"exact_stopped"}, error : BOOLEAN]
                 \cup [outcome : {"not_stopped", "unknown"}, error : {TRUE}]

StopScience(r, now) ==
  /\ At("stop")
  /\ CASE r.outcome = "exact_stopped" -> now = "stopped"
       [] r.outcome = "not_stopped" -> now = science
       [] OTHER -> TRUE
  /\ science' = now /\ managed' = (r.outcome # "exact_stopped")
  /\ note' = r.outcome /\ failed' = r.error
  /\ Fails(IF r.error THEN "late" ELSE "ok")
  /\ Goto("publish_stop")
  /\ UNCHANGED <<disk, session, by, hand, resume, pos, ghosts, crashes>>

(* publish_stop_outcome.  A stop that reported an error ends the command, and   *)
(* only one that certainly did not happen takes its record back.                 *)
PublishStop(o) ==
  /\ At("publish_stop")
  /\ Advance([hand EXCEPT !.stop = note], o)
  /\ IF o = "ok" /\ ~failed THEN Goto("recheck")
     ELSE IF o = "ok" /\ note = "not_stopped" THEN Goto("withdraw")
     ELSE Reply("refused")
  /\ UNCHANGED <<registry, snapshot, creds, app, by, resume, note, pos, failed,
                 ghosts, crashes>>

(* Without a managed runtime the port is probed instead.                        *)
ProbeQuiescence(o) ==
  /\ At("probe") /\ o # "late"
  /\ IF science = "running" THEN o = "refused" /\ UNCHANGED faults ELSE Fails(o)
  /\ Goto(IF o = "ok" THEN "recheck" ELSE "withdraw")
  /\ UNCHANGED <<disk, app, local, ghosts, crashes>>

(* clear_history_record, whose own failure only leaves the record behind.       *)
Withdraw(o) ==
  /\ At("withdraw") /\ Cas(None, o) /\ Reply("refused")
  /\ UNCHANGED <<registry, snapshot, creds, app, local, ghosts, crashes>>

(* The configuration is read again before the snapshot.                         *)
Recheck(o) ==
  /\ At("recheck") /\ o # "late" /\ Fails(o)
  /\ IF o = "ok" THEN Goto("register") ELSE Reply("refused")
  /\ UNCHANGED <<disk, app, local, ghosts, crashes>>

(* AuthorityTransaction::capture: the fresh root is registered as recovery      *)
(* material before anything is copied into it; a registry that names another    *)
(* snapshot refuses.                                                             *)
Register(o) ==
  /\ At("register")
  /\ IF registry = Empty THEN Fails(o)
     ELSE o = "refused" /\ UNCHANGED faults
  /\ IF o = "refused" THEN UNCHANGED <<registry, snapshot>>
     ELSE /\ registry' = Registered(op)
          /\ snapshot' = [op |-> op, stage |-> "bare",
                          image |-> [e \in Entries |-> None]]
  /\ Goto(IF o = "ok" THEN "copy" ELSE "expire") /\ note' = "capture"
  /\ UNCHANGED <<record, creds, app, by, hand, resume, pos, failed, ghosts, crashes>>

Copy(o) ==
  /\ At("copy") /\ o # "late" /\ Fails(o)
  /\ snapshot' = IF o = "ok" THEN [snapshot EXCEPT !.stage = "captured", !.image = creds]
                 ELSE snapshot
  /\ Goto(IF o = "ok" THEN "activate" ELSE "expire")
  /\ UNCHANGED <<record, registry, creds, app, local, ghosts, crashes>>

Activate(o) ==
  /\ At("activate")
  /\ Advance([hand EXCEPT !.phase = "authority_snapshot_active"], o)
  /\ Goto(IF o = "ok" THEN "manifest" ELSE "compensate")
  /\ UNCHANGED <<registry, snapshot, creds, app, by, resume, note, pos, failed,
                 ghosts, crashes>>

(* persist_history_authority_manifest.                                          *)
PersistManifest(o) ==
  /\ At("manifest") /\ Fails(o)
  /\ snapshot' = IF o = "refused" THEN snapshot ELSE [snapshot EXCEPT !.stage = "manifest"]
  /\ Goto(IF o = "ok" THEN "intend" ELSE "compensate")
  /\ UNCHANGED <<record, registry, creds, app, local, ghosts, crashes>>

\* Mutant: the intent to write is never published.
IntendWrite_Kept(o) ==
  /\ At("intend") /\ o = "ok" /\ Goto("lease")
  /\ UNCHANGED <<disk, app, local, ghosts, faults, crashes>>

IntendWrite(o) ==
  /\ At("intend")
  /\ Advance([hand EXCEPT !.phase = "history_credential_write_pending"], o)
  /\ Goto(IF o = "ok" THEN "lease" ELSE "compensate")
  /\ UNCHANGED <<registry, snapshot, creds, app, by, resume, note, pos, failed,
                 ghosts, crashes>>

------------------------------------------------------------------------------
(* The credentials and the success path.                                        *)

(* The effect lease, and the record read again under it.                        *)
TakeLease(o) ==
  /\ At("lease") /\ o # "late" /\ Fails(o)
  /\ IF o = "ok" /\ record = hand THEN Goto("write") ELSE Reply("refused")
  /\ pos' = 1
  /\ UNCHANGED <<disk, app, by, hand, resume, note, failed, ghosts, crashes>>

(* write_login keeps a usable key and replaces the rest.                        *)
Written(e, old, o) == IF e = "encryption_key" /\ old # None THEN old ELSE o

(* One entry of write_login and write_marker.  The old tokens are removed       *)
(* before the new ones are written.                                              *)
WriteEntry(o) ==
  /\ At("write") /\ Fails(o)
  /\ creds' = [creds EXCEPT ![Entry] =
                 IF o = "ok" THEN Written(Entry, creds[Entry], hand.op)
                 ELSE IF o = "late" /\ Entry = "oauth_tokens" THEN None
                 ELSE IF o = "late" THEN Written(Entry, creds[Entry], hand.op)
                 ELSE creds[Entry]]
  /\ IF o # "ok" THEN Goto("compensate") /\ UNCHANGED pos
     ELSE IF pos = Len(Kinds) THEN Goto("publish") /\ UNCHANGED pos
     ELSE Goto("write") /\ pos' = pos + 1
  /\ UNCHANGED <<record, registry, snapshot, app, by, hand, resume, note, failed,
                 ghosts, crashes>>

Publish(o) ==
  /\ At("publish")
  /\ Advance([hand EXCEPT !.phase = "history_credential_published",
                          !.resume = resume], o)
  /\ Goto(IF o = "ok" THEN "expire" ELSE "compensate")
  /\ note' = "success"
  /\ UNCHANGED <<registry, snapshot, creds, app, by, resume, pos, failed,
                 ghosts, crashes>>

(* complete_history_finalize.                                                   *)
Finalized == IF hand.resume
             THEN [hand EXCEPT !.phase = "resume_after_history_restore", !.resume = FALSE]
             ELSE None

Complete(o) ==
  /\ At("complete")
  /\ Advance(Finalized, o)
  /\ IF o # "ok" THEN Reply("degraded")
     ELSE IF hand.resume THEN Goto("handoff") ELSE Reply("restored")
  /\ UNCHANGED <<registry, snapshot, creds, app, by, resume, note, pos, failed,
                 ghosts, crashes>>

(* one_click_login_after_history_handoff: the login that follows is a command   *)
(* of its own here, and however it ends the history is answered as restored.     *)
Handoff(o) ==
  /\ At("handoff") /\ Cas(None, o)
  /\ IF by = "restore" THEN Reply("restored")
     ELSE Reply(IF o = "ok" THEN "replayed" ELSE "replay_failed")
  /\ UNCHANGED <<registry, snapshot, creds, app, local, ghosts, crashes>>

------------------------------------------------------------------------------
(* cleanup_when_expendable and finalize_failed_authority_snapshot: what a       *)
(* cleanup belongs to decides what its success and its failure mean.             *)
AfterCleanup(cleared, prepared) ==
  CASE note = "capture" -> Goto("withdraw")
    [] note = "success" -> IF prepared THEN Goto("complete") ELSE Reply("degraded")
    [] OTHER -> Reply(IF cleared THEN "compensated" ELSE "incomplete")

(* The registered snapshot becomes expendable.  A failed capture registers its  *)
(* root first if it is not.                                                      *)
Expire(o) ==
  /\ At("expire")
  /\ IF registry = Registered(op) \/ (registry = Empty /\ note = "capture")
     THEN Fails(o) ELSE o = "refused" /\ UNCHANGED faults
  /\ registry' = IF o = "refused" THEN registry ELSE Expendable(op)
  /\ snapshot' = IF o # "refused" /\ registry = Empty
                 THEN [op |-> op, stage |-> "bare", image |-> [e \in Entries |-> None]]
                 ELSE snapshot
  /\ IF o = "ok" THEN Goto("remove") ELSE AfterCleanup(FALSE, FALSE)
  /\ UNCHANGED <<record, creds, app, local, ghosts, crashes>>

(* finalize_registered_authority_cleanup: a root that cannot be removed is left  *)
(* to a later cleanup; a manifest or a root that is not the one expected is an    *)
(* error the success does not survive.                                            *)
RemoveRoot(o) ==
  /\ At("remove") /\ Fails(o)
  /\ snapshot' = IF o = "refused" THEN snapshot ELSE None
  /\ IF o = "ok" THEN Goto("empty")
     ELSE \E prepared \in BOOLEAN : AfterCleanup(FALSE, prepared)
  /\ UNCHANGED <<record, registry, creds, app, local, ghosts, crashes>>

EmptyRegistry(o) ==
  /\ At("empty") /\ Fails(o)
  /\ registry' = IF o = "refused" THEN registry ELSE Empty
  /\ AfterCleanup(o = "ok", TRUE)
  /\ UNCHANGED <<record, snapshot, creds, app, local, ghosts, crashes>>

------------------------------------------------------------------------------
(* compensate_history_failure.                                                   *)

(* A record that is no longer the one in hand stops both ways of compensating.  *)
Compensate(o) ==
  /\ At("compensate") /\ o # "late" /\ Fails(o)
  /\ IF o = "refused" \/ record # hand THEN Reply("incomplete")
     ELSE Goto(IF hand.phase = "history_credential_write_pending"
               THEN "quiesce" ELSE "tree_remove")
  /\ pos' = 1 /\ failed' = FALSE
  /\ UNCHANGED <<disk, app, by, hand, resume, note, ghosts, crashes>>

(* Before the intent to write, the trees come back from the snapshot in memory, *)
(* each removed and copied, one error not stopping the others.                   *)
Present == snapshot # None /\ snapshot.image[Entry] # None
NextTree == IF pos = Len(Kinds) THEN Goto("restore_config") /\ UNCHANGED pos
            ELSE Goto("tree_remove") /\ pos' = pos + 1

TreeRemove(o) ==
  /\ At("tree_remove") /\ Fails(o)
  /\ creds' = [creds EXCEPT ![Entry] = IF o = "refused" THEN @ ELSE None]
  /\ early' = TRUE /\ failed' = (failed \/ o # "ok")
  /\ IF o = "ok" /\ Present THEN Goto("tree_copy") /\ UNCHANGED pos ELSE NextTree
  /\ UNCHANGED <<record, registry, snapshot, app, by, hand, resume, note, op,
                 before, crashes>>

\* Mutant: a tree that could not be copied back is forgotten.
TreeCopy_Forgotten(o) ==
  /\ At("tree_copy") /\ o # "late" /\ Fails(o)
  /\ creds' = IF o = "ok" THEN [creds EXCEPT ![Entry] = snapshot.image[Entry]] ELSE creds
  /\ NextTree
  /\ UNCHANGED <<record, registry, snapshot, app, by, hand, resume, note, failed,
                 ghosts, crashes>>

TreeCopy(o) ==
  /\ At("tree_copy") /\ o # "late" /\ Fails(o)
  /\ creds' = IF o = "ok" THEN [creds EXCEPT ![Entry] = snapshot.image[Entry]] ELSE creds
  /\ failed' = (failed \/ o # "ok") /\ NextTree
  /\ UNCHANGED <<record, registry, snapshot, app, by, hand, resume, note,
                 ghosts, crashes>>

(* The captured configuration, which had no record, is written back even after  *)
(* an error, and the state of the Desktop after it: an error of either shows     *)
(* only in the answer. Only a clean restore then gives the snapshot up.          *)
RestoreConfig(o) ==
  /\ At("restore_config") /\ Cas(None, o) /\ note' = "early"
  /\ IF o = "ok" /\ ~failed THEN Goto("expire") ELSE Reply("incomplete")
  /\ UNCHANGED <<registry, snapshot, creds, app, by, hand, resume, pos, failed,
                 ghosts, crashes>>

------------------------------------------------------------------------------
(* The restore of the entries under a durable intent, by the compensation of    *)
(* the running command or by the replay of a later one-click login.              *)
Refuse == Reply(IF by = "restore" THEN "incomplete" ELSE "replay_failed")
Finish == Reply(IF by = "restore" THEN "compensated" ELSE "replayed")

\* Mutant: only the runtime the Desktop manages counts as running.
Quiesce_Managed(o) ==
  /\ At("quiesce") /\ o # "late"
  /\ IF managed THEN o = "refused" /\ UNCHANGED faults ELSE Fails(o)
  /\ IF o # "ok" THEN Refuse
     ELSE Goto(IF hand.phase = "history_credential_write_pending"
               THEN "intend_restore" ELSE "open_manifest")
  /\ UNCHANGED <<disk, app, local, ghosts, crashes>>

(* require_current_science_quiescence.                                          *)
Quiesce(o) ==
  /\ At("quiesce") /\ o # "late"
  /\ IF managed \/ science = "running" THEN o = "refused" /\ UNCHANGED faults ELSE Fails(o)
  /\ IF o # "ok" THEN Refuse
     ELSE Goto(IF hand.phase = "history_credential_write_pending"
               THEN "intend_restore" ELSE "open_manifest")
  /\ UNCHANGED <<disk, app, local, ghosts, crashes>>

IntendRestore(o) ==
  /\ At("intend_restore")
  /\ Advance([hand EXCEPT !.phase = "history_authority_restore_pending"], o)
  /\ IF o = "ok" THEN Goto("open_manifest") ELSE Refuse
  /\ UNCHANGED <<registry, snapshot, creds, app, by, resume, note, pos, failed,
                 ghosts, crashes>>

(* open_history_snapshot_root and read_history_authority_manifest; a snapshot   *)
(* that is already expendable needs no restore.                                  *)
OpenManifest(o) ==
  /\ At("open_manifest") /\ o # "late"
  /\ IF registry.op = hand.op /\ snapshot # None
        /\ (registry.kind = "active_recovery" => snapshot.stage = "manifest")
     THEN Fails(o) ELSE o = "refused" /\ UNCHANGED faults
  /\ IF o # "ok" THEN Refuse
     ELSE Goto(IF registry.kind = "active_recovery" THEN "entry_remove" ELSE "settle")
  /\ pos' = 1
  /\ UNCHANGED <<disk, app, by, hand, resume, note, failed, ghosts, crashes>>

\* Mutant: the restore does not stop at the last entry.
NextEntry_PastEnd == Goto("entry_remove") /\ pos' = pos + 1

NextEntry == IF pos = Len(Kinds) THEN Goto("settle") /\ UNCHANGED pos
             ELSE Goto("entry_remove") /\ pos' = pos + 1

(* Here the first error ends the restore, and the intent stays.                 *)
EntryRemove(o) ==
  /\ At("entry_remove") /\ Fails(o)
  /\ creds' = [creds EXCEPT ![Entry] = IF o = "refused" THEN @ ELSE None]
  /\ IF o # "ok" THEN Refuse /\ UNCHANGED pos
     ELSE IF Present THEN Goto("entry_copy") /\ UNCHANGED pos ELSE NextEntry
  /\ UNCHANGED <<record, registry, snapshot, app, by, hand, resume, note, failed,
                 ghosts, crashes>>

\* Mutant: an entry that could not be copied back is passed over.
EntryCopy_PassedOver(o) ==
  /\ At("entry_copy") /\ o # "late" /\ Fails(o) /\ NextEntry
  /\ creds' = IF o = "ok" THEN [creds EXCEPT ![Entry] = snapshot.image[Entry]] ELSE creds
  /\ UNCHANGED <<record, registry, snapshot, app, by, hand, resume, note, failed,
                 ghosts, crashes>>

EntryCopy(o) ==
  /\ At("entry_copy") /\ o # "late" /\ Fails(o)
  /\ IF o # "ok" THEN Refuse /\ UNCHANGED <<creds, pos>>
     ELSE NextEntry /\ creds' = [creds EXCEPT ![Entry] = snapshot.image[Entry]]
  /\ UNCHANGED <<record, registry, snapshot, app, by, hand, resume, note, failed,
                 ghosts, crashes>>

SettleRestore(o) ==
  /\ At("settle")
  /\ Advance([hand EXCEPT !.phase = "history_authority_restore_succeeded"], o)
  /\ IF o = "ok" THEN Goto("spend") ELSE Refuse
  /\ UNCHANGED <<registry, snapshot, creds, app, by, resume, note, pos, failed,
                 ghosts, crashes>>

\* Mutant: a root that is already expendable is refused.
Spend_Once(o) ==
  /\ At("spend")
  /\ IF registry = Registered(hand.op) /\ snapshot # None THEN Fails(o)
     ELSE o = "refused" /\ UNCHANGED faults
  /\ registry' = IF o = "refused" THEN registry ELSE Expendable(hand.op)
  /\ IF o = "ok" THEN Goto("clear") ELSE Refuse
  /\ UNCHANGED <<record, snapshot, creds, app, local, ghosts, crashes>>

(* prepare_history_snapshot_cleanup_only: the exact root of the record.         *)
Spend(o) ==
  /\ At("spend")
  /\ IF registry.op = hand.op /\ snapshot # None
     THEN IF registry.kind = "active_recovery" THEN Fails(o)
          ELSE o = "ok" /\ UNCHANGED faults
     ELSE o = "refused" /\ UNCHANGED faults
  /\ registry' = IF o = "refused" THEN registry ELSE Expendable(hand.op)
  /\ IF o = "ok" THEN Goto("clear") ELSE Refuse
  /\ UNCHANGED <<record, snapshot, creds, app, local, ghosts, crashes>>

(* clear_history_record_with_authority.                                         *)
Clear(o) ==
  /\ At("clear") /\ Cas(None, o)
  /\ IF o # "ok" THEN Refuse
     ELSE IF hand.phase = "stop_old_science" THEN Finish ELSE Goto("retry")
  /\ UNCHANGED <<registry, snapshot, creds, app, local, ghosts, crashes>>

(* retry_pending_authority_cleanup: recovery material, and any snapshot while a *)
(* record still has a ticket, is never deleted.                                  *)
Ticketed(r) ==
  r # None /\ r.phase \notin {"stop_old_science", "resume_after_history_restore"}

RetryRemove(o) ==
  /\ At("retry")
  /\ CASE registry = Empty -> o = "ok" /\ UNCHANGED faults
       [] registry.kind = "active_recovery" \/ Ticketed(record) ->
            o = "refused" /\ UNCHANGED faults
       [] OTHER -> Fails(o)
  /\ snapshot' = IF o = "refused" \/ registry = Empty THEN snapshot ELSE None
  /\ IF o # "ok" THEN Refuse
     ELSE IF registry = Empty /\ hand = None THEN Goto("route")
     ELSE IF registry = Empty THEN Finish ELSE Goto("retry_empty")
  /\ UNCHANGED <<record, registry, creds, app, local, ghosts, crashes>>

RetryEmpty(o) ==
  /\ At("retry_empty") /\ Fails(o)
  /\ registry' = IF o = "refused" THEN registry ELSE Empty
  /\ IF o # "ok" THEN Refuse ELSE IF hand = None THEN Goto("route") ELSE Finish
  /\ UNCHANGED <<record, snapshot, creds, app, local, ghosts, crashes>>

------------------------------------------------------------------------------
(* The one-click login: it replays what it finds and then goes its own way.     *)

SafelyStopped(r) == r.stop \in {"not_required", "exact_stopped", "not_stopped"}

OneClick ==
  /\ At("idle") /\ by' = "one_click" /\ hand' = record
  /\ IF record = None THEN Goto("retry")
     ELSE CASE record.phase = "stop_old_science" ->
                 IF SafelyStopped(record) THEN Goto("clear") ELSE Reply("replay_failed")
            [] record.phase \in {"authority_snapshot_active",
                                 "history_authority_restore_succeeded"} -> Goto("spend")
            [] record.phase \in {"history_credential_write_pending",
                                 "history_authority_restore_pending"} -> Goto("quiesce")
            [] record.phase = "history_credential_published" -> Goto("finalize")
            [] OTHER -> Goto("handoff")
  /\ UNCHANGED <<disk, app, resume, note, pos, failed, ghosts, faults, crashes>>

(* replay_finalize_authority_cleanup: an empty registry proves the cleanup;     *)
(* the removal waits until the record has lost its ticket.                       *)
ReplayFinalize(o) ==
  /\ At("finalize")
  /\ CASE registry.op = hand.op /\ registry.kind = "active_recovery" /\ snapshot # None -> Fails(o)
       [] registry = Empty \/ (registry.op = hand.op /\ registry.kind = "cleanup_only") ->
            o = "ok" /\ UNCHANGED faults
       [] OTHER -> o = "refused" /\ UNCHANGED faults
  /\ registry' = IF o # "refused" /\ registry.kind = "active_recovery"
                 THEN Expendable(hand.op) ELSE registry
  /\ IF o = "ok" THEN Goto("replay_complete") ELSE Refuse
  /\ UNCHANGED <<record, snapshot, creds, app, local, ghosts, crashes>>

ReplayComplete(o) ==
  /\ At("replay_complete") /\ Cas(Finalized, o)
  /\ IF o = "ok" THEN Finish ELSE Refuse
  /\ UNCHANGED <<registry, snapshot, creds, app, local, ghosts, crashes>>

(* With nothing left to replay the login runs; it may come to ask for a history *)
(* choice, and Science may have been started again by then.                      *)
Route(run) ==
  /\ At("route") /\ Reply("routed")
  /\ session' = TRUE /\ managed' = run /\ science' = IF run THEN "running" ELSE "stopped"
  /\ UNCHANGED <<disk, local, ghosts, faults, crashes>>

(* Somebody starts or stops Science by hand while no command runs.               *)
ScienceOutside(now) ==
  /\ At("idle") /\ science # now /\ science' = now /\ ~(managed /\ now = "running")
  /\ Fails(IF now = "running" THEN "late" ELSE "ok")
  /\ answer' = "none"
  /\ UNCHANGED <<disk, managed, session, local, ghosts, pc, crashes>>

(* The Desktop dies: only the disk and Science outlive it.                      *)
Crash ==
  /\ crashes < MaxCrashes /\ crashes' = crashes + 1
  /\ managed' = FALSE /\ session' = FALSE /\ hand' = None
  /\ pc' = "idle" /\ answer' = "none"
  /\ UNCHANGED <<disk, science, by, resume, note, pos, failed, ghosts, faults>>

Step(o) ==
  \/ PublishStop(o) \/ ProbeQuiescence(o) \/ Withdraw(o) \/ Recheck(o)
  \/ Register(o) \/ Copy(o) \/ Activate(o) \/ PersistManifest(o) \/ IntendWrite(o)
  \/ TakeLease(o) \/ WriteEntry(o) \/ Publish(o) \/ Complete(o) \/ Handoff(o)
  \/ Expire(o) \/ RemoveRoot(o) \/ EmptyRegistry(o)
  \/ Compensate(o) \/ TreeRemove(o) \/ TreeCopy(o) \/ RestoreConfig(o)
  \/ Quiesce(o) \/ IntendRestore(o) \/ OpenManifest(o) \/ EntryRemove(o)
  \/ EntryCopy(o) \/ SettleRestore(o) \/ Spend(o) \/ Clear(o)
  \/ RetryRemove(o) \/ RetryEmpty(o) \/ ReplayFinalize(o) \/ ReplayComplete(o)

Next ==
  \/ \E r \in BOOLEAN, o \in Outcomes : Begin(r, o)
  \/ \E r \in StopResults, now \in {"running", "stopped"} : StopScience(r, now)
  \/ \E o \in Outcomes : Step(o)
  \/ OneClick
  \/ \E run \in BOOLEAN : Route(run)
  \/ \E now \in {"running", "stopped"} : ScienceOutside(now)
  \/ Crash

Spec == Init /\ [][Next]_vars

(* A command that started goes on by itself; a user whose login was refused     *)
(* clicks again, and stops a Science that is in the way.                         *)
PersistentSpec ==
  /\ Spec
  /\ WF_vars((\E o \in Outcomes : Step(o))
               \/ \E r \in StopResults, now \in {"running", "stopped"} : StopScience(r, now))
  /\ WF_vars(OneClick)
  /\ SF_vars(ScienceOutside("stopped"))

------------------------------------------------------------------------------
(* What must hold.                                                              *)

Chosen == [e \in Entries |-> Written(e, before[e], op)]
Whole == creds \in {before, Chosen}

(* The type of the state.                                                       *)
TypeOK ==
  /\ record \in Records \cup {None} /\ hand \in Records \cup {None}
  /\ registry \in Registries /\ snapshot \in Snapshots \cup {None}
  /\ creds \in Images /\ before \in Images
  /\ science \in {"running", "stopped"} /\ managed \in BOOLEAN /\ session \in BOOLEAN
  /\ op \in 0 .. MaxOps /\ pos \in 1 .. Len(Kinds)
  /\ resume \in BOOLEAN /\ failed \in BOOLEAN /\ early \in BOOLEAN
  /\ by \in {"restore", "one_click"}
  /\ faults \in 0 .. MaxFaults /\ crashes \in 0 .. MaxCrashes

(* Credentials that are neither the login before nor the chosen history always  *)
(* have an open intent and a protected snapshot of the login before, with its    *)
(* manifest, whatever failed and wherever the Desktop died.  The one exception   *)
(* is a compensation before the intent, which restores without a durable record. *)
TornIsJournaled ==
  ~Whole /\ ~early =>
    /\ record # None
    /\ record.phase \in {"history_credential_write_pending",
                         "history_authority_restore_pending"}
    /\ registry = Registered(op)
    /\ snapshot = [op |-> op, stage |-> "manifest", image |-> before]

(* Each phase of the journal is true of the disk, so that the replay of that    *)
(* phase finds what it needs and never declares what did not happen.  The same   *)
(* exception: while the snapshot is active but a compensation before the intent  *)
(* has begun, the trees may be half restored under a record that says untouched. *)
JournalIsTrue ==
  record # None =>
    /\ record.op = op
    /\ record.phase = "authority_snapshot_active" =>
         snapshot # None /\ registry.op = op /\ (creds = before \/ early)
    /\ record.phase \in {"history_credential_write_pending",
                         "history_authority_restore_pending"} =>
         /\ registry = Registered(op)
         /\ snapshot = [op |-> op, stage |-> "manifest", image |-> before]
    /\ record.phase = "history_authority_restore_succeeded" =>
         creds = before /\ snapshot # None /\ registry.op = op
    /\ record.phase \in {"history_credential_published", "resume_after_history_restore"} =>
         creds = Chosen

(* What a command answers is what is on disk: restored or degraded means the    *)
(* chosen history, refused or compensated means the login before.                *)
AnswersAreTrue ==
  /\ answer \in {"restored", "degraded"} => creds = Chosen
  /\ answer \in {"refused", "compensated"} => creds = before

(* Credentials change only while Science is stopped and under a record of the   *)
(* operation that changes them.                                                  *)
WritesUnderQuiescence ==
  [][creds' # creds => /\ science = "stopped" /\ ~managed
                       /\ record # None /\ record.op = op]_vars

(* A journal whose stop is known to be safe is closed in the end: no replay     *)
(* refuses for ever.                                                             *)
JournalSettles ==
  record # None /\ SafelyStopped(record) ~> record = None

(* comment of recovery.rs: a snapshot stops being recovery material only after  *)
(* a success or a fully successful compensation.                                 *)
ExpendedOnlyWhenWhole ==
  [][registry.kind = "active_recovery" /\ registry'.kind = "cleanup_only" => Whole']_vars
=============================================================================
