-------------------------- MODULE ConfigOperations ---------------------------
(* The two ledgers of the configuration directory together: the commands run    *)
(* one at a time under the lifecycle mutation lease, the boot decision runs     *)
(* beside them (a second launch of the application runs it again in the living  *)
(* process), plain writers come in between, components exit and are replaced,   *)
(* and the application can die at any point.                                    *)
EXTENDS CodexDisable, ConfigMutation

Init ==
  /\ image \in [codex : {TRUE}, rest : Contents] /\ journal = FALSE
  /\ dfence = None /\ mfence = None
  /\ dreceipt = None /\ dclearing = None /\ mreceipt = None /\ mclearing = None
  /\ comp \in [Components -> {"original", "absent"}]
  /\ backup = TRUE /\ did = {} /\ owed = {} /\ mdone = {}
  /\ pc = [t \in Threads |-> "idle"] /\ open = [t \in Threads |-> None]
  /\ stopped = [t \in Threads |-> {}] /\ outcome = [t \in Threads |-> "none"]
  /\ mopen = None /\ midx = 1 /\ lease = "none"
  /\ seen = [disable |-> FALSE, mfence |-> None, journal |-> FALSE, receipt |-> None]
  /\ ops = 0 /\ faults = 0 /\ env = 0 /\ crashes = 0 /\ boots = 0

(* ------------------------------------------------------------------------- *)
(* Everything else that touches the configuration or the components.           *)
(* ------------------------------------------------------------------------- *)
\* Mutant: a fence without a receipt does not hold a writer back.
PlainWrite_ReceiptOnly ==
  /\ env < MaxEnv /\ env' = env + 1
  /\ Revive
  /\ image' \in IF NoReceipts THEN Images \ {image} ELSE {image}
  /\ UNCHANGED <<journal, dfence, mfence, world, threads, ops, faults, crashes, boots>>

(* config::update and its kin: refused beside a receipt, and beside a fence     *)
(* because the authority next to a fence must not change.                       *)
PlainWrite ==
  /\ env < MaxEnv /\ env' = env + 1
  /\ Revive
  /\ image' \in IF NoReceipts /\ dfence = None /\ mfence = None
                THEN Images \ {image} ELSE {image}
  /\ UNCHANGED <<journal, dfence, mfence, world, threads, ops, faults, crashes, boots>>

\* A One-click transaction opens and closes its journal through the same writer.
OneClickJournal ==
  /\ env < MaxEnv /\ env' = env + 1
  /\ lease = "none" /\ NoReceipts /\ dfence = None /\ mfence = None
  /\ journal' = ~journal
  /\ UNCHANGED <<image, dfence, mfence, ledgers, world, threads, ops, faults, crashes, boots>>

\* A component exits, or something else takes its place or leaves it.
ComponentChanges(c) ==
  /\ env < MaxEnv /\ env' = env + 1
  /\ comp' = [comp EXCEPT ![c] = IF @ = "absent" THEN "foreign" ELSE "absent"]
  /\ UNCHANGED <<config, ledgers, backup, did, owed, mdone, threads, ops, faults, crashes, boots>>

(* The process dies; what it had started or stopped stays as it is.             *)
Crash ==
  /\ crashes < MaxCrashes /\ crashes' = crashes + 1
  /\ \E t \in Threads : pc[t] # "idle"
  /\ pc' = [t \in Threads |-> "idle"] /\ open' = [t \in Threads |-> None]
  /\ stopped' = [t \in Threads |-> {}] /\ outcome' = [t \in Threads |-> "none"]
  /\ mopen' = None /\ midx' = 1 /\ lease' = "none"
  /\ seen' = [disable |-> FALSE, mfence |-> None, journal |-> FALSE, receipt |-> None]
  /\ UNCHANGED <<config, ledgers, world, ops, faults, env, boots>>

Command == DisableCommand \/ DisableEither("cmd") \/ MutationCommand
Boot    == MutationBoot \/ DisableBoot \/ DisableEither("boot")
Next ==
  \/ PlanDisable \/ PlanMutation \/ Command \/ BootLoad \/ Boot
  \/ PlainWrite \/ OneClickJournal \/ (\E c \in Components : ComponentChanges(c)) \/ Crash

Spec == Init /\ [][Next]_vars

(* ------------------------------------------------------------------------- *)
(* Types.                                                                      *)
(* ------------------------------------------------------------------------- *)
MutationReceipts ==
  [op : Ops, before : Images, after : Images,
   plan : UNION {[1..n -> EffectKinds] : n \in 1..3},
   effects : UNION {[1..n -> EffectStates] : n \in 1..3}, terminal : Terminals]
Steps ==
  {"idle", "publish", "reconcile", "stopping", "lease", "effect", "applied", "unproved",
   "unstarted", "commit", "committed", "clear", "unfence", "fail", "retain", "project",
   "restore", "restoring", "science", "gateway", "verify",
   "m_begin", "m_open", "m_effect", "m_record", "m_uncertain", "m_before", "m_after",
   "m_complete", "m_fence", "m_clear", "m_end",
   "b_receipts", "b_mutation", "b_clear", "b_orphan", "orphan", "read", "image", "replay"}

(* Every variable of the composed system keeps its type.                        *)
TypeOK ==
  /\ image \in Images /\ journal \in BOOLEAN /\ backup \in BOOLEAN
  /\ dfence = None \/ dfence \in [op : Ops, before : Images, after : Images]
  /\ mfence = None
     \/ mfence \in [op : Ops, phase : {"begin", "terminal"}, before : Images, after : Images,
                    receipt : MutationReceipts \cup {None}, config : {"before", "after"}]
  /\ {dreceipt, dclearing, open["cmd"], open["boot"]} \subseteq DisableReceipts \cup {None}
  /\ {mreceipt, mclearing, mopen, seen.receipt} \subseteq MutationReceipts \cup {None}
  /\ comp \in [Components -> {"original", "absent", "restored", "foreign"}]
  /\ did \subseteq Components /\ owed \subseteq Components /\ mdone \subseteq 1..3
  /\ pc \in [Threads -> Steps] /\ stopped \in [Threads -> SUBSET Components]
  /\ outcome \in [Threads -> {"none", "ok", "failed", "attention"}]
  /\ midx \in 1..3 /\ lease \in Threads \cup {"none"}
  /\ ops \in 0..MaxOps /\ faults \in 0..MaxFaults /\ env \in 0..MaxEnv
  /\ crashes \in 0..MaxCrashes /\ boots \in 0..MaxBoots

(* ------------------------------------------------------------------------- *)
(* Safety.                                                                     *)
(* ------------------------------------------------------------------------- *)
DisableRecord  == Read(dreceipt, dclearing)
MutationRecord == Read(mreceipt, mclearing)

(* The two ledgers exclude each other and an open runtime journal: the boot      *)
(* could not tell which of two records the state of the runtime belongs to.      *)
LedgersExclude ==
  LET disable  == DisableRecord # None \/ dfence # None
      mutation == MutationRecord # None \/ mfence # None
  IN ~(disable /\ mutation) /\ ~(journal /\ (disable \/ mutation))

(* A record always speaks of the configuration it lies beside.  No receipt        *)
(* outlives its fence, for without it a plain writer could change the image the   *)
(* receipt names; the disable ledger takes its fence back after a receipt that     *)
(* reported an error and may leave that one behind, but then before any effect.    *)
(* Under a fence the configuration is one of its two images, under a terminal      *)
(* fence the very one it claims.                                                   *)
RecordsAnchored ==
  /\ MutationRecord # None =>
       mfence = BeginFence(MutationRecord) \/ (mfence # None /\ mfence.op = MutationRecord.op)
  /\ DisableRecord # None =>
       \/ dfence = DisableFence(DisableRecord)
       \/ DisableRecord.phase.kind \in {"Intent", "Attention"} /\ owed = {}
  /\ dfence # None => image \in {dfence.before, dfence.after}
  /\ mfence # None =>
       IF mfence.phase = "terminal" THEN image = FenceImage(mfence)
                                    ELSE image \in {mfence.before, mfence.after}

(* What the records say about effects is so, at every instant a crash may pick: a *)
(* stop the disable receipt records was confirmed, a component that it neither     *)
(* records nor announces has not been stopped, and the switch is committed after    *)
(* every stop of the plan; a Pending effect of a mutation has not begun and a       *)
(* Succeeded one has happened.                                                     *)
ReceiptTruth ==
  /\ DisableRecord # None /\ DisableRecord.phase.kind \in {"Intent", "Stopping", "EffectsApplied"} =>
       /\ DisableRecord.phase.stopped \subseteq did
       /\ owed \subseteq DisableRecord.phase.stopped \cup {DisableRecord.phase.target}
       /\ dfence # None /\ image = dfence.after => DisableRecord.plan \subseteq did
  /\ MutationRecord # None => \A i \in DOMAIN MutationRecord.effects :
       /\ MutationRecord.effects[i] = "Pending" => i \notin mdone
       /\ MutationRecord.effects[i] = "Succeeded" => i \in mdone

(* A fence is given up only when nothing is left to decide: over the before-image *)
(* every component the operation stopped has been put back; a mutation's fence    *)
(* goes before any of its effects, or after all of them over the after-image.     *)
FenceClearedIsSettled ==
  [][/\ dfence # None /\ dfence' = None /\ image = dfence.before => owed = {}
     /\ mfence # None /\ mfence' = None =>
          \/ image = mfence.before /\ mdone = {}
          \/ image = mfence.after /\ mfence.phase = "terminal"
             /\ mdone = DOMAIN mfence.receipt.plan]_vars

(* A component is started again only by the operation that provably stopped it,   *)
(* under a receipt that says so: an exit or a kill by something else, which looks  *)
(* the same from a fresh process, is never undone.                                *)
RestoreAuthority ==
  [][\A c \in Components :
       comp[c] # "restored" /\ comp'[c] = "restored" =>
         /\ c \in did
         /\ DisableRecord # None /\ dfence = DisableFence(DisableRecord)
         /\ DisableRecord.phase.kind = "Restoring" /\ c \in DisableRecord.phase.stopped]_vars

(* A disable that reports a plain, repeatable failure has left nothing behind: no  *)
(* receipt, no fence, and every component it stopped running again.                *)
HonestFailure ==
  [][outcome["cmd"] # "failed" /\ outcome'["cmd"] = "failed" /\ pc["cmd"] # "m_begin" =>
       DisableRecord' = None /\ dfence' = None /\ owed' = {}]_vars

=============================================================================
