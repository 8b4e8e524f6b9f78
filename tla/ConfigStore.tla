----------------------------- MODULE ConfigStore -----------------------------
(* The configuration directory of the desktop application: config.json with   *)
(* its two operation fences and its runtime journal, and the two receipts that *)
(* lie beside it, one of the Codex-disable ledger and one of the               *)
(* configuration-mutation ledger, each with the private name under which it    *)
(* is cleared.  Every operator here is one critical section of the config      *)
(* writer lock.  CodexDisable and ConfigMutation run on it; ConfigOperations   *)
(* puts the two together with the plain writers, crashes and the boot.         *)
(*                                                                             *)
(* A fingerprint or a digest is modelled by the value it is computed from.     *)
EXTENDS Integers, Sequences, FiniteSets

CONSTANTS
  Contents,    \* what config.json holds besides the Codex switch and the fences
  MaxOps,      \* bound: operations admitted to either ledger
  MaxFaults,   \* bound: file operations that report an error
  MaxEnv,      \* bound: changes of a component made by something else
  MaxCrashes,  \* bound: deaths of the application
  MaxBoots     \* bound: runs of the boot decision

ASSUME BoundsAssumption ==
  /\ MaxOps \in Nat /\ MaxFaults \in Nat /\ MaxEnv \in Nat
  /\ MaxCrashes \in Nat /\ MaxBoots \in Nat

VARIABLES
  image,      \* config.json without fences and journal
  journal,    \* whether it carries an open runtime journal
  dfence, mfence,        \* the two operation fences in config.json
  dreceipt, dclearing,   \* the Codex-disable receipt and its clearing file
  mreceipt, mclearing,   \* the configuration-mutation receipt, likewise
  comp,       \* the runtime components as the plan of the open operation sees them
  backup,     \* whether the rolling backup of config.json exists
  pc, open, stopped, outcome,  \* per thread: step, receipt in hand, stops known, result
  mopen, midx,                 \* the command's mutation receipt and current effect
  seen,       \* the configuration the boot decision has read
  lease,      \* the thread that holds the lifecycle mutation lease
  did, owed,  \* ghosts: components this operation stopped; those not put back yet
  mdone,      \* ghost: effects of the mutation that have really happened
  ops, faults, env, crashes, boots

config  == <<image, journal, dfence, mfence>>
ledgers == <<dreceipt, dclearing, mreceipt, mclearing>>
world   == <<comp, backup, did, owed, mdone>>
threads == <<pc, open, stopped, outcome, mopen, midx, seen, lease>>
budgets == <<ops, faults, env, crashes, boots>>
vars    == <<config, ledgers, world, threads, budgets>>

Components == {"Science", "Gateway"}
Threads    == {"cmd", "boot"}
None       == [op |-> 0]
Images     == [codex : BOOLEAN, rest : Contents]
Ops        == 1..MaxOps

Goto(t, label) == pc' = [pc EXCEPT ![t] = label]
Finish(t, result) ==
  /\ Goto(t, "idle")
  /\ outcome' = [outcome EXCEPT ![t] = result]
  /\ lease' = IF lease = t THEN "none" ELSE lease

(* A file operation reports success or an error.  An error can leave the old   *)
(* bytes ("failed") or, when even the rollback of the rename failed, the new   *)
(* ones ("uncertain").                                                         *)
IO(o) ==
  /\ o \in {"ok", "failed", "uncertain"}
  /\ o # "ok" => faults < MaxFaults
  /\ faults' = IF o = "ok" THEN faults ELSE faults + 1

(* Reading a ledger first brings an interrupted clear back to its own name.    *)
Read(receipt, clearing) == IF clearing # None THEN clearing ELSE receipt
Revive ==
  /\ dreceipt' = Read(dreceipt, dclearing) /\ dclearing' = None
  /\ mreceipt' = Read(mreceipt, mclearing) /\ mclearing' = None
NoReceipts == Read(dreceipt, dclearing) = None /\ Read(mreceipt, mclearing) = None
\* Mutant: only the journal counts as an open transaction.
NoTransaction_JournalOnly == ~journal
NoTransaction == dfence = None /\ mfence = None /\ ~journal

(* ------------------------------------------------------------------------- *)
(* The Codex-disable ledger.                                                   *)
(* ------------------------------------------------------------------------- *)
Phase(kind, target, done) == [kind |-> kind, target |-> target, stopped |-> done]
Targets == Components \cup {"none"}
Phases ==
  [kind : {"Intent", "Stopping", "EffectsApplied", "Restoring", "Restored",
           "ConfigCommitted", "Attention"},
   target : Targets, stopped : SUBSET Components]
DisableReceipts ==
  [op : Ops, before : Images, after : Images, plan : SUBSET Components, phase : Phases]

DisableFence(r) == [op |-> r.op, before |-> r.before, after |-> r.after]
DisableImage(r) == IF r.phase.kind = "ConfigCommitted" THEN r.after ELSE r.before

(* A receipt may advance while its fence stands over the image its next phase  *)
(* speaks of and its bytes are the ones in hand.                               *)
CanAdvance(r, kind) ==
  /\ dfence = DisableFence(r)
  /\ kind # "Attention" => image = DisableImage([r EXCEPT !.phase.kind = kind])
  /\ dclearing = None /\ dreceipt = r

CanClear(r) ==
  /\ dfence = DisableFence(r) /\ image = DisableImage(r)
  /\ dclearing = None /\ dreceipt = r

(* ------------------------------------------------------------------------- *)
(* The configuration-mutation ledger.                                          *)
(* ------------------------------------------------------------------------- *)
EffectKinds  == {"StopScience", "StopGateway", "Commit", "Backup"}
EffectStates == {"Pending", "InProgress", "Succeeded", "Uncertain"}
NoTerminal   == [state |-> "open", config |-> "before"]
Terminals    == [state : {"open", "completed", "attention"}, config : {"before", "after"}]

BeginFence(r) ==
  [op |-> r.op, phase |-> "begin", before |-> r.before, after |-> r.after,
   receipt |-> None, config |-> "before"]
TerminalFence(r) ==
  [BeginFence(r) EXCEPT !.phase = "terminal", !.receipt = r, !.config = r.terminal.config]
FenceImage(f) == IF f.config = "after" THEN f.after ELSE f.before

CanCheckpoint(r) == mclearing = None /\ mfence = BeginFence(r) /\ mreceipt = r

(* The ordered cleanup of a terminal receipt: rename, unlink, clear the fence, *)
(* all under one writer lock.  An error or a death in between leaves one of    *)
(* the two intermediate states, or nothing when only the last sync fails.      *)
ClearMutation(fence, r, left) ==
  LET exact == /\ mfence = fence /\ image = FenceImage(fence)
               /\ Read(mreceipt, mclearing) = r
  IN /\ left \in {"none", "unsynced", "fence", "clearing", "all"}
     /\ (~exact => left = "all")
     /\ (exact /\ left # "none") => faults < MaxFaults
     /\ faults' = IF exact /\ left # "none" THEN faults + 1 ELSE faults
     /\ mreceipt'  = IF left = "all" THEN Read(mreceipt, mclearing) ELSE None
     /\ mclearing' = IF left = "clearing" THEN r ELSE None
     /\ mfence'    = IF left \in {"none", "unsynced"} THEN None ELSE mfence
=============================================================================
