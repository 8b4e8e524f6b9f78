--------------------------- MODULE ConfigMutation ----------------------------
(* The configuration commands that also act on the runtime: switching to the   *)
(* official mode (stop Science and the Gateway, commit) and clearing the key    *)
(* of, or deleting, the applied profile (stop the Gateway, commit, delete the   *)
(* rolling backup).  Every effect is checkpointed in the receipt before and     *)
(* after it happens.  The boot finishes the cleanup of a completed operation    *)
(* and clears a fence that lost its receipt; it repeats and undoes nothing.     *)
EXTENDS ConfigStore

\* What no step of this ledger changes once the operation is admitted.
Beside == UNCHANGED <<journal, dfence, dreceipt, dclearing, did, owed, open, stopped,
                      ops, env, crashes, boots>>
Unreported == UNCHANGED <<outcome, lease>>
Unaffected == UNCHANGED <<comp, backup, mdone>>

(* ------------------------------------------------------------------------- *)
(* Effects of the plan in hand.                                                *)
(* ------------------------------------------------------------------------- *)
Target(kind) == IF kind = "StopScience" THEN "Science" ELSE "Gateway"
Stops(kind)  == kind \in {"StopScience", "StopGateway"}
ProfilePlan  == <<"StopGateway", "Commit", "Backup">>
OfficialPlan ==
  LET running(c) == comp[c] \in {"original", "restored"}
  IN (IF running("Science") THEN <<"StopScience">> ELSE <<>>) \o
     (IF running("Gateway") THEN <<"StopGateway">> ELSE <<>>) \o <<"Commit">>

CommitAt(r) == CHOOSE i \in DOMAIN r.plan : r.plan[i] = "Commit"
\* The attention record an error at effect i ends in, by the image it claims.
AttentionAt(r, i) == IF i <= CommitAt(r) THEN "m_before" ELSE "m_after"
\* Mutant: only the stops are opened before they are performed.
ToOpen_Stops(r, i) == {j \in {i} : r.effects[j] = "Pending" /\ Stops(r.plan[j])}
\* The official switch opens both stops before it performs the first one.
ToOpen(r, i) ==
  {j \in DOMAIN r.plan :
     /\ r.effects[j] = "Pending"
     /\ j = i \/ (r.plan # ProfilePlan /\ Stops(r.plan[i]) /\ Stops(r.plan[j]))}
First(S) == CHOOSE i \in S : \A j \in S : i <= j

(* ------------------------------------------------------------------------- *)
(* Admission.                                                                  *)
(* ------------------------------------------------------------------------- *)
PlanMutation ==
  \E plan \in {ProfilePlan, OfficialPlan}, after \in Images :
    /\ pc["cmd"] = "idle" /\ lease = "none" /\ ops < MaxOps
    /\ NoReceipts /\ NoTransaction
    /\ Len(plan) > 1 /\ after # image /\ after.codex = image.codex
    /\ plan = ProfilePlan => backup
    /\ Goto("cmd", "m_begin") /\ lease' = "cmd"
    /\ mopen' = [op |-> ops + 1, before |-> image, after |-> after, plan |-> plan,
                 effects |-> [i \in 1..Len(plan) |-> "Pending"], terminal |-> NoTerminal]
    /\ midx' = 1 /\ mdone' = {}
    /\ comp' = [c \in Components |-> IF comp[c] = "restored" THEN "original" ELSE comp[c]]
    /\ ops' = ops + 1 /\ outcome' = [outcome EXCEPT !["cmd"] = "none"]
    /\ UNCHANGED <<config, ledgers, backup, did, owed, open, stopped, seen,
                   faults, env, crashes, boots>>

(* begin_config_mutation_operation: after a failed receipt the fence is taken   *)
(* back only if no receipt is there, so a receipt never stays without it.       *)
BeginMutation ==
  LET admitted == NoReceipts /\ NoTransaction /\ image = mopen.before
  IN /\ pc["cmd"] = "m_begin" /\ UNCHANGED <<journal, dfence, did, owed, open, stopped,
                                              ops, env, crashes, boots>>
     /\ \E fenced, written, good \in BOOLEAN :
          /\ written => fenced
          /\ good => admitted /\ written
          /\ ~admitted => ~fenced
          /\ IO(IF admitted /\ ~good THEN "failed" ELSE "ok")
          /\ mfence' = IF fenced THEN BeginFence(mopen) ELSE mfence
          /\ mreceipt' = IF written THEN mopen ELSE Read(mreceipt, mclearing)
          /\ IF good THEN Goto("cmd", "m_open") /\ Unreported ELSE Finish("cmd", "failed")
     /\ mclearing' = None
     /\ dreceipt' = Read(dreceipt, dclearing) /\ dclearing' = None
     /\ Unaffected /\ UNCHANGED <<image, mopen, midx, seen>>

(* ------------------------------------------------------------------------- *)
(* Checkpoints, effects and the end of the operation.                          *)
(* ------------------------------------------------------------------------- *)
(* One exact-byte replacement of the receipt under the begin fence.            *)
Checkpoint(next, then, else) ==
  \E o \in {"ok", "failed", "uncertain"} :
    /\ IO(o) /\ (CanCheckpoint(mopen) \/ o = "ok")
    /\ mreceipt' = IF CanCheckpoint(mopen) /\ o # "failed" THEN next ELSE mreceipt
    /\ IF CanCheckpoint(mopen) /\ o = "ok"
       THEN mopen' = next /\ Goto("cmd", then)
       ELSE mopen' = mopen /\ Goto("cmd", else)
    /\ UNCHANGED <<image, mfence, mclearing, seen>>

WithEffect(r, i, state) == [r EXCEPT !.effects[i] = state]

OpenEffect ==
  LET todo == ToOpen(mopen, midx)
      i == First(todo)
  IN /\ pc["cmd"] = "m_open" /\ Beside /\ Unaffected /\ Unreported
     /\ \/ todo = {} /\ Goto("cmd", "m_effect")
           /\ UNCHANGED <<image, mfence, mreceipt, mclearing, mopen, midx, seen, faults>>
        \/ todo # {} /\ Checkpoint(WithEffect(mopen, i, "InProgress"), "m_open",
                                    AttentionAt(mopen, midx))
           /\ UNCHANGED midx

MutationEffect ==
  LET kind == mopen.plan[midx]
      c == Target(kind)
      exact == CanCheckpoint(mopen) /\ image = mopen.before
      good == Goto("cmd", "m_record") /\ mdone' = mdone \cup {midx}
      bad(happened) ==
        /\ Goto("cmd", IF kind = "Commit" /\ mopen.plan # ProfilePlan
                     THEN "m_before" ELSE "m_uncertain")
        /\ mdone' = IF happened THEN mdone \cup {midx} ELSE mdone
  IN /\ pc["cmd"] = "m_effect" /\ Beside /\ Unreported
     /\ \/ /\ Stops(kind) /\ (c = "Gateway" \/ comp[c] # "foreign")
           /\ comp' = IF comp[c] = "foreign" THEN comp ELSE [comp EXCEPT ![c] = "absent"]
           /\ good /\ UNCHANGED <<image, backup, faults>>
        \/ /\ Stops(kind) /\ IO(IF comp[c] = "original" THEN "failed" ELSE "ok")
           /\ comp' \in {comp, [comp EXCEPT ![c] = IF @ = "original" THEN "absent" ELSE @]}
           /\ bad(comp' # comp) /\ UNCHANGED <<image, backup>>
        \/ /\ kind = "Commit" /\ exact
           /\ image' = mopen.after /\ good /\ UNCHANGED <<comp, backup, faults>>
        \/ /\ kind = "Commit" /\ IO(IF exact THEN "failed" ELSE "ok")
           /\ image' \in (IF exact THEN {image, mopen.after} ELSE {image})
           /\ bad(image' # image) /\ UNCHANGED <<comp, backup>>
        \/ /\ kind = "Backup" /\ backup' = FALSE
           /\ good /\ UNCHANGED <<image, comp, faults>>
        \/ /\ kind = "Backup" /\ IO("failed") /\ backup' \in {backup, FALSE}
           /\ bad(backup' # backup) /\ UNCHANGED <<image, comp>>
     /\ UNCHANGED <<mfence, mreceipt, mclearing, mopen, midx, seen>>

\* Mutant: the step after the last effect is a further effect.
RecordEffect_PastEnd ==
  /\ pc["cmd"] = "m_record" /\ Beside /\ Unaffected /\ Unreported
  /\ Checkpoint(WithEffect(mopen, midx, "Succeeded"),
                IF midx = Len(mopen.plan) THEN "m_complete" ELSE "m_open",
                AttentionAt(mopen, midx + 1))
  /\ midx' = IF mopen' = mopen THEN midx ELSE midx + 1

RecordEffect ==
  /\ pc["cmd"] = "m_record" /\ Beside /\ Unaffected /\ Unreported
  /\ Checkpoint(WithEffect(mopen, midx, "Succeeded"),
                IF midx = Len(mopen.plan) THEN "m_complete" ELSE "m_open",
                AttentionAt(mopen, midx + 1))
  /\ midx' = IF mopen' = mopen \/ midx = Len(mopen.plan) THEN midx ELSE midx + 1

\* A best-effort checkpoint; the attention record follows either way.
RecordUncertain ==
  /\ pc["cmd"] = "m_uncertain" /\ Beside /\ Unaffected /\ Unreported
  /\ Checkpoint(WithEffect(mopen, midx, "Uncertain"),
                AttentionAt(mopen, midx), AttentionAt(mopen, midx))
  /\ UNCHANGED midx

(* finish: the terminal receipt, then the terminal fence over the image it      *)
(* claims.  Attention ends there; a completed operation is cleared.             *)
FinishReceipt ==
  LET terminal ==
        CASE pc["cmd"] = "m_complete" -> [state |-> "completed", config |-> "after"]
          [] pc["cmd"] = "m_before" -> [state |-> "attention", config |-> "before"]
          [] OTHER -> [state |-> "attention", config |-> "after"]
  IN /\ pc["cmd"] \in {"m_complete", "m_before", "m_after"}
     /\ Beside /\ Unaffected /\ Unreported
     /\ Checkpoint([mopen EXCEPT !.terminal = terminal], "m_fence", "m_end")
     /\ UNCHANGED midx

FinishFence ==
  LET fence == TerminalFence(mopen)
      exact == mreceipt = mopen /\ mfence = BeginFence(mopen) /\ image = FenceImage(fence)
  IN /\ pc["cmd"] = "m_fence" /\ Beside /\ Unaffected /\ Unreported
     /\ \E o \in {"ok", "failed", "uncertain"} :
          /\ IO(o) /\ (exact \/ o = "ok")
          /\ mfence' = IF exact /\ o # "failed" THEN fence ELSE mfence
          /\ Goto("cmd", IF exact /\ o = "ok" /\ mopen.terminal.state = "completed"
                       THEN "m_clear" ELSE "m_end")
     /\ UNCHANGED <<image, mreceipt, mclearing, mopen, midx, seen>>

FinishClear ==
  /\ pc["cmd"] = "m_clear" /\ Beside /\ Unaffected
  /\ \E left \in {"none", "unsynced", "fence", "clearing", "all"} :
       /\ ClearMutation(TerminalFence(mopen), mopen, left)
       /\ Finish("cmd", IF left = "none" THEN "ok" ELSE "attention")
  /\ UNCHANGED <<image, mopen, midx, seen>>

MutationAttention ==
  /\ pc["cmd"] = "m_end" /\ Beside /\ Unaffected
  /\ Finish("cmd", "attention")
  /\ UNCHANGED <<image, mfence, mreceipt, mclearing, mopen, midx, seen, faults>>

(* ------------------------------------------------------------------------- *)
(* The boot decision's first half (boot_recover): it reads config.json, then    *)
(* the receipts, and only then decides; none of it holds the mutation lease.    *)
(* ------------------------------------------------------------------------- *)
BootLoad ==
  /\ pc["boot"] = "idle" /\ boots < MaxBoots /\ boots' = boots + 1
  /\ Goto("boot", "b_receipts")
  /\ seen' = [disable |-> dfence # None, mfence |-> mfence, journal |-> journal, receipt |-> None]
  /\ outcome' = [outcome EXCEPT !["boot"] = "none"]
  /\ UNCHANGED <<config, ledgers, world, open, stopped, mopen, midx, lease,
                 ops, faults, env, crashes>>

BootDisableReceipt ==
  LET d == Read(dreceipt, dclearing)
  IN /\ pc["boot"] = "b_receipts"
     /\ dreceipt' = d /\ dclearing' = None
     /\ \/ seen' = [seen EXCEPT !.disable = @ \/ d # None]
           /\ Goto("boot", "b_mutation") /\ Unreported /\ UNCHANGED faults
        \/ IO("failed") /\ Finish("boot", "attention") /\ UNCHANGED seen
     /\ UNCHANGED <<config, mreceipt, mclearing, world, open, stopped, mopen, midx,
                    ops, env, crashes, boots>>

BootReceipts ==
  LET m == Read(mreceipt, mclearing)
      mutation == m # None \/ seen.mfence # None
      terminal == /\ seen.mfence # None /\ m # None
                  /\ m.terminal.state = "completed" /\ seen.mfence = TerminalFence(m)
      next == CASE seen.disable /\ mutation -> "attention"
                [] ~mutation -> "orphan"
                [] seen.journal -> "attention"
                [] m = None -> "b_orphan"
                [] OTHER -> IF terminal THEN "b_clear" ELSE "attention"
  IN /\ pc["boot"] = "b_mutation"
     /\ mreceipt' = m /\ mclearing' = None
     /\ \/ /\ seen' = [seen EXCEPT !.receipt = m] /\ UNCHANGED faults
           /\ IF next = "attention" THEN Finish("boot", "attention") ELSE Goto("boot", next) /\ Unreported
        \/ IO("failed") /\ Finish("boot", "attention") /\ UNCHANGED seen
     /\ UNCHANGED <<config, dreceipt, dclearing, world, open, stopped, mopen, midx,
                    ops, env, crashes, boots>>

BootClear ==
  /\ pc["boot"] = "b_clear" /\ Beside /\ Unaffected
  /\ \E left \in {"none", "unsynced", "fence", "clearing", "all"} :
       /\ ClearMutation(seen.mfence, seen.receipt, left)
       /\ IF left = "none" THEN Goto("boot", "orphan") /\ Unreported
                           ELSE Finish("boot", "attention")
  /\ UNCHANGED <<image, mopen, midx, seen>>

(* A begin fence without a receipt is cleared over its before-image only, a      *)
(* terminal one over the image it recorded.                                     *)
BootOrphanMutation ==
  LET m == Read(mreceipt, mclearing)
      orphan == m = None /\ mfence # None /\ image = FenceImage(mfence)
  IN /\ pc["boot"] = "b_orphan" /\ Beside /\ Unaffected
     /\ mreceipt' = m /\ mclearing' = None
     /\ \/ m = None /\ mfence = None /\ Goto("boot", "orphan") /\ Unreported
           /\ UNCHANGED <<mfence, faults>>
        \/ orphan /\ mfence' = None /\ Goto("boot", "orphan") /\ Unreported /\ UNCHANGED faults
        \/ IO("failed") /\ Finish("boot", "attention")
           /\ mfence' \in (IF orphan THEN {mfence, None} ELSE {mfence})
        \/ ~(m = None /\ mfence = None) /\ ~orphan
           /\ Finish("boot", "attention") /\ UNCHANGED <<mfence, faults>>
     /\ UNCHANGED <<image, mopen, midx, seen>>

(* ------------------------------------------------------------------------- *)
MutationCommand ==
  \/ BeginMutation \/ OpenEffect \/ MutationEffect \/ RecordEffect \/ RecordUncertain
  \/ FinishReceipt \/ FinishFence \/ FinishClear \/ MutationAttention
MutationBoot == BootDisableReceipt \/ BootReceipts \/ BootClear \/ BootOrphanMutation
=============================================================================
