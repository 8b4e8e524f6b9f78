---------------------------- MODULE CodexDisable -----------------------------
(* Turning the Codex experiment off: stop Science, stop the Gateway, commit    *)
(* the switch, each behind a durable phase of one receipt; put back what was    *)
(* stopped when a later step fails; and the boot replay of an interrupted       *)
(* operation.  A component is seen relative to the plan of the operation: it is *)
(* the planned instance ("original"), gone, the instance this operation         *)
(* restarted, or something else in its place.                                   *)
EXTENDS ConfigStore

(* What no step of this ledger changes once the operation is admitted.         *)
Apart == UNCHANGED <<journal, mfence, mreceipt, mclearing, backup, mopen, midx, mdone,
                     ops, env, crashes, boots>>
DiskKept   == UNCHANGED <<image, dfence, dreceipt, dclearing>>
WorldKept  == UNCHANGED <<comp, did, owed>>
ThreadKept == UNCHANGED <<outcome, lease>>

(* ------------------------------------------------------------------------- *)
(* Phases of the receipt.                                                      *)
(* ------------------------------------------------------------------------- *)
InverseProgress(phase) ==
  \/ phase.kind \in {"EffectsApplied", "Restoring", "Restored"}
  \/ phase.kind = "Stopping" /\ phase.stopped # {}

(* transition: check the fence and the image, replace the receipt if its bytes *)
(* are still the ones in hand, read it back.                                   *)
Advance(t, phase, then, else) ==
  LET can  == CanAdvance(open[t], phase.kind)
      next == [open[t] EXCEPT !.phase = phase]
  IN \E o \in {"ok", "failed", "uncertain"} :
       /\ IO(o) /\ (can \/ o = "ok")
       /\ dreceipt' = IF can /\ o # "failed" THEN next ELSE dreceipt
       /\ open' = IF can /\ o = "ok" THEN [open EXCEPT ![t] = next] ELSE open
       /\ Goto(t, IF can /\ o = "ok" THEN then ELSE else)
       /\ UNCHANGED <<image, dfence, dclearing, stopped, seen>>
       /\ WorldKept /\ ThreadKept

(* An error before the point of return: a receipt that grants inverse          *)
(* authority is left for the boot to continue, any other becomes attention.    *)
Fail(t) ==
  /\ pc[t] = "fail" /\ Apart
  /\ IF InverseProgress(open[t].phase) THEN Goto(t, "project") ELSE Goto(t, "retain")
  /\ DiskKept /\ WorldKept /\ ThreadKept /\ UNCHANGED <<open, stopped, seen, faults>>

Project(t) ==
  /\ pc[t] = "project" /\ Apart
  /\ Finish(t, "attention")
  /\ DiskKept /\ WorldKept /\ UNCHANGED <<open, stopped, seen, faults>>

Retain(t) == pc[t] = "retain" /\ Apart /\ Advance(t, Phase("Attention", "none", {}), "project", "project")

(* ------------------------------------------------------------------------- *)
(* Admission.                                                                  *)
(* ------------------------------------------------------------------------- *)
(* The plan covers every running component; one that cannot be identified      *)
(* refuses the operation.  With nothing to stop the switch is a plain write.   *)
PlanDisable ==
  LET running == {c \in Components : comp[c] \in {"original", "restored"}}
      r == [op |-> ops + 1, before |-> image, after |-> [image EXCEPT !.codex = FALSE],
            plan |-> running, phase |-> Phase("Intent", "none", {})]
  IN /\ pc["cmd"] = "idle" /\ lease = "none" /\ ops < MaxOps
     /\ NoReceipts /\ NoTransaction
     /\ image.codex /\ running # {} /\ \A c \in Components : comp[c] # "foreign"
     /\ Goto("cmd", "publish") /\ lease' = "cmd"
     /\ open' = [open EXCEPT !["cmd"] = r]
     /\ stopped' = [stopped EXCEPT !["cmd"] = {}]
     /\ comp' = [c \in Components |-> IF c \in running THEN "original" ELSE comp[c]]
     /\ did' = {} /\ owed' = {}
     /\ ops' = ops + 1 /\ outcome' = [outcome EXCEPT !["cmd"] = "none"]
     /\ UNCHANGED <<config, ledgers, backup, mdone, mopen, midx, seen,
                    faults, env, crashes, boots>>

(* begin_codex_disable_operation: the fence first, then the receipt.  A failed *)
(* receipt takes the fence back as well as it can, so an error leaves either,   *)
(* neither or both.                                                            *)
PublishIntent ==
  LET r == open["cmd"]
      admitted == NoReceipts /\ NoTransaction /\ image = r.before
  IN /\ pc["cmd"] = "publish" /\ UNCHANGED <<journal, mfence, backup, mopen, midx, mdone,
                                              ops, env, crashes, boots>>
     /\ Goto("cmd", "reconcile")
     /\ \E fenced, written \in BOOLEAN :
          /\ ~admitted => ~fenced /\ ~written
          /\ IO(IF admitted /\ ~(fenced /\ written) THEN "failed" ELSE "ok")
          /\ dfence' = IF fenced THEN DisableFence(r) ELSE dfence
          /\ dreceipt' = IF written THEN r ELSE Read(dreceipt, dclearing)
     /\ dclearing' = None
     /\ mreceipt' = Read(mreceipt, mclearing) /\ mclearing' = None
     /\ WorldKept /\ ThreadKept /\ UNCHANGED <<image, open, stopped, seen>>

(* The outcome is told from the disk, not from the error.                      *)
NextTarget(r, done) == IF "Science" \in r.plan \ done THEN "Science" ELSE "Gateway"
Reconcile ==
  LET r == open["cmd"]
      receipt == Read(dreceipt, dclearing)
  IN /\ pc["cmd"] = "reconcile" /\ Apart
     /\ dreceipt' = receipt /\ dclearing' = None
     /\ \/ receipt = r /\ dfence = DisableFence(r)
           /\ Goto("cmd", "stopping") /\ ThreadKept
        \/ ~(receipt = r /\ dfence = DisableFence(r)) /\ (receipt # None \/ dfence # None)
           /\ Finish("cmd", "attention")
        \/ receipt = None /\ dfence = None /\ Finish("cmd", "failed")
     /\ WorldKept /\ UNCHANGED <<image, dfence, open, stopped, seen, faults>>

(* ------------------------------------------------------------------------- *)
(* The live operation.                                                         *)
(* ------------------------------------------------------------------------- *)
RestoreOr(other) == IF stopped["cmd"] # {} THEN "restore" ELSE other

Stopping ==
  LET c == NextTarget(open["cmd"], stopped["cmd"])
  IN /\ pc["cmd"] = "stopping" /\ Apart
     /\ Advance("cmd", Phase("Stopping", c, stopped["cmd"]), "lease",
                IF c = "Science" THEN "retain" ELSE RestoreOr("unstarted"))

(* acquire_codex_disable_effect_lease: the exact fence and before-image, read   *)
(* under the writer lock just before the effect.                               *)
EffectLease ==
  LET r == open["cmd"]
      exact == dfence = DisableFence(r) /\ image = r.before
  IN /\ pc["cmd"] = "lease" /\ Apart
     /\ \E o \in {"ok", "failed"} :
          /\ IO(o)
          /\ Goto("cmd", IF exact /\ o = "ok" THEN "effect" ELSE RestoreOr("retain"))
     /\ DiskKept /\ WorldKept /\ ThreadKept /\ UNCHANGED <<open, stopped, seen>>

(* The claimed stop.  The Gateway is stopped through its child handle, which   *)
(* also confirms a child that is already gone; Science must be proved to be     *)
(* the very instance.                                                          *)
Effect ==
  LET c == open["cmd"].phase.target
  IN /\ pc["cmd"] = "effect" /\ Apart
     /\ \/ /\ comp[c] = "original" \/ c = "Gateway"
           /\ comp' = IF comp[c] = "original" THEN [comp EXCEPT ![c] = "absent"] ELSE comp
           /\ did' = did \cup {c}
           /\ owed' = IF comp[c] = "original" THEN owed \cup {c} ELSE owed
           /\ stopped' = [stopped EXCEPT !["cmd"] = @ \cup {c}]
           /\ Goto("cmd", "applied") /\ UNCHANGED faults
        \/ IO("failed") /\ comp[c] = "original"
           /\ comp' = [comp EXCEPT ![c] = "absent"] /\ owed' = owed \cup {c}
           /\ Goto("cmd", "unproved") /\ UNCHANGED <<did, stopped>>
        \/ IO(IF comp[c] = "original" THEN "failed" ELSE "ok")
           /\ (c = "Science" \/ comp[c] = "original")
           /\ Goto("cmd", "unproved") /\ UNCHANGED <<comp, did, owed, stopped>>
     /\ DiskKept /\ ThreadKept /\ UNCHANGED <<open, seen>>

EffectsApplied ==
  /\ pc["cmd"] = "applied" /\ Apart
  /\ Advance("cmd", Phase("EffectsApplied", "none", stopped["cmd"]),
             IF open["cmd"].plan \subseteq stopped["cmd"] THEN "commit" ELSE "stopping",
             "restore")

\* Mutant: what is not recorded is taken to be untouched.
Unrecorded_Assumed(t) == dfence = DisableFence(open[t]) /\ image = open[t].before

(* After a stop that reported an error: only when everything it did not record *)
(* is provably still the original may the operation be undone.                 *)
Unrecorded(t) ==
  LET r == open[t]
  IN /\ dfence = DisableFence(r) /\ image = r.before
     /\ \A c \in r.plan \ stopped[t] : comp[c] = "original"

Unproved ==
  /\ pc["cmd"] \in {"unproved", "unstarted"} /\ Apart
  /\ Goto("cmd", IF Unrecorded("cmd") THEN RestoreOr("clear")
                 ELSE IF pc["cmd"] = "unproved" THEN "fail" ELSE "retain")
  /\ DiskKept /\ WorldKept /\ ThreadKept /\ UNCHANGED <<open, stopped, seen, faults>>

CommitConfig ==
  LET r == open["cmd"]
      exact == dfence = DisableFence(r) /\ image = r.before
  IN /\ pc["cmd"] = "commit" /\ Apart
     /\ \E o \in {"ok", "failed", "uncertain"} :
          /\ IO(o) /\ (exact \/ o = "ok")
          /\ image' = IF exact /\ o # "failed" THEN r.after ELSE image
          /\ Goto("cmd", IF exact /\ o = "ok" THEN "committed" ELSE "restore")
     /\ WorldKept /\ ThreadKept
     /\ UNCHANGED <<dfence, dreceipt, dclearing, open, stopped, seen>>

Committed(t) ==
  /\ pc[t] = "committed" /\ Apart
  /\ Advance(t, Phase("ConfigCommitted", "none", {}), "clear",
             IF t = "cmd" THEN "retain" ELSE "fail")

(* ------------------------------------------------------------------------- *)
(* Terminal cleanup, in two critical sections: the receipt, then the fence.    *)
(* ------------------------------------------------------------------------- *)
ClearReceipt(t) ==
  LET r == open[t]
  IN /\ pc[t] = "clear" /\ Apart
     /\ \/ ~CanClear(r) /\ Goto(t, "fail") /\ UNCHANGED <<dreceipt, dclearing, faults>>
        \/ CanClear(r) /\ dreceipt' = None /\ dclearing' = None
           /\ Goto(t, "unfence") /\ UNCHANGED faults
        \/ CanClear(r) /\ IO("failed") /\ Goto(t, "fail")
           /\ \/ UNCHANGED <<dreceipt, dclearing>>
              \/ dreceipt' = None /\ dclearing' = r
              \/ dreceipt' = None /\ dclearing' = None
     /\ WorldKept /\ ThreadKept /\ UNCHANGED <<image, dfence, open, stopped, seen>>

ClearedResult(t) ==
  IF t = "boot" \/ open[t].phase.kind = "ConfigCommitted" THEN "ok" ELSE "failed"

ClearFence(t) ==
  LET r == open[t]
      receipt == Read(dreceipt, dclearing)
      exact == receipt = None /\ dfence = DisableFence(r) /\ image = DisableImage(r)
  IN /\ pc[t] = "unfence" /\ Apart
     /\ dreceipt' = receipt /\ dclearing' = None
     /\ \E o \in {"ok", "failed", "uncertain"} :
          /\ IO(o) /\ (exact \/ o = "ok")
          /\ dfence' = IF exact /\ o # "failed" THEN None ELSE dfence
          /\ IF exact /\ o = "ok" THEN Finish(t, ClearedResult(t))
                                  ELSE Goto(t, "fail") /\ ThreadKept
     /\ WorldKept /\ UNCHANGED <<image, open, stopped, seen>>

(* ------------------------------------------------------------------------- *)
(* Putting the stopped components back (restore_stopped_codex_components).     *)
(* ------------------------------------------------------------------------- *)
Restorable(c) == comp[c] \in {"absent", "restored"}

RestoreCheck(t) ==
  LET r == open[t]
  IN /\ pc[t] = "restore" /\ Apart
     /\ Goto(t, IF /\ dfence = DisableFence(r) /\ image = r.before
                   /\ \A c \in stopped[t] : Restorable(c)
                THEN "restoring" ELSE "project")
     /\ DiskKept /\ WorldKept /\ ThreadKept /\ UNCHANGED <<open, stopped, seen, faults>>

Restoring(t) ==
  pc[t] = "restoring" /\ Apart
  /\ Advance(t, Phase("Restoring", "none", stopped[t]), "science", "project")

\* Mutant: every component of the plan is started, stopped or not.
Restart_Plan(t, c, here, there) ==
  /\ pc[t] = here /\ Apart
  /\ IF c \in open[t].plan /\ Restorable(c)
     THEN comp' = [comp EXCEPT ![c] = "restored"] /\ owed' = owed \ {c}
     ELSE UNCHANGED <<comp, owed>>
  /\ Goto(t, there)
  /\ DiskKept /\ ThreadKept /\ UNCHANGED <<did, open, stopped, seen, faults>>

(* One restart: adopt or start the component with the launch identity the      *)
(* receipt fixed.  A Gateway already restored is stopped and started again;     *)
(* a restart that reports an error may have started it or not.                 *)
Restart(t, c, here, there) ==
  /\ pc[t] = here /\ Apart
  /\ \/ c \notin stopped[t] /\ Goto(t, there) /\ UNCHANGED <<comp, owed, faults>>
     \/ c \in stopped[t] /\ ~Restorable(c) /\ Goto(t, "project")
        /\ UNCHANGED <<comp, owed, faults>>
     \/ c \in stopped[t] /\ Restorable(c) /\ Goto(t, there)
        /\ comp' = [comp EXCEPT ![c] = "restored"] /\ owed' = owed \ {c}
        /\ UNCHANGED faults
     \/ c \in stopped[t] /\ Restorable(c) /\ IO("failed") /\ Goto(t, "project")
        /\ \/ comp' = [comp EXCEPT ![c] = "restored"] /\ owed' = owed \ {c}
           \/ UNCHANGED <<comp, owed>>
           \/ c = "Gateway" /\ comp' = [comp EXCEPT ![c] = "absent"]
              /\ owed' = owed \cup {c}
  /\ DiskKept /\ ThreadKept /\ UNCHANGED <<did, open, stopped, seen>>

RestoreScience(t) == Restart(t, "Science", "science", "gateway")
RestoreGateway(t) == Restart(t, "Gateway", "gateway", "verify")

(* Science is observed once more before the receipt may say Restored.          *)
Restored(t) ==
  /\ pc[t] = "verify" /\ Apart
  /\ \/ /\ "Science" \in stopped[t] => comp["Science"] = "restored"
        /\ Advance(t, Phase("Restored", "none", stopped[t]), "clear", "project")
     \/ /\ "Science" \in stopped[t] /\ comp["Science"] # "restored"
        /\ Goto(t, "project")
        /\ DiskKept /\ WorldKept /\ ThreadKept /\ UNCHANGED <<open, stopped, seen, faults>>

(* ------------------------------------------------------------------------- *)
(* The boot replay.                                                            *)
(* ------------------------------------------------------------------------- *)
BootOrphanFence ==
  LET receipt == Read(dreceipt, dclearing)
      orphan == receipt = None /\ dfence # None
      exact == orphan /\ image \in {dfence.before, dfence.after}
  IN /\ pc["boot"] = "orphan" /\ Apart
     /\ dreceipt' = receipt /\ dclearing' = None
     /\ \/ ~orphan /\ Goto("boot", "read") /\ UNCHANGED <<dfence, faults>> /\ ThreadKept
        \/ exact /\ dfence' = None /\ Goto("boot", "read") /\ UNCHANGED faults /\ ThreadKept
        \/ IO(IF orphan /\ ~exact THEN "ok" ELSE "failed") /\ Finish("boot", "attention")
           /\ dfence' \in (IF exact THEN {dfence, None} ELSE {dfence})
     /\ WorldKept /\ UNCHANGED <<image, open, stopped, seen>>

BootRead ==
  LET receipt == Read(dreceipt, dclearing)
  IN /\ pc["boot"] = "read" /\ Apart
     /\ dreceipt' = receipt /\ dclearing' = None
     /\ \/ open' = [open EXCEPT !["boot"] = receipt] /\ UNCHANGED faults
           /\ IF receipt = None THEN Finish("boot", "ok") ELSE Goto("boot", "image") /\ ThreadKept
        \/ IO("failed") /\ Finish("boot", "attention") /\ UNCHANGED open
     /\ WorldKept /\ UNCHANGED <<image, dfence, stopped, seen>>

(* A committed image only needs its terminal record; any image but the two is  *)
(* drift, like a configuration that cannot be read; the before-image goes to   *)
(* the replay.                                                                 *)
BootImage ==
  LET r == open["boot"]
  IN /\ pc["boot"] = "image" /\ Apart
     /\ \/ /\ Goto("boot", IF dfence # DisableFence(r) THEN "fail"
                           ELSE IF image = r.after
                             THEN IF r.phase.kind = "ConfigCommitted" THEN "clear" ELSE "committed"
                           ELSE IF image = r.before THEN "replay" ELSE "fail")
           /\ UNCHANGED faults
        \/ IO("failed") /\ Goto("boot", "fail")
     /\ DiskKept /\ WorldKept /\ ThreadKept /\ UNCHANGED <<open, stopped, seen>>

\* Mutant: an interrupted stop is taken not to have happened.
Decision_RecordOnly(phase, plan) ==
  CASE phase.kind \in {"Attention", "ConfigCommitted"} -> "attention"
    [] \E c \in plan : comp[c] = "foreign" -> "attention"
    [] OTHER -> IF phase.stopped = {} THEN "clear" ELSE "restore"

(* decide_codex_disable_before_image_replay.  Stopping is a record made before *)
(* the stop: an absent target does not prove that this operation stopped it.   *)
Decision(phase, plan) ==
  CASE phase.kind \in {"Attention", "ConfigCommitted"} -> "attention"
    [] phase.kind = "Stopping" /\ comp[phase.target] # "original" -> "attention"
    [] \E c \in plan : (c \in phase.stopped) # Restorable(c) -> "attention"
    [] \E c \in plan : comp[c] = "foreign" -> "attention"
    [] OTHER -> IF phase.stopped = {} THEN "clear" ELSE "restore"

(* Under the Destructive lease; a busy authentication supervisor refuses the   *)
(* restore.                                                                    *)
BootReplay ==
  LET r == open["boot"]
      d == Decision(r.phase, r.plan)
  IN /\ pc["boot"] = "replay" /\ Apart
     /\ lease = "none" /\ lease' = "boot" /\ UNCHANGED outcome
     /\ stopped' = [stopped EXCEPT !["boot"] = r.phase.stopped]
     /\ \/ Goto("boot", CASE d = "attention" -> IF r.phase.kind = "Attention" THEN "project" ELSE "fail"
                          [] d = "clear" -> "clear"
                          [] OTHER -> "restore")
           /\ UNCHANGED faults
        \/ d = "restore" /\ IO("failed") /\ Goto("boot", "project")
     /\ DiskKept /\ WorldKept /\ UNCHANGED <<open, seen>>

(* ------------------------------------------------------------------------- *)
DisableCommand ==
  \/ PublishIntent \/ Reconcile \/ Stopping \/ EffectLease \/ Effect \/ EffectsApplied
  \/ Unproved \/ CommitConfig
DisableBoot == BootOrphanFence \/ BootRead \/ BootImage \/ BootReplay
DisableEither(t) ==
  \/ Fail(t) \/ Project(t) \/ Retain(t) \/ Committed(t)
  \/ ClearReceipt(t) \/ ClearFence(t)
  \/ RestoreCheck(t) \/ Restoring(t) \/ RestoreScience(t) \/ RestoreGateway(t) \/ Restored(t)
=============================================================================
