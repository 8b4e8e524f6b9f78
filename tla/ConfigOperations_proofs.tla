----------------------- MODULE ConfigOperations_proofs -----------------------
(* Proofs about ConfigOperations, for any contents of the configuration and any  *)
(* number of operations, faults, outside changes, crashes and boot decisions.    *)
EXTENDS ConfigOperations, SequenceTheorems, TLAPS

-----------------------------------------------------------------------------
(* The inductive invariant.                                                    *)

\* Steps of the disable ledger, by what the thread holds there.
DisableSteps ==
  {"publish", "reconcile", "stopping", "lease", "effect", "applied", "unproved",
   "unstarted", "commit", "committed", "clear", "unfence", "fail", "retain", "project",
   "restore", "restoring", "science", "gateway", "verify", "image", "replay"}
MutationSteps ==
  {"m_begin", "m_open", "m_effect", "m_record", "m_uncertain", "m_before", "m_after",
   "m_complete", "m_fence", "m_clear", "m_end"}
\* The command only writes the before-image here, and the receipt is the one in hand.
Forward  == {"stopping", "lease", "effect", "applied", "unproved", "commit"}
\* Between the announcement and the record of a stop.
Announced == {"lease", "effect", "unproved", "applied"}
\* A restart may happen here.
Backward == {"science", "gateway", "verify"}

\* A receipt of the disable ledger as the plan and the phases make it.
WellFormed(r) ==
  /\ r \in DisableReceipts
  /\ r.before.codex /\ r.after = [r.before EXCEPT !.codex = FALSE]
  /\ r.phase.kind = "Intent" => r.phase.target = "none" /\ r.phase.stopped = {}
  /\ (r.phase.kind = "Stopping") <=> (r.phase.target # "none")

\* A receipt of the mutation ledger: one effect state per effect of the plan.
Shaped(r) == r \in MutationReceipts /\ DOMAIN r.effects = DOMAIN r.plan

OneName ==
  /\ dreceipt = None \/ dclearing = None
  /\ mreceipt = None \/ mclearing = None

Kinds ==
  /\ open \in [Threads -> DisableReceipts \cup {None}]
  /\ DisableRecord = None \/ WellFormed(DisableRecord)
  /\ MutationRecord = None \/ Shaped(MutationRecord)
  /\ dfence # None =>
       dfence.before.codex /\ dfence.after = [dfence.before EXCEPT !.codex = FALSE]
  /\ \A t \in Threads : pc[t] \in DisableSteps => WellFormed(open[t])
  /\ pc["cmd"] \in Announced => open["cmd"].phase.kind = "Stopping"
  /\ pc["cmd"] \in MutationSteps => Shaped(mopen) /\ midx \in DOMAIN mopen.plan

TypeInv == TypeOK /\ OneName /\ Kinds

(* Who holds the lifecycle lease.  The boot decision needs it for everything but  *)
(* the end of an operation that is already committed.                             *)
LeaseInv ==
  /\ pc["cmd"] # "idle" => lease = "cmd"
  /\ pc["boot"] \notin Forward
  /\ pc["boot"] \in Backward \cup {"restore", "restoring"} => lease = "boot"
  /\ pc["boot"] \in {"clear", "unfence"} =>
       lease = "boot" \/ open["boot"].phase.kind = "ConfigCommitted"

Over(t) == dfence = DisableFence(open[t]) /\ image = open[t].before
\* A boot decision that has not asked for the lease found another image than the
\* before-image under the fence of its receipt, and will never find that one.
BootLate ==
  pc["boot"] \in {"committed", "clear", "unfence"} /\ lease # "boot" => ~Over("boot")

(* What is new is unknown: no record and no thread knows an operation that is not  *)
(* published yet.                                                                  *)
Fresh ==
  /\ DisableRecord # None => DisableRecord.op <= ops
  /\ open["boot"] # None => open["boot"].op <= ops
  /\ pc["cmd"] = "publish" =>
       /\ DisableRecord # None => DisableRecord.op < open["cmd"].op
       /\ open["boot"] # None => open["boot"].op < open["cmd"].op
       /\ open["cmd"].op <= ops

(* The truth of a disable record, given what the operation did and owes.           *)
Told(r, D, O) ==
  /\ r.phase.kind \in {"Intent", "Stopping", "EffectsApplied", "Restoring", "Restored"} =>
       r.phase.stopped \subseteq D /\ O \subseteq r.phase.stopped \cup {r.phase.target}
  /\ r.phase.kind = "Restored" => O = {}
RecordTold ==
  /\ DisableRecord # None => Told(DisableRecord, did, owed)
  /\ DisableRecord # None /\ DisableRecord.phase.kind \in {"Intent", "Stopping", "EffectsApplied"} =>
       (dfence # None /\ image = dfence.after => DisableRecord.plan \subseteq did)

Anchored ==
  DisableRecord # None =>
    \/ dfence = DisableFence(DisableRecord)
    \/ DisableRecord.phase.kind \in {"Intent", "Attention"} /\ owed = {}
Orphaned ==
  dfence # None /\ DisableRecord = None /\ image = dfence.before => owed = {}
OwedDown == \A c \in owed : comp[c] \in {"absent", "foreign"}
Imaged ==
  /\ dfence # None => image \in {dfence.before, dfence.after}
  /\ mfence # None =>
       IF mfence.phase = "terminal" THEN image = FenceImage(mfence)
                                    ELSE image \in {mfence.before, mfence.after}

Stood(t) == owed \subseteq stopped[t] /\ stopped[t] \subseteq did
\* A boot decision that cannot read the configuration puts Attention over the record of
\* a running command, but not over one that already grants inverse authority.
Marked ==
  /\ DisableRecord # None /\ DisableRecord.phase.kind = "Attention"
  /\ DisableFence(DisableRecord) = dfence
Marking == pc["boot"] = "retain" => ~InverseProgress(open["boot"].phase)
(* What holds at a step of a thread that goes forward or back under the lease.      *)
Section(t) ==
  /\ pc[t] \in Forward \cup Backward => Over(t)
  /\ pc[t] \in Forward => DisableRecord = open[t] \/ Marked
  /\ pc[t] \in Backward => DisableRecord = open[t]
  /\ pc[t] \in Backward =>
       /\ open[t].phase.kind = "Restoring" /\ open[t].phase.stopped = stopped[t]
       /\ stopped[t] \subseteq did
  /\ pc[t] = "science" => owed \subseteq stopped[t]
  /\ pc[t] = "gateway" => owed \subseteq stopped[t] \ {"Science"}
  /\ pc[t] = "verify" => owed = {}
  /\ pc[t] \in {"restore", "restoring"} /\ (t = "cmd" \/ DisableRecord = open[t]) => Stood(t)
  /\ pc[t] = "clear" /\ open[t].phase.kind # "ConfigCommitted"
       /\ (t = "cmd" \/ DisableRecord = open[t]) => owed = {}

CommandSection ==
  LET r == open["cmd"]
      done == stopped["cmd"]
  IN /\ pc["cmd"] \in {"publish", "reconcile"} =>
          /\ r.phase.kind = "Intent" /\ owed = {} /\ done = {} /\ r.plan # {}
          /\ dfence = DisableFence(r) => image = r.before
     /\ pc["cmd"] \in {"stopping", "unstarted"} => Stood("cmd")
     /\ pc["cmd"] = "stopping" => r.plan \ done # {}
     /\ pc["cmd"] \in {"lease", "effect"} => Stood("cmd") /\ r.phase.stopped = done
     /\ pc["cmd"] \in {"lease", "effect", "unproved"} => r.phase.target \in r.plan \ done
     /\ pc["cmd"] = "unproved" => done \subseteq did /\ owed \subseteq done \cup {r.phase.target}
     /\ pc["cmd"] = "applied" => Stood("cmd")
     /\ pc["cmd"] = "commit" => Stood("cmd") /\ r.plan \subseteq done

(* The mutation ledger.                                                            *)
Truthful(r, M) ==
  /\ \A i \in DOMAIN r.effects :
       /\ r.effects[i] = "Pending" => i \notin M
       /\ r.effects[i] = "Succeeded" => i \in M
  /\ r.terminal.state = "completed" => r.terminal.config = "after" /\ M = DOMAIN r.plan
MRecordTold == MutationRecord # None => Truthful(MutationRecord, mdone)
MAnchored ==
  MutationRecord # None => mfence # None /\ mfence.op = MutationRecord.op
MTerminal ==
  mfence # None /\ mfence.phase = "terminal" =>
    /\ mfence.receipt \in MutationReceipts /\ mfence.config = mfence.receipt.terminal.config
    /\ mfence.receipt.terminal.state = "completed" =>
         mfence.config = "after" /\ mdone = DOMAIN mfence.receipt.plan
MOrphaned ==
  mfence # None /\ MutationRecord = None =>
    IF mfence.phase = "terminal" THEN mfence.receipt.terminal.state = "completed"
                                 ELSE mdone = {} /\ image = mfence.before
MSection ==
  /\ pc["cmd"] \in {"m_open", "m_effect", "m_record", "m_uncertain"} =>
       mfence = BeginFence(mopen) /\ MutationRecord = mopen
  /\ pc["cmd"] = "m_begin" =>
       /\ mdone = {} /\ midx = 1 /\ mopen.terminal = NoTerminal
       /\ \A i \in DOMAIN mopen.effects : mopen.effects[i] = "Pending"
  /\ pc["cmd"] \in {"m_open", "m_effect"} => mdone = 1..(midx - 1)
  /\ pc["cmd"] \in {"m_open", "m_effect", "m_record", "m_uncertain"} => mopen.terminal = NoTerminal
  /\ pc["cmd"] = "m_effect" => mopen.effects[midx] # "Pending"
  /\ pc["cmd"] = "m_record" => mdone = 1..midx /\ mopen.effects[midx] # "Succeeded"
  /\ pc["cmd"] = "m_complete" => mdone = DOMAIN mopen.plan
  /\ pc["cmd"] = "m_clear" => mopen.terminal.state = "completed"
  /\ pc["boot"] = "b_clear" =>
       /\ seen.receipt # None /\ seen.mfence = TerminalFence(seen.receipt)
       /\ seen.receipt.terminal.state = "completed"

MutationInv == MRecordTold /\ MAnchored /\ MTerminal /\ MOrphaned /\ MSection

-----------------------------------------------------------------------------
(* Records and fences.                                                         *)

LEMMA DisableFields ==
  ASSUME NEW r \in DisableReceipts
  PROVE  /\ r.op \in Ops /\ r.before \in Images /\ r.after \in Images
         /\ r.plan \subseteq Components /\ r.phase \in Phases
         /\ r # None /\ r.op # 0
BY BoundsAssumption DEF DisableReceipts, Ops, None

LEMMA PhaseFields ==
  ASSUME NEW p \in Phases
  PROVE  /\ p.kind \in {"Intent", "Stopping", "EffectsApplied", "Restoring", "Restored",
                        "ConfigCommitted", "Attention"}
         /\ p.target \in Targets /\ p.stopped \subseteq Components
BY DEF Phases

LEMMA Phased ==
  ASSUME NEW r \in DisableReceipts, NEW p \in Phases
  PROVE  LET n == [r EXCEPT !.phase = p]
         IN /\ n \in DisableReceipts /\ n.op = r.op /\ n.before = r.before /\ n.after = r.after
            /\ n.plan = r.plan /\ n.phase = p
            /\ DisableFence(n) = DisableFence(r)
BY DEF DisableReceipts, DisableFence

LEMMA Rephased ==
  ASSUME NEW r, WellFormed(r), NEW p \in Phases, p.kind # "Intent",
         (p.kind = "Stopping") <=> (p.target # "none")
  PROVE  WellFormed([r EXCEPT !.phase = p])
<1>1. r \in DisableReceipts
  BY DEF WellFormed
<1>2. QED
  BY <1>1, Phased DEF WellFormed

LEMMA PhaseMade ==
  ASSUME NEW k \in {"Intent", "Stopping", "EffectsApplied", "Restoring", "Restored",
                   "ConfigCommitted", "Attention"},
         NEW c \in Targets, NEW S \in SUBSET Components
  PROVE  /\ Phase(k, c, S) \in Phases /\ Phase(k, c, S).kind = k
         /\ Phase(k, c, S).target = c /\ Phase(k, c, S).stopped = S
BY DEF Phase, Phases

LEMMA FenceFields ==
  ASSUME NEW r \in DisableReceipts
  PROVE  /\ DisableFence(r) # None
         /\ DisableFence(r) \in [op : Ops, before : Images, after : Images]
         /\ DisableFence(r).op = r.op /\ DisableFence(r).before = r.before
         /\ DisableFence(r).after = r.after
<1>1. DisableFence(r).op = r.op
  BY DEF DisableFence
<1>2. DisableFence(r) # None
  BY <1>1, DisableFields DEF None
<1>3. QED
  BY <1>1, <1>2, DisableFields DEF DisableFence

LEMMA SameFence ==
  ASSUME NEW r \in DisableReceipts, NEW q \in DisableReceipts, DisableFence(r) = DisableFence(q)
  PROVE  r.op = q.op /\ r.before = q.before /\ r.after = q.after
<1>1. /\ DisableFence(r).op = r.op /\ DisableFence(r).before = r.before
      /\ DisableFence(r).after = r.after
  BY FenceFields
<1>2. /\ DisableFence(q).op = q.op /\ DisableFence(q).before = q.before
      /\ DisableFence(q).after = q.after
  BY FenceFields
<1>3. QED
  BY <1>1, <1>2

LEMMA TwoImages ==
  ASSUME NEW i \in Images, i.codex, NEW j, j = [i EXCEPT !.codex = FALSE]
  PROVE  j \in Images /\ i # j /\ ~j.codex
<1>1. j \in Images /\ ~j.codex
  BY DEF Images
<1>2. QED
  BY <1>1

LEMMA MutationFields ==
  ASSUME NEW r \in MutationReceipts
  PROVE  /\ r.op \in Ops /\ r.before \in Images /\ r.after \in Images
         /\ r.plan \in UNION {[1..n -> EffectKinds] : n \in 1..3}
         /\ r.effects \in UNION {[1..n -> EffectStates] : n \in 1..3}
         /\ r.terminal \in Terminals /\ r # None /\ r.op # 0
BY BoundsAssumption DEF MutationReceipts, Ops, None

MutationFences ==
  [op : Ops, phase : {"begin", "terminal"}, before : Images, after : Images,
   receipt : MutationReceipts \cup {None}, config : {"before", "after"}]

LEMMA BeginFields ==
  ASSUME NEW r \in MutationReceipts
  PROVE  /\ BeginFence(r) \in MutationFences /\ BeginFence(r) # None
         /\ BeginFence(r).op = r.op /\ BeginFence(r).before = r.before
         /\ BeginFence(r).after = r.after /\ BeginFence(r).phase = "begin"
<1>1. /\ BeginFence(r) \in MutationFences /\ BeginFence(r).op = r.op
      /\ BeginFence(r).before = r.before
      /\ BeginFence(r).after = r.after /\ BeginFence(r).phase = "begin"
  BY MutationFields DEF BeginFence, MutationFences
<1>2. QED
  BY <1>1, MutationFields DEF None

LEMMA TerminalFields ==
  ASSUME NEW r \in MutationReceipts
  PROVE  /\ TerminalFence(r) \in MutationFences /\ TerminalFence(r) # None
         /\ TerminalFence(r).op = r.op /\ TerminalFence(r).before = r.before
         /\ TerminalFence(r).after = r.after /\ TerminalFence(r).phase = "terminal"
         /\ TerminalFence(r).receipt = r /\ TerminalFence(r).config = r.terminal.config
<1>0. r.terminal.config \in {"before", "after"}
  BY MutationFields DEF Terminals
<1> DEFINE b == [op |-> r.op, phase |-> "begin", before |-> r.before, after |-> r.after,
                receipt |-> None, config |-> "before"]
<1>1. TerminalFence(r) = [b EXCEPT !.phase = "terminal", !.receipt = r, !.config = r.terminal.config]
  BY DEF TerminalFence, BeginFence
<1>2. /\ TerminalFence(r) \in MutationFences /\ TerminalFence(r).op = r.op
      /\ TerminalFence(r).before = r.before
      /\ TerminalFence(r).after = r.after /\ TerminalFence(r).phase = "terminal"
      /\ TerminalFence(r).receipt = r /\ TerminalFence(r).config = r.terminal.config
  BY <1>0, <1>1, MutationFields DEF MutationFences
<1>3. QED
  BY <1>2, MutationFields DEF None

LEMMA Withed ==
  ASSUME NEW r, Shaped(r), NEW i \in DOMAIN r.plan, NEW s \in EffectStates
  PROVE  LET n == WithEffect(r, i, s)
         IN /\ Shaped(n) /\ n.op = r.op /\ n.before = r.before /\ n.after = r.after
            /\ n.plan = r.plan /\ n.terminal = r.terminal
            /\ n.effects = [r.effects EXCEPT ![i] = s]
            /\ BeginFence(n) = BeginFence(r)
BY DEF Shaped, WithEffect, MutationReceipts, BeginFence

LEMMA Ended ==
  ASSUME NEW r, Shaped(r), NEW x \in Terminals
  PROVE  LET n == [r EXCEPT !.terminal = x]
         IN /\ Shaped(n) /\ n.op = r.op /\ n.before = r.before /\ n.after = r.after
            /\ n.plan = r.plan /\ n.terminal = x /\ n.effects = r.effects
            /\ BeginFence(n) = BeginFence(r)
BY DEF Shaped, MutationReceipts, BeginFence

LEMMA PlanDomain ==
  ASSUME NEW r, Shaped(r)
  PROVE  /\ \E n \in 1..3 : DOMAIN r.plan = 1..n /\ Len(r.plan) = n
                          /\ r.plan \in [1..n -> EffectKinds] /\ r.effects \in [1..n -> EffectStates]
<1>1. PICK n \in 1..3 : r.plan \in [1..n -> EffectKinds]
  BY MutationFields DEF Shaped
<1>2. DOMAIN r.plan = 1..n /\ Len(r.plan) = n
  BY <1>1
<1>3. PICK m \in 1..3 : r.effects \in [1..m -> EffectStates]
  BY MutationFields DEF Shaped
<1>4. DOMAIN r.effects = 1..n
  BY <1>2 DEF Shaped
<1>5. QED
  BY <1>1, <1>2, <1>3, <1>4

-----------------------------------------------------------------------------
(* Types.                                                                      *)

LEMMA Bounds ==
  ASSUME TypeInv, NEW o, IO(o)
  PROVE  faults' \in 0..MaxFaults
BY BoundsAssumption DEF IO, TypeInv, TypeOK

LEMMA ThreadsAre == Threads = {"cmd", "boot"} /\ "cmd" \in Threads /\ "boot" \in Threads
BY DEF Threads

LEMMA RecordsTyped ==
  ASSUME TypeInv
  PROVE  /\ dreceipt = None \/ WellFormed(dreceipt)
         /\ dclearing = None \/ WellFormed(dclearing)
         /\ mreceipt = None \/ Shaped(mreceipt)
         /\ mclearing = None \/ Shaped(mclearing)
         /\ DisableRecord = None \/ WellFormed(DisableRecord)
         /\ MutationRecord = None \/ Shaped(MutationRecord)
BY DEF TypeInv, OneName, Kinds, DisableRecord, MutationRecord, Read

\* What is enough for any step of the disable ledger.
LEMMA DisableTypes ==
  ASSUME TypeInv, NEW t \in Threads, NEW x \in Steps \ MutationSteps,
         UNCHANGED <<journal, mfence, backup, mopen, midx, mdone, seen, ops, env, crashes, boots>>,
         \/ UNCHANGED <<mreceipt, mclearing>>
         \/ mreceipt' = MutationRecord /\ mclearing' = None,
         image' \in Images,
         dfence' \in {None, dfence} \/ \E r : WellFormed(r) /\ dfence' = DisableFence(r),
         dreceipt' = None \/ WellFormed(dreceipt'), dclearing' = None \/ WellFormed(dclearing'),
         dreceipt' = None \/ dclearing' = None,
         comp' \in [Components -> {"original", "absent", "restored", "foreign"}],
         did' \subseteq Components, owed' \subseteq Components,
         stopped' \in [Threads -> SUBSET Components],
         outcome' \in [Threads -> {"none", "ok", "failed", "attention"}],
         lease' \in Threads \cup {"none"}, faults' \in 0..MaxFaults,
         pc' = [pc EXCEPT ![t] = x],
         open' \in [Threads -> DisableReceipts \cup {None}],
         \A u \in Threads \ {t} : open'[u] = open[u],
         x \in DisableSteps => WellFormed(open'[t]),
         (t = "cmd" /\ x \in Announced) => open'[t].phase.kind = "Stopping"
  PROVE  TypeInv'
<1>1. \A r : WellFormed(r) => r \in DisableReceipts
  BY DEF WellFormed
<1>2. dfence' = None \/ (/\ dfence' \in [op : Ops, before : Images, after : Images]
                         /\ dfence'.before.codex
                         /\ dfence'.after = [dfence'.before EXCEPT !.codex = FALSE])
  <2>1. CASE dfence' \in {None, dfence}
    BY <2>1 DEF TypeInv, TypeOK, Kinds
  <2>2. ASSUME NEW r, WellFormed(r), dfence' = DisableFence(r)
        PROVE  /\ dfence' \in [op : Ops, before : Images, after : Images]
               /\ dfence'.before.codex
               /\ dfence'.after = [dfence'.before EXCEPT !.codex = FALSE]
    BY <2>2, FenceFields DEF WellFormed
  <2>3. QED
    BY <2>1, <2>2
<1>3. TypeOK'
  <2>1. {dreceipt', dclearing', open'["cmd"], open'["boot"]} \subseteq DisableReceipts \cup {None}
    BY <1>1, ThreadsAre
  <2>2. {mreceipt', mclearing', mopen', seen'.receipt} \subseteq MutationReceipts \cup {None}
    BY DEF TypeInv, TypeOK, MutationRecord, Read
  <2>3. pc' \in [Threads -> Steps]
    BY DEF TypeInv, TypeOK
  <2>4. QED
    BY <1>2, <2>1, <2>2, <2>3 DEF TypeInv, TypeOK
<1>4. OneName'
  BY DEF TypeInv, OneName, MutationRecord, Read
<1>5. Kinds'
  <2>1. DisableRecord' = None \/ WellFormed(DisableRecord)'
    BY DEF DisableRecord, Read, WellFormed
  <2>2. MutationRecord' = MutationRecord
    BY DEF TypeInv, OneName, MutationRecord, Read
  <2>3. \A u \in Threads : pc'[u] = IF u = t THEN x ELSE pc[u]
    BY DEF TypeInv, TypeOK
  <2>4. \A u \in Threads : pc'[u] \in DisableSteps => WellFormed(open'[u])
    BY <2>3 DEF TypeInv, Kinds
  <2>5. pc'["cmd"] \in Announced => open'["cmd"].phase.kind = "Stopping"
    BY <2>3, ThreadsAre DEF TypeInv, Kinds, Announced
  <2>6. pc'["cmd"] \in MutationSteps => pc'["cmd"] = pc["cmd"]
    BY <2>3, ThreadsAre
  <2>7. QED
    BY <1>2, <2>1, <2>2, <2>4, <2>5, <2>6 DEF TypeInv, Kinds, Announced, WellFormed, Shaped
<1>6. QED
  BY <1>3, <1>4, <1>5 DEF TypeInv

\* Advance, told by its outcomes.
LEMMA Advancing ==
  ASSUME NEW t, NEW phase, NEW then, NEW else, Advance(t, phase, then, else)
  PROVE  LET next == [open[t] EXCEPT !.phase = phase]
         IN /\ \E o : IO(o)
            /\ UNCHANGED <<image, dfence, dclearing, stopped, seen, comp, did, owed, outcome, lease>>
            /\ \/ /\ CanAdvance(open[t], phase.kind) /\ dreceipt' = next
                  /\ open' = [open EXCEPT ![t] = next] /\ pc' = [pc EXCEPT ![t] = then]
               \/ /\ dreceipt' = dreceipt \/ (CanAdvance(open[t], phase.kind) /\ dreceipt' = next)
                  /\ open' = open /\ pc' = [pc EXCEPT ![t] = else]
BY DEF Advance, WorldKept, ThreadKept, Goto

LEMMA StepOpen ==
  ASSUME TypeInv, NEW t \in Threads, pc[t] \in DisableSteps
  PROVE  WellFormed(open[t]) /\ open[t] \in DisableReceipts
BY DEF TypeInv, Kinds, WellFormed

LEMMA TypeAdvance ==
  ASSUME TypeInv, NEW t \in Threads, pc[t] \in DisableSteps, Apart,
         NEW phase \in Phases, phase.kind # "Intent",
         (phase.kind = "Stopping") <=> (phase.target # "none"),
         NEW then \in Steps \ MutationSteps, NEW else \in Steps \ MutationSteps,
         (t = "cmd" /\ then \in Announced) => phase.kind = "Stopping",
         (t = "cmd" /\ else \in Announced) => open[t].phase.kind = "Stopping",
         Advance(t, phase, then, else)
  PROVE  TypeInv'
<1> DEFINE next == [open[t] EXCEPT !.phase = phase]
<1>1. WellFormed(open[t]) /\ WellFormed(next) /\ next \in DisableReceipts /\ open[t] \in DisableReceipts
  BY StepOpen, Rephased, Phased
<1>2. faults' \in 0..MaxFaults
  BY Advancing, Bounds
<1>3. /\ UNCHANGED <<image, dfence, dclearing, stopped, seen, comp, did, owed, outcome, lease>>
      /\ \/ /\ CanAdvance(open[t], phase.kind) /\ dreceipt' = next
            /\ open' = [open EXCEPT ![t] = next] /\ pc' = [pc EXCEPT ![t] = then]
         \/ /\ dreceipt' = dreceipt \/ (CanAdvance(open[t], phase.kind) /\ dreceipt' = next)
            /\ open' = open /\ pc' = [pc EXCEPT ![t] = else]
  BY Advancing
<1>4. CanAdvance(open[t], phase.kind) => dclearing = None
  BY DEF CanAdvance
<1>5. dreceipt' = None \/ WellFormed(dreceipt')
  BY <1>1, <1>3, RecordsTyped
<1>6. dreceipt' = None \/ dclearing' = None
  BY <1>3, <1>4 DEF TypeInv, OneName
<1>7. open' \in [Threads -> DisableReceipts \cup {None}] /\ \A u \in Threads \ {t} : open'[u] = open[u]
  BY <1>1, <1>3 DEF TypeInv, Kinds
<1>8. dclearing' = None \/ WellFormed(dclearing')
  BY <1>3, RecordsTyped
<1>9. /\ image' \in Images
      /\ comp' \in [Components -> {"original", "absent", "restored", "foreign"}]
      /\ did' \subseteq Components /\ owed' \subseteq Components
      /\ stopped' \in [Threads -> SUBSET Components]
      /\ outcome' \in [Threads -> {"none", "ok", "failed", "attention"}]
      /\ lease' \in Threads \cup {"none"} /\ dfence' \in {None, dfence}
  BY <1>3 DEF TypeInv, TypeOK
<1>10. UNCHANGED <<journal, mfence, backup, mopen, midx, mdone, seen, ops, env, crashes, boots,
                   mreceipt, mclearing>>
  BY <1>3 DEF Apart
<1>11. CASE open' = [open EXCEPT ![t] = next] /\ pc' = [pc EXCEPT ![t] = then]
  <2>1. open'[t] = next /\ next.phase = phase
    BY <1>1, <1>11, Phased DEF TypeInv, Kinds
  <2>2. QED
    BY <1>1, <1>2, <1>5, <1>6, <1>7, <1>8, <1>9, <1>10, <1>11, <2>1, DisableTypes
<1>12. CASE open' = open /\ pc' = [pc EXCEPT ![t] = else]
  BY <1>1, <1>2, <1>5, <1>6, <1>7, <1>8, <1>9, <1>10, <1>12, DisableTypes
<1>13. QED
  BY <1>3, <1>11, <1>12

\* A step that changes neither the files of the disable ledger nor a component.
LEMMA TypeQuiet ==
  ASSUME TypeInv, NEW t \in Threads, NEW x \in Steps \ MutationSteps, Apart, DiskKept, WorldKept,
         pc' = [pc EXCEPT ![t] = x], UNCHANGED <<open, seen>>,
         stopped' \in [Threads -> SUBSET Components],
         outcome' \in [Threads -> {"none", "ok", "failed", "attention"}],
         lease' \in Threads \cup {"none"}, faults' \in 0..MaxFaults,
         x \in DisableSteps => WellFormed(open[t]),
         (t = "cmd" /\ x \in Announced) => open[t].phase.kind = "Stopping"
  PROVE  TypeInv'
<1>1. /\ UNCHANGED <<journal, mfence, backup, mopen, midx, mdone, seen, ops, env, crashes, boots,
                   mreceipt, mclearing>>
      /\ dreceipt' = None \/ WellFormed(dreceipt')
      /\ dclearing' = None \/ WellFormed(dclearing')
      /\ dreceipt' = None \/ dclearing' = None
  BY RecordsTyped DEF Apart, DiskKept, TypeInv, OneName
<1>2. /\ image' \in Images /\ dfence' \in {None, dfence}
      /\ comp' \in [Components -> {"original", "absent", "restored", "foreign"}]
      /\ did' \subseteq Components /\ owed' \subseteq Components
      /\ open' \in [Threads -> DisableReceipts \cup {None}]
      /\ \A u \in Threads \ {t} : open'[u] = open[u]
  BY DEF TypeInv, TypeOK, Kinds, DiskKept, WorldKept
<1>3. QED
  BY <1>1, <1>2, DisableTypes

LEMMA Finished ==
  ASSUME TypeInv, NEW t \in Threads, NEW r \in {"none", "ok", "failed", "attention"}, Finish(t, r)
  PROVE  /\ pc' = [pc EXCEPT ![t] = "idle"]
         /\ outcome' \in [Threads -> {"none", "ok", "failed", "attention"}]
         /\ lease' \in Threads \cup {"none"}
         /\ lease' = IF lease = t THEN "none" ELSE lease
BY DEF Finish, Goto, TypeInv, TypeOK

LEMMA Kept ==
  ASSUME TypeInv
  PROVE  /\ stopped \in [Threads -> SUBSET Components]
         /\ outcome \in [Threads -> {"none", "ok", "failed", "attention"}]
         /\ lease \in Threads \cup {"none"} /\ faults \in 0..MaxFaults
BY DEF TypeInv, TypeOK

LEMMA TypeFail == ASSUME TypeInv, NEW t \in Threads, Fail(t) PROVE TypeInv'
<1>1. \E x \in {"project", "retain"} : pc' = [pc EXCEPT ![t] = x]
  BY DEF Fail, Goto
<1>2. WellFormed(open[t])
  BY StepOpen DEF Fail, DisableSteps
<1>3. QED
  BY <1>1, <1>2, TypeQuiet, Kept
  DEF Fail, ThreadKept, Steps, MutationSteps, Announced

LEMMA TypeProject == ASSUME TypeInv, NEW t \in Threads, Project(t) PROVE TypeInv'
BY Finished, TypeQuiet, Kept
DEF Project, Steps, MutationSteps, DisableSteps, Announced

Plain ==
  {"project", "clear", "fail", "retain", "science", "gateway", "verify", "restore", "restoring",
   "commit", "committed", "stopping", "unstarted"}
LEMMA PlainSteps ==
  Plain \subseteq Steps \ MutationSteps /\ Plain \cap Announced = {} /\ Plain \subseteq DisableSteps
BY DEF Plain, Steps, MutationSteps, Announced, DisableSteps

LEMMA TypeAdvancePlain ==
  ASSUME TypeInv, NEW t \in Threads, pc[t] \in DisableSteps, Apart,
         NEW k \in {"EffectsApplied", "Restoring", "Restored", "ConfigCommitted", "Attention"},
         NEW S \in SUBSET Components, NEW then \in Plain, NEW else \in Plain,
         Advance(t, Phase(k, "none", S), then, else)
  PROVE  TypeInv'
<1> DEFINE p == Phase(k, "none", S)
<1>1. "none" \in Targets
  BY DEF Targets
<1>2. p \in Phases /\ p.kind = k /\ p.target = "none"
  BY <1>1, PhaseMade
<1>3. (p.kind = "Stopping") <=> (p.target # "none")
  BY <1>2
<1>4. p.kind # "Intent"
  BY <1>2
<1>5. Advance(t, p, then, else)
  OBVIOUS
<1> HIDE DEF p
<1>6. QED
  BY <1>2, <1>3, <1>4, <1>5, TypeAdvance, PlainSteps

LEMMA TypeRetain == ASSUME TypeInv, NEW t \in Threads, Retain(t) PROVE TypeInv'
BY TypeAdvancePlain DEF Retain, Plain, DisableSteps

LEMMA TypeCommitted == ASSUME TypeInv, NEW t \in Threads, Committed(t) PROVE TypeInv'
BY TypeAdvancePlain DEF Committed, Plain, DisableSteps

LEMMA TypeRestoring == ASSUME TypeInv, NEW t \in Threads, Restoring(t) PROVE TypeInv'
<1>1. stopped[t] \in SUBSET Components
  BY Kept
<1>2. QED
  BY <1>1, TypeAdvancePlain DEF Restoring, Plain, DisableSteps

LEMMA TypeRestored == ASSUME TypeInv, NEW t \in Threads, Restored(t) PROVE TypeInv'
<1>1. stopped[t] \in SUBSET Components /\ Apart /\ pc[t] = "verify"
  BY Kept DEF Restored
<1>2. CASE Advance(t, Phase("Restored", "none", stopped[t]), "clear", "project")
  BY <1>1, <1>2, TypeAdvancePlain DEF Plain, DisableSteps
<1>3. CASE /\ Goto(t, "project")
           /\ DiskKept /\ WorldKept /\ ThreadKept /\ UNCHANGED <<open, stopped, seen, faults>>
  <2>1. WellFormed(open[t])
    BY <1>1, StepOpen DEF DisableSteps
  <2>2. QED
    BY <1>1, <1>3, <2>1, TypeQuiet, Kept DEF Goto, ThreadKept, Steps, MutationSteps, Announced
<1>4. QED
  BY <1>2, <1>3 DEF Restored

LEMMA TypeRestoreCheck == ASSUME TypeInv, NEW t \in Threads, RestoreCheck(t) PROVE TypeInv'
<1>1. \E x \in {"restoring", "project"} : pc' = [pc EXCEPT ![t] = x]
  BY DEF RestoreCheck, Goto
<1>2. WellFormed(open[t])
  BY StepOpen DEF RestoreCheck, DisableSteps
<1>3. QED
  BY <1>1, <1>2, TypeQuiet, Kept
  DEF RestoreCheck, ThreadKept, Steps, MutationSteps, Announced

LEMMA TypeClearReceipt == ASSUME TypeInv, NEW t \in Threads, ClearReceipt(t) PROVE TypeInv'
<1>1. WellFormed(open[t])
  BY StepOpen DEF ClearReceipt, DisableSteps
<1>2. \E x \in {"fail", "unfence"} : pc' = [pc EXCEPT ![t] = x]
  BY DEF ClearReceipt, Goto
<1>3. faults' \in 0..MaxFaults
  BY Kept, Bounds DEF ClearReceipt
<1>4. /\ dreceipt' = None \/ WellFormed(dreceipt')
      /\ dclearing' = None \/ WellFormed(dclearing')
      /\ dreceipt' = None \/ dclearing' = None
  BY <1>1, RecordsTyped DEF ClearReceipt, TypeInv, OneName
<1>5. /\ UNCHANGED <<journal, mfence, backup, mopen, midx, mdone, seen, ops, env, crashes, boots,
                   mreceipt, mclearing, image, dfence, comp, did, owed, open, stopped, outcome, lease>>
  BY DEF ClearReceipt, Apart, WorldKept, ThreadKept
<1>6. /\ image' \in Images /\ dfence' \in {None, dfence}
      /\ comp' \in [Components -> {"original", "absent", "restored", "foreign"}]
      /\ did' \subseteq Components /\ owed' \subseteq Components
      /\ open' \in [Threads -> DisableReceipts \cup {None}]
      /\ \A u \in Threads \ {t} : open'[u] = open[u]
  BY <1>5 DEF TypeInv, TypeOK, Kinds
<1>7. QED
  BY <1>1, <1>2, <1>3, <1>4, <1>5, <1>6, Kept, DisableTypes DEF Steps, MutationSteps, Announced

LEMMA TypeClearFence == ASSUME TypeInv, NEW t \in Threads, ClearFence(t) PROVE TypeInv'
<1>1. WellFormed(open[t])
  BY StepOpen DEF ClearFence, DisableSteps
<1>2. /\ \E x \in {"fail", "idle"} : pc' = [pc EXCEPT ![t] = x]
      /\ outcome' \in [Threads -> {"none", "ok", "failed", "attention"}]
      /\ lease' \in Threads \cup {"none"}
  BY Finished, Kept DEF ClearFence, Goto, ClearedResult, ThreadKept
<1>3. faults' \in 0..MaxFaults
  BY Bounds DEF ClearFence
<1>4. /\ dreceipt' = None \/ WellFormed(dreceipt')
      /\ dclearing' = None /\ dfence' \in {None, dfence}
  BY RecordsTyped DEF ClearFence, DisableRecord
<1>5. /\ UNCHANGED <<journal, mfence, backup, mopen, midx, mdone, seen, ops, env, crashes, boots,
                   mreceipt, mclearing, image, comp, did, owed, open, stopped>>
  BY DEF ClearFence, Apart, WorldKept
<1>6. /\ image' \in Images
      /\ comp' \in [Components -> {"original", "absent", "restored", "foreign"}]
      /\ did' \subseteq Components /\ owed' \subseteq Components
      /\ open' \in [Threads -> DisableReceipts \cup {None}]
      /\ \A u \in Threads \ {t} : open'[u] = open[u]
  BY <1>5 DEF TypeInv, TypeOK, Kinds
<1>7. QED
  BY <1>1, <1>2, <1>3, <1>4, <1>5, <1>6, Kept, DisableTypes
  DEF Steps, MutationSteps, Announced, DisableSteps

LEMMA TypeRestart ==
  ASSUME TypeInv, NEW t \in Threads, NEW c \in Components,
         NEW here \in Backward, NEW there \in {"gateway", "verify"}, Restart(t, c, here, there)
  PROVE  TypeInv'
<1>1. WellFormed(open[t])
  BY StepOpen DEF Restart, DisableSteps, Backward
<1>2. \E x \in {"project", there} : pc' = [pc EXCEPT ![t] = x]
  BY DEF Restart, Goto
<1>3. faults' \in 0..MaxFaults
  BY Kept, Bounds DEF Restart
<1>4. /\ UNCHANGED <<journal, mfence, backup, mopen, midx, mdone, seen, ops, env, crashes, boots,
                   mreceipt, mclearing, image, dfence, dreceipt, dclearing, did, open, stopped,
                   outcome, lease>>
  BY DEF Restart, Apart, DiskKept, ThreadKept
<1>5. /\ dreceipt' = None \/ WellFormed(dreceipt')
      /\ dclearing' = None \/ WellFormed(dclearing')
      /\ dreceipt' = None \/ dclearing' = None
  BY <1>4, RecordsTyped DEF TypeInv, OneName
<1>6. /\ comp' \in [Components -> {"original", "absent", "restored", "foreign"}]
      /\ owed' \subseteq Components
  BY DEF Restart, TypeInv, TypeOK
<1>7. /\ image' \in Images /\ dfence' \in {None, dfence} /\ did' \subseteq Components
      /\ open' \in [Threads -> DisableReceipts \cup {None}]
      /\ \A u \in Threads \ {t} : open'[u] = open[u]
  BY <1>4 DEF TypeInv, TypeOK, Kinds
<1>8. QED
  BY <1>1, <1>2, <1>3, <1>4, <1>5, <1>6, <1>7, Kept, DisableTypes
  DEF Steps, MutationSteps, Announced

LEMMA TypeEither == ASSUME TypeInv, NEW t \in Threads, DisableEither(t) PROVE TypeInv'
<1>1. ASSUME RestoreScience(t) \/ RestoreGateway(t) PROVE TypeInv'
  BY <1>1, TypeRestart DEF RestoreScience, RestoreGateway, Components, Backward
<1>2. QED
  BY <1>1, TypeFail, TypeProject, TypeRetain, TypeCommitted, TypeClearReceipt, TypeClearFence,
     TypeRestoreCheck, TypeRestoring, TypeRestored DEF DisableEither

LEMMA TypePublish == ASSUME TypeInv, PublishIntent PROVE TypeInv'
<1>1. WellFormed(open["cmd"])
  BY StepOpen, ThreadsAre DEF PublishIntent, DisableSteps
<1>2. pc' = [pc EXCEPT !["cmd"] = "reconcile"]
  BY DEF PublishIntent, Goto
<1>3. faults' \in 0..MaxFaults
  BY Bounds DEF PublishIntent
<1>4. /\ dreceipt' = None \/ WellFormed(dreceipt')
      /\ dclearing' = None
  BY <1>1, RecordsTyped DEF PublishIntent, DisableRecord
<1>5. dfence' \in {None, dfence} \/ \E r : WellFormed(r) /\ dfence' = DisableFence(r)
  BY <1>1 DEF PublishIntent
<1>6. /\ UNCHANGED <<journal, mfence, backup, mopen, midx, mdone, seen, ops, env, crashes, boots,
                   image, comp, did, owed, open, stopped, outcome, lease>>
      /\ mreceipt' = MutationRecord /\ mclearing' = None
  BY DEF PublishIntent, WorldKept, ThreadKept, MutationRecord
<1>7. /\ image' \in Images /\ did' \subseteq Components /\ owed' \subseteq Components
      /\ comp' \in [Components -> {"original", "absent", "restored", "foreign"}]
      /\ open' \in [Threads -> DisableReceipts \cup {None}]
      /\ \A u \in Threads \ {"cmd"} : open'[u] = open[u]
  BY <1>6 DEF TypeInv, TypeOK, Kinds
<1>8. QED
  BY <1>1, <1>2, <1>3, <1>4, <1>5, <1>6, <1>7, Kept, DisableTypes, ThreadsAre
  DEF Steps, MutationSteps, Announced, DisableSteps

LEMMA TypeReconcile == ASSUME TypeInv, Reconcile PROVE TypeInv'
<1>1. WellFormed(open["cmd"])
  BY StepOpen, ThreadsAre DEF Reconcile, DisableSteps
<1>2. /\ \E x \in {"stopping", "idle"} : pc' = [pc EXCEPT !["cmd"] = x]
      /\ outcome' \in [Threads -> {"none", "ok", "failed", "attention"}]
      /\ lease' \in Threads \cup {"none"}
  BY Finished, Kept, ThreadsAre DEF Reconcile, Goto, ThreadKept
<1>3. dreceipt' = DisableRecord /\ dclearing' = None
  BY DEF Reconcile, DisableRecord
<1>4. UNCHANGED <<journal, mfence, backup, mopen, midx, mdone, seen, ops, env, crashes, boots,
                   mreceipt, mclearing, image, dfence, comp, did, owed, open, stopped, faults>>
  BY DEF Reconcile, WorldKept, Apart
<1>5. /\ image' \in Images /\ did' \subseteq Components /\ owed' \subseteq Components
      /\ dfence' \in {None, dfence}
      /\ comp' \in [Components -> {"original", "absent", "restored", "foreign"}]
      /\ open' \in [Threads -> DisableReceipts \cup {None}]
      /\ \A u \in Threads \ {"cmd"} : open'[u] = open[u]
  BY <1>4 DEF TypeInv, TypeOK, Kinds
<1>6. QED
  BY <1>1, <1>2, <1>3, <1>4, <1>5, RecordsTyped, Kept, DisableTypes, ThreadsAre
  DEF Steps, MutationSteps, Announced, DisableSteps

LEMMA RestoreOrPlain ==
  ASSUME NEW x \in Plain
  PROVE  RestoreOr(x) \in Plain
BY DEF RestoreOr, Plain

LEMMA TypeStopping == ASSUME TypeInv, Stopping PROVE TypeInv'
<1> DEFINE c == NextTarget(open["cmd"], stopped["cmd"])
           p == Phase("Stopping", c, stopped["cmd"])
<1>1. c \in {"Science", "Gateway"} /\ c \in Targets
  BY DEF NextTarget, Targets, Components
<1>2. p \in Phases /\ p.kind = "Stopping" /\ p.target = c
  BY <1>1, PhaseMade, Kept, ThreadsAre
<1>3. \E x \in Plain : Advance("cmd", p, "lease", x)
  BY RestoreOrPlain DEF Stopping, Plain
<1>4. pc["cmd"] \in DisableSteps /\ Apart /\ "lease" \in Steps \ MutationSteps
  BY DEF Stopping, DisableSteps, Steps, MutationSteps
<1>5. (p.kind = "Stopping") <=> (p.target # "none")
  BY <1>1, <1>2
<1>6. p.kind # "Intent"
  BY <1>2
<1> HIDE DEF p, c
<1>7. QED
  BY <1>2, <1>3, <1>4, <1>5, <1>6, TypeAdvance, PlainSteps, ThreadsAre

LEMMA TypeEffectsApplied == ASSUME TypeInv, EffectsApplied PROVE TypeInv'
<1>1. stopped["cmd"] \in SUBSET Components
  BY Kept, ThreadsAre
<1>2. QED
  BY <1>1, TypeAdvancePlain, ThreadsAre DEF EffectsApplied, Plain, DisableSteps

LEMMA TypeEffectLease == ASSUME TypeInv, EffectLease PROVE TypeInv'
<1>1. WellFormed(open["cmd"]) /\ open["cmd"].phase.kind = "Stopping"
  BY StepOpen, ThreadsAre DEF EffectLease, DisableSteps, TypeInv, Kinds, Announced
<1>2. \E x \in Plain \cup {"effect"} : pc' = [pc EXCEPT !["cmd"] = x]
  BY RestoreOrPlain DEF EffectLease, Goto, Plain
<1>3. faults' \in 0..MaxFaults
  BY Bounds DEF EffectLease
<1>4. Plain \cup {"effect"} \subseteq Steps \ MutationSteps
  BY PlainSteps DEF Steps, MutationSteps
<1>5. QED
  BY <1>1, <1>2, <1>3, <1>4, TypeQuiet, Kept, ThreadsAre DEF EffectLease, ThreadKept

LEMMA TypeEffect == ASSUME TypeInv, Effect PROVE TypeInv'
<1> DEFINE c == open["cmd"].phase.target
<1>1. WellFormed(open["cmd"]) /\ open["cmd"].phase.kind = "Stopping"
  BY StepOpen, ThreadsAre DEF Effect, DisableSteps, TypeInv, Kinds, Announced
<1>2. c \in Components
  BY <1>1, DisableFields, PhaseFields DEF WellFormed, Targets
<1>3. \E x \in {"applied", "unproved"} : pc' = [pc EXCEPT !["cmd"] = x]
  BY DEF Effect, Goto
<1>4. faults' \in 0..MaxFaults
  BY Bounds, Kept DEF Effect
<1>5. /\ UNCHANGED <<journal, mfence, backup, mopen, midx, mdone, seen, ops, env, crashes, boots,
                   mreceipt, mclearing, image, dfence, dreceipt, dclearing, open, outcome, lease>>
  BY DEF Effect, Apart, DiskKept, ThreadKept
<1>6. /\ comp' \in [Components -> {"original", "absent", "restored", "foreign"}]
      /\ did' \subseteq Components /\ owed' \subseteq Components
      /\ stopped' \in [Threads -> SUBSET Components]
  BY <1>2 DEF Effect, TypeInv, TypeOK
<1>7. /\ image' \in Images /\ dfence' \in {None, dfence}
      /\ dreceipt' = None \/ WellFormed(dreceipt')
      /\ dclearing' = None \/ WellFormed(dclearing')
      /\ dreceipt' = None \/ dclearing' = None
      /\ open' \in [Threads -> DisableReceipts \cup {None}]
      /\ \A u \in Threads \ {"cmd"} : open'[u] = open[u]
  BY <1>5, RecordsTyped DEF TypeInv, TypeOK, Kinds, OneName
<1>8. QED
  BY <1>1, <1>3, <1>4, <1>5, <1>6, <1>7, Kept, DisableTypes, ThreadsAre
  DEF Steps, MutationSteps, Announced

LEMMA TypeUnproved == ASSUME TypeInv, Unproved PROVE TypeInv'
<1>1. WellFormed(open["cmd"])
  BY StepOpen, ThreadsAre DEF Unproved, DisableSteps
<1>2. \E x \in Plain : pc' = [pc EXCEPT !["cmd"] = x]
  BY RestoreOrPlain DEF Unproved, Goto, Plain
<1>3. QED
  BY <1>1, <1>2, TypeQuiet, Kept, ThreadsAre, PlainSteps DEF Unproved, ThreadKept

LEMMA TypeCommitConfig == ASSUME TypeInv, CommitConfig PROVE TypeInv'
<1>1. WellFormed(open["cmd"])
  BY StepOpen, ThreadsAre DEF CommitConfig, DisableSteps
<1>2. \E x \in {"committed", "restore"} : pc' = [pc EXCEPT !["cmd"] = x]
  BY DEF CommitConfig, Goto
<1>3. faults' \in 0..MaxFaults
  BY Bounds DEF CommitConfig
<1>4. image' \in Images
  BY <1>1, DisableFields DEF CommitConfig, WellFormed, TypeInv, TypeOK
<1>5. UNCHANGED <<journal, mfence, backup, mopen, midx, mdone, seen, ops, env, crashes, boots, mreceipt,
        mclearing, dfence, dreceipt, dclearing, comp, did, owed, open, stopped, outcome, lease>>
  BY DEF CommitConfig, Apart, WorldKept, ThreadKept
<1>6. /\ dreceipt' = None \/ WellFormed(dreceipt')
      /\ dclearing' = None \/ WellFormed(dclearing')
      /\ dreceipt' = None \/ dclearing' = None
      /\ did' \subseteq Components /\ owed' \subseteq Components
      /\ dfence' \in {None, dfence}
      /\ comp' \in [Components -> {"original", "absent", "restored", "foreign"}]
      /\ open' \in [Threads -> DisableReceipts \cup {None}]
      /\ \A u \in Threads \ {"cmd"} : open'[u] = open[u]
  BY <1>5, RecordsTyped DEF TypeInv, TypeOK, Kinds, OneName
<1>7. QED
  BY <1>1, <1>2, <1>3, <1>4, <1>5, <1>6, Kept, DisableTypes, ThreadsAre
  DEF Steps, MutationSteps, Announced

LEMMA TypeCommand == ASSUME TypeInv, DisableCommand PROVE TypeInv'
BY TypePublish, TypeReconcile, TypeStopping, TypeEffectLease, TypeEffect, TypeEffectsApplied,
   TypeUnproved, TypeCommitConfig DEF DisableCommand

\* What the steps of the boot replay share.
LEMMA BootTypes ==
  ASSUME TypeInv, Apart, WorldKept, UNCHANGED <<image, stopped, seen>>,
         NEW x \in Steps \ MutationSteps, pc' = [pc EXCEPT !["boot"] = x],
         dfence' \in {None, dfence},
         \/ UNCHANGED <<dreceipt, dclearing>>
         \/ dreceipt' = DisableRecord /\ dclearing' = None,
         outcome' \in [Threads -> {"none", "ok", "failed", "attention"}],
         lease' \in Threads \cup {"none"}, faults' \in 0..MaxFaults,
         \/ open' = open
         \/ open' = [open EXCEPT !["boot"] = DisableRecord],
         x \in DisableSteps => WellFormed(open'["boot"])
  PROVE  TypeInv'
<1>1. UNCHANGED <<journal, mfence, backup, mopen, midx, mdone, seen, ops, env, crashes, boots, mreceipt,
        mclearing, comp, did, owed, stopped>>
  BY DEF Apart, WorldKept
<1>2. /\ dreceipt' = None \/ WellFormed(dreceipt')
      /\ dclearing' = None \/ WellFormed(dclearing')
      /\ dreceipt' = None \/ dclearing' = None
  BY RecordsTyped DEF TypeInv, OneName
<1>3. /\ image' \in Images /\ did' \subseteq Components /\ owed' \subseteq Components
      /\ comp' \in [Components -> {"original", "absent", "restored", "foreign"}]
      /\ stopped' \in [Threads -> SUBSET Components]
  BY <1>1 DEF TypeInv, TypeOK
<1>4. /\ open' \in [Threads -> DisableReceipts \cup {None}]
      /\ \A u \in Threads \ {"boot"} : open'[u] = open[u]
  BY RecordsTyped DEF TypeInv, Kinds, WellFormed
<1>5. QED
  BY <1>1, <1>2, <1>3, <1>4, DisableTypes, ThreadsAre

LEMMA TypeBootOrphanFence == ASSUME TypeInv, BootOrphanFence PROVE TypeInv'
<1>1. /\ \E x \in {"read", "idle"} : pc' = [pc EXCEPT !["boot"] = x]
      /\ outcome' \in [Threads -> {"none", "ok", "failed", "attention"}]
      /\ lease' \in Threads \cup {"none"}
  BY Finished, Kept, ThreadsAre DEF BootOrphanFence, Goto, ThreadKept
<1>2. faults' \in 0..MaxFaults
  BY Bounds, Kept DEF BootOrphanFence
<1>3. QED
  BY <1>1, <1>2, BootTypes DEF BootOrphanFence, DisableRecord, Steps, MutationSteps, DisableSteps

LEMMA TypeBootRead == ASSUME TypeInv, BootRead PROVE TypeInv'
<1>1. /\ \E x \in {"image", "idle"} : pc' = [pc EXCEPT !["boot"] = x] /\ (x = "image" => DisableRecord # None)
      /\ outcome' \in [Threads -> {"none", "ok", "failed", "attention"}]
      /\ lease' \in Threads \cup {"none"}
  BY Finished, Kept, ThreadsAre DEF BootRead, Goto, ThreadKept, DisableRecord
<1>2. faults' \in 0..MaxFaults
  BY Bounds, Kept DEF BootRead
<1>3. CASE open' = [open EXCEPT !["boot"] = DisableRecord] /\ (pc' = [pc EXCEPT !["boot"] = "image"] => DisableRecord # None)
  <2>1. open'["boot"] = DisableRecord
    BY <1>3, ThreadsAre DEF TypeInv, Kinds
  <2>2. QED
    BY <1>1, <1>2, <1>3, <2>1, RecordsTyped, Kept, BootTypes
    DEF BootRead, DisableRecord, Steps, MutationSteps, DisableSteps
<1>4. CASE UNCHANGED open /\ pc' = [pc EXCEPT !["boot"] = "idle"]
  BY <1>1, <1>2, <1>4, RecordsTyped, Kept, BootTypes
  DEF BootRead, DisableRecord, Steps, MutationSteps, DisableSteps
<1>5. "image" # "idle"
  OBVIOUS
<1>6. DisableRecord = None => ~(pc' = [pc EXCEPT !["boot"] = "image"] /\ open' = [open EXCEPT !["boot"] = DisableRecord])
  <2>1. pc' = [pc EXCEPT !["boot"] = "image"] => pc'["boot"] = "image"
    BY ThreadsAre DEF TypeInv, TypeOK
  <2>2. pc' = [pc EXCEPT !["boot"] = "idle"] => pc'["boot"] = "idle"
    BY ThreadsAre DEF TypeInv, TypeOK
  <2>3. DisableRecord = None => pc' = [pc EXCEPT !["boot"] = "idle"]
    BY DEF BootRead, DisableRecord, Finish, Goto
  <2>4. QED
    BY <1>5, <2>1, <2>2, <2>3
<1>7. QED
  BY <1>3, <1>4, <1>6 DEF BootRead, DisableRecord, Finish, Goto

LEMMA TypeBootImage == ASSUME TypeInv, BootImage PROVE TypeInv'
<1>1. WellFormed(open["boot"])
  BY StepOpen, ThreadsAre DEF BootImage, DisableSteps
<1>2. \E x \in {"fail", "clear", "committed", "replay"} : pc' = [pc EXCEPT !["boot"] = x]
  BY DEF BootImage, Goto
<1>3. faults' \in 0..MaxFaults
  BY Bounds, Kept DEF BootImage
<1>4. QED
  BY <1>1, <1>2, <1>3, TypeQuiet, Kept, ThreadsAre
  DEF BootImage, ThreadKept, Steps, MutationSteps, Announced

LEMMA TypeBootReplay == ASSUME TypeInv, BootReplay PROVE TypeInv'
<1>1. WellFormed(open["boot"]) /\ open["boot"].phase.stopped \in SUBSET Components
  BY StepOpen, ThreadsAre, DisableFields, PhaseFields DEF BootReplay, DisableSteps
<1>2. \E x \in {"project", "fail", "clear", "restore"} : pc' = [pc EXCEPT !["boot"] = x]
  BY DEF BootReplay, Goto
<1>3. faults' \in 0..MaxFaults
  BY Bounds, Kept DEF BootReplay
<1>4. /\ stopped' \in [Threads -> SUBSET Components] /\ lease' \in Threads \cup {"none"}
      /\ outcome' \in [Threads -> {"none", "ok", "failed", "attention"}]
  BY <1>1, Kept, ThreadsAre DEF BootReplay
<1>5. QED
  BY <1>1, <1>2, <1>3, <1>4, TypeQuiet, ThreadsAre DEF BootReplay, Steps, MutationSteps, Announced

LEMMA TypeBoot == ASSUME TypeInv, DisableBoot PROVE TypeInv'
BY TypeBootOrphanFence, TypeBootRead, TypeBootImage, TypeBootReplay DEF DisableBoot

LEMMA TypePlanDisable == ASSUME TypeInv, PlanDisable PROVE TypeInv'
<1> DEFINE running == {c \in Components : comp[c] \in {"original", "restored"}}
           r == [op |-> ops + 1, before |-> image, after |-> [image EXCEPT !.codex = FALSE],
                 plan |-> running, phase |-> Phase("Intent", "none", {})]
<1>1. /\ ops + 1 \in Ops /\ ops' \in 0..MaxOps /\ image \in Images /\ image.codex
      /\ [image EXCEPT !.codex = FALSE] \in Images
  BY BoundsAssumption, TwoImages DEF PlanDisable, Ops, TypeInv, TypeOK
<1>2. /\ Phase("Intent", "none", {}) \in Phases /\ Phase("Intent", "none", {}).kind = "Intent"
      /\ Phase("Intent", "none", {}).target = "none" /\ Phase("Intent", "none", {}).stopped = {}
  BY PhaseMade DEF Targets
<1>3. WellFormed(r)
  <2>1. r \in DisableReceipts
    BY <1>1, <1>2 DEF DisableReceipts
  <2>2. QED
    BY <1>1, <1>2, <2>1 DEF WellFormed
<1>4. /\ open' = [open EXCEPT !["cmd"] = r] /\ pc' = [pc EXCEPT !["cmd"] = "publish"]
  BY DEF PlanDisable, Goto
<1> HIDE DEF r
<1>5. /\ UNCHANGED <<image, journal, dfence, mfence, dreceipt, dclearing, mreceipt, mclearing, backup,
                     mdone, mopen, midx, seen, faults, env, crashes, boots>>
      /\ did' = {} /\ owed' = {} /\ lease' = "cmd"
  BY DEF PlanDisable, config, ledgers
<1>6. open' \in [Threads -> DisableReceipts \cup {None}] /\ open'["cmd"] = r /\ open'["boot"] = open["boot"]
  BY <1>3, <1>4, ThreadsAre DEF TypeInv, Kinds, WellFormed
<1>7. pc' \in [Threads -> Steps] /\ pc'["cmd"] = "publish" /\ pc'["boot"] = pc["boot"]
  BY <1>4, ThreadsAre DEF TypeInv, TypeOK, Steps
<1>8. /\ stopped' \in [Threads -> SUBSET Components]
      /\ outcome' \in [Threads -> {"none", "ok", "failed", "attention"}]
      /\ comp' \in [Components -> {"original", "absent", "restored", "foreign"}]
  BY Kept, ThreadsAre DEF PlanDisable, TypeInv, TypeOK
<1>9. TypeOK'
  BY <1>1, <1>3, <1>5, <1>6, <1>7, <1>8, ThreadsAre DEF TypeInv, TypeOK, WellFormed
<1>10. OneName'
  BY <1>5 DEF TypeInv, OneName
<1>11. Kinds'
  <2>1. \A t \in Threads : pc'[t] \in DisableSteps => WellFormed(open'[t])
    BY <1>3, <1>6, <1>7, ThreadsAre DEF TypeInv, Kinds
  <2>2. pc'["cmd"] \notin Announced /\ pc'["cmd"] \notin MutationSteps
    BY <1>7 DEF Announced, MutationSteps
  <2>3. DisableRecord' = DisableRecord /\ MutationRecord' = MutationRecord
    BY <1>5 DEF DisableRecord, MutationRecord
  <2>4. QED
    BY <1>5, <1>6, <2>1, <2>2, <2>3 DEF TypeInv, Kinds, WellFormed, Shaped
<1>12. QED
  BY <1>9, <1>10, <1>11 DEF TypeInv

\* What is enough for any step of the mutation ledger.
LEMMA MutationTypes ==
  ASSUME TypeInv, NEW t \in Threads, NEW x \in Steps,
         UNCHANGED <<journal, dfence, did, owed, open, stopped, ops, env, crashes, boots>>,
         \/ UNCHANGED <<dreceipt, dclearing>>
         \/ dreceipt' = DisableRecord /\ dclearing' = None,
         image' \in Images, backup' \in BOOLEAN,
         comp' \in [Components -> {"original", "absent", "restored", "foreign"}],
         mdone' \subseteq 1..3, midx' \in 1..3,
         mfence' = None \/ mfence' \in MutationFences,
         mreceipt' = None \/ Shaped(mreceipt'), mclearing' = None \/ Shaped(mclearing'),
         mreceipt' = None \/ mclearing' = None,
         mopen' = None \/ Shaped(mopen'),
         seen'.receipt \in MutationReceipts \cup {None},
         outcome' \in [Threads -> {"none", "ok", "failed", "attention"}],
         lease' \in Threads \cup {"none"}, faults' \in 0..MaxFaults,
         pc' = [pc EXCEPT ![t] = x],
         x \in DisableSteps => WellFormed(open[t]),
         t = "cmd" => x \notin Announced,
         pc'["cmd"] \in MutationSteps => Shaped(mopen') /\ midx' \in DOMAIN mopen'.plan
  PROVE  TypeInv'
<1>1. TypeOK'
  <2>1. {dreceipt', dclearing', open'["cmd"], open'["boot"]} \subseteq DisableReceipts \cup {None}
    BY DEF TypeInv, TypeOK, DisableRecord, Read
  <2>2. {mreceipt', mclearing', mopen', seen'.receipt} \subseteq MutationReceipts \cup {None}
    BY DEF Shaped
  <2>3. pc' \in [Threads -> Steps] /\ stopped' \in [Threads -> SUBSET Components]
    BY DEF TypeInv, TypeOK
  <2>4. /\ journal' \in BOOLEAN
        /\ dfence' = None \/ dfence' \in [op : Ops, before : Images, after : Images]
        /\ did' \subseteq Components /\ owed' \subseteq Components
        /\ ops' \in 0..MaxOps /\ env' \in 0..MaxEnv
        /\ crashes' \in 0..MaxCrashes /\ boots' \in 0..MaxBoots
    BY DEF TypeInv, TypeOK
  <2>5. QED
    BY <2>1, <2>2, <2>3, <2>4 DEF TypeOK, MutationFences
<1>2. OneName'
  BY DEF TypeInv, OneName, DisableRecord, Read
<1>3. Kinds'
  <2>1. MutationRecord' = None \/ Shaped(MutationRecord)'
    BY DEF MutationRecord, Read, Shaped
  <2>2. DisableRecord' = DisableRecord
    BY DEF TypeInv, OneName, DisableRecord, Read
  <2>3. \A u \in Threads : pc'[u] = IF u = t THEN x ELSE pc[u]
    BY DEF TypeInv, TypeOK
  <2>4. \A u \in Threads : pc'[u] \in DisableSteps => WellFormed(open'[u])
    BY <2>3 DEF TypeInv, Kinds
  <2>5. pc'["cmd"] \in Announced => open'["cmd"].phase.kind = "Stopping"
    BY <2>3, ThreadsAre DEF TypeInv, Kinds
  <2>6. QED
    BY <2>1, <2>2, <2>4, <2>5 DEF TypeInv, Kinds, WellFormed, Shaped
<1>4. QED
  BY <1>1, <1>2, <1>3 DEF TypeInv

LEMMA MOpen ==
  ASSUME TypeInv, pc["cmd"] \in MutationSteps
  PROVE  Shaped(mopen) /\ mopen \in MutationReceipts /\ midx \in DOMAIN mopen.plan
BY DEF TypeInv, Kinds, Shaped

LEMMA MKept ==
  ASSUME TypeInv
  PROVE  /\ image \in Images /\ backup \in BOOLEAN /\ mdone \subseteq 1..3 /\ midx \in 1..3
         /\ comp \in [Components -> {"original", "absent", "restored", "foreign"}]
         /\ mfence = None \/ mfence \in MutationFences
         /\ mreceipt = None \/ mclearing = None
         /\ seen.receipt \in MutationReceipts \cup {None}
BY DEF TypeInv, TypeOK, OneName, MutationFences

\* Checkpoint, told by its outcomes.
LEMMA Checking ==
  ASSUME NEW next, NEW then, NEW else, Checkpoint(next, then, else)
  PROVE  /\ \E o : IO(o)
         /\ UNCHANGED <<image, mfence, mclearing, seen>>
         /\ \/ /\ CanCheckpoint(mopen) /\ mreceipt' = next /\ mopen' = next
               /\ pc' = [pc EXCEPT !["cmd"] = then]
            \/ /\ mreceipt' = mreceipt \/ (CanCheckpoint(mopen) /\ mreceipt' = next)
               /\ mopen' = mopen /\ pc' = [pc EXCEPT !["cmd"] = else]
BY DEF Checkpoint, Goto

MPlain == {"m_open", "m_effect", "m_record", "m_uncertain", "m_before", "m_after", "m_complete",
           "m_fence", "m_clear", "m_end"}
LEMMA MPlainSteps ==
  MPlain \subseteq Steps /\ MPlain \subseteq MutationSteps /\ MPlain \cap (DisableSteps \cup Announced) = {}
BY DEF MPlain, Steps, MutationSteps, DisableSteps, Announced

LEMMA TypeCheckpoint ==
  ASSUME TypeInv, pc["cmd"] \in MutationSteps, Beside, Unaffected, Unreported,
         NEW next, Shaped(next), next.plan = mopen.plan,
         NEW then \in MPlain, NEW else \in MPlain, Checkpoint(next, then, else),
         midx' \in DOMAIN mopen.plan
  PROVE  TypeInv'
<1>1. Shaped(mopen)
  BY MOpen
<1>2. /\ UNCHANGED <<image, mfence, mclearing, seen>>
      /\ \/ /\ CanCheckpoint(mopen) /\ mreceipt' = next /\ mopen' = next
            /\ pc' = [pc EXCEPT !["cmd"] = then]
         \/ /\ mreceipt' = mreceipt \/ (CanCheckpoint(mopen) /\ mreceipt' = next)
            /\ mopen' = mopen /\ pc' = [pc EXCEPT !["cmd"] = else]
      /\ faults' \in 0..MaxFaults
  BY Checking, Bounds
<1>3. CanCheckpoint(mopen) => mclearing = None
  BY DEF CanCheckpoint
<1>4. /\ mreceipt' = None \/ Shaped(mreceipt')
      /\ mclearing' = None \/ Shaped(mclearing')
      /\ mreceipt' = None \/ mclearing' = None
  BY <1>2, <1>3, MKept, RecordsTyped
<1>5. Shaped(mopen') /\ mopen'.plan = mopen.plan /\ midx' \in 1..3
  BY <1>1, <1>2, PlanDomain
<1>6. UNCHANGED <<journal, dfence, did, owed, open, stopped, ops, env, crashes, boots,
                  dreceipt, dclearing, comp, backup, mdone, outcome, lease>>
  BY DEF Beside, Unaffected, Unreported
<1>7. \E x \in MPlain : pc' = [pc EXCEPT !["cmd"] = x]
  BY <1>2
<1>8. mreceipt' = None \/ Shaped(mreceipt')
  BY <1>2, RecordsTyped
<1>9. mclearing' = None \/ Shaped(mclearing')
  BY <1>2, RecordsTyped
<1>10. mreceipt' = None \/ mclearing' = None
  BY <1>2, <1>3, MKept
<1>11. PICK x \in MPlain : pc' = [pc EXCEPT !["cmd"] = x]
  BY <1>7
<1>12. x \in Steps /\ x \notin DisableSteps /\ x \notin Announced
  BY MPlainSteps
<1>13. /\ image' \in Images /\ backup' \in BOOLEAN /\ mdone' \subseteq 1..3
       /\ comp' \in [Components -> {"original", "absent", "restored", "foreign"}]
       /\ mfence' = None \/ mfence' \in MutationFences
       /\ seen'.receipt \in MutationReceipts \cup {None}
       /\ outcome' \in [Threads -> {"none", "ok", "failed", "attention"}]
       /\ lease' \in Threads \cup {"none"}
  BY <1>2, <1>6, MKept, Kept
<1>14. QED
  BY <1>2, <1>5, <1>6, <1>8, <1>9, <1>10, <1>11, <1>12, <1>13, MutationTypes, ThreadsAre

LEMMA AttentionPlain == ASSUME NEW r, NEW i PROVE AttentionAt(r, i) \in {"m_before", "m_after"}
BY DEF AttentionAt

LEMMA FirstIn ==
  ASSUME NEW n \in 1..3, NEW S \in SUBSET (1..n), S # {}
  PROVE  First(S) \in S
<1>0. \A j \in S : j \in {1, 2, 3}
  OBVIOUS
<1>1. \E i \in S : \A j \in S : i <= j
  <2>1. CASE 1 \in S
    BY <1>0, <2>1
  <2>2. CASE 1 \notin S /\ 2 \in S
    BY <1>0, <2>2
  <2>3. CASE 1 \notin S /\ 2 \notin S
    <3>1. \A j \in S : j = 3
      BY <1>0, <2>3
    <3>2. 3 \in S
      BY <3>1
    <3>3. QED
      BY <3>1, <3>2
  <2>4. QED
    BY <2>1, <2>2, <2>3
<1>2. QED
  BY <1>1 DEF First

LEMMA TypeOpenEffect == ASSUME TypeInv, OpenEffect PROVE TypeInv'
<1> DEFINE todo == ToOpen(mopen, midx)
           i == First(todo)
<1>1. pc["cmd"] = "m_open" /\ Beside /\ Unaffected /\ Unreported /\ midx' = midx /\ Shaped(mopen)
      /\ midx \in DOMAIN mopen.plan
  BY MOpen DEF OpenEffect, MutationSteps
<1>2. CASE Goto("cmd", "m_effect") /\ UNCHANGED <<image, mfence, mreceipt, mclearing, mopen, midx, seen, faults>>
  <2>1. UNCHANGED <<journal, dfence, did, owed, open, stopped, ops, env, crashes, boots,
                  dreceipt, dclearing, comp, backup, mdone, outcome, lease>>
    BY <1>1 DEF Beside, Unaffected, Unreported
  <2>2. /\ pc' = [pc EXCEPT !["cmd"] = "m_effect"] /\ "m_effect" \in Steps
        /\ "m_effect" \notin DisableSteps /\ "m_effect" \notin Announced
    BY <1>2 DEF Goto, Steps, DisableSteps, Announced
  <2>3. Shaped(mopen') /\ midx' \in DOMAIN mopen'.plan
    BY <1>1, <1>2
  <2>4. /\ mreceipt' = None \/ Shaped(mreceipt')
        /\ mclearing' = None \/ Shaped(mclearing')
        /\ mreceipt' = None \/ mclearing' = None
    BY <1>2, MKept, RecordsTyped
  <2>5. /\ image' \in Images /\ backup' \in BOOLEAN /\ mdone' \subseteq 1..3 /\ midx' \in 1..3
        /\ comp' \in [Components -> {"original", "absent", "restored", "foreign"}]
        /\ mfence' = None \/ mfence' \in MutationFences
        /\ seen'.receipt \in MutationReceipts \cup {None}
        /\ outcome' \in [Threads -> {"none", "ok", "failed", "attention"}]
        /\ lease' \in Threads \cup {"none"} /\ faults' \in 0..MaxFaults
    BY <1>2, <2>1, MKept, Kept
  <2>6. QED
    BY <2>1, <2>2, <2>3, <2>4, <2>5, MutationTypes, ThreadsAre
<1>3. CASE todo # {} /\ Checkpoint(WithEffect(mopen, i, "InProgress"), "m_open", AttentionAt(mopen, midx))
  <2>1. i \in DOMAIN mopen.plan
    BY <1>1, <1>3, PlanDomain, FirstIn DEF ToOpen
  <2>2. Shaped(WithEffect(mopen, i, "InProgress")) /\ WithEffect(mopen, i, "InProgress").plan = mopen.plan
    BY <1>1, <2>1, Withed DEF EffectStates
  <2>3. AttentionAt(mopen, midx) \in MPlain /\ "m_open" \in MPlain /\ pc["cmd"] \in MutationSteps
    BY <1>1, AttentionPlain DEF MPlain, MutationSteps
  <2> HIDE DEF i, todo
  <2>4. QED
    BY <1>1, <1>3, <2>2, <2>3, TypeCheckpoint
<1>4. QED
  BY <1>2, <1>3 DEF OpenEffect

LEMMA TypeRecordEffect == ASSUME TypeInv, RecordEffect PROVE TypeInv'
<1>1. Shaped(mopen) /\ midx \in DOMAIN mopen.plan
  BY MOpen DEF RecordEffect, MutationSteps
<1>2. Shaped(WithEffect(mopen, midx, "Succeeded")) /\ WithEffect(mopen, midx, "Succeeded").plan = mopen.plan
  BY <1>1, Withed DEF EffectStates
<1>3. midx' \in DOMAIN mopen.plan
  <2>1. PICK n \in 1..3 : DOMAIN mopen.plan = 1..n /\ Len(mopen.plan) = n
    BY <1>1, PlanDomain
  <2>2. QED
    BY <1>1, <2>1 DEF RecordEffect
<1>4. \E x \in {"m_complete", "m_open"} :
         Checkpoint(WithEffect(mopen, midx, "Succeeded"), x, AttentionAt(mopen, midx + 1))
  BY DEF RecordEffect
<1>5. AttentionAt(mopen, midx + 1) \in MPlain /\ {"m_complete", "m_open"} \subseteq MPlain
      /\ pc["cmd"] \in MutationSteps
  BY AttentionPlain DEF MPlain, RecordEffect, MutationSteps
<1>6. QED
  BY <1>2, <1>3, <1>4, <1>5, TypeCheckpoint DEF RecordEffect

LEMMA TypeRecordUncertain == ASSUME TypeInv, RecordUncertain PROVE TypeInv'
<1>1. Shaped(mopen) /\ midx \in DOMAIN mopen.plan /\ midx' = midx
  BY MOpen DEF RecordUncertain, MutationSteps
<1>2. Shaped(WithEffect(mopen, midx, "Uncertain")) /\ WithEffect(mopen, midx, "Uncertain").plan = mopen.plan
  BY <1>1, Withed DEF EffectStates
<1>3. AttentionAt(mopen, midx) \in MPlain /\ pc["cmd"] \in MutationSteps
  BY AttentionPlain DEF MPlain, RecordUncertain, MutationSteps
<1>4. QED
  BY <1>1, <1>2, <1>3, TypeCheckpoint DEF RecordUncertain

LEMMA TypeFinishReceipt == ASSUME TypeInv, FinishReceipt PROVE TypeInv'
<1>1. Shaped(mopen) /\ midx \in DOMAIN mopen.plan /\ midx' = midx
  BY MOpen DEF FinishReceipt, MutationSteps
<1>2. \E x \in Terminals : Checkpoint([mopen EXCEPT !.terminal = x], "m_fence", "m_end")
  BY DEF FinishReceipt, Terminals
<1>3. {"m_fence", "m_end"} \subseteq MPlain /\ pc["cmd"] \in MutationSteps
  BY DEF MPlain, FinishReceipt, MutationSteps
<1>4. QED
  BY <1>1, <1>2, <1>3, TypeCheckpoint, Ended DEF FinishReceipt

LEMMA TypeMutationEffect == ASSUME TypeInv, MutationEffect PROVE TypeInv'
<1>1. Shaped(mopen) /\ midx \in DOMAIN mopen.plan /\ mopen \in MutationReceipts
  BY MOpen DEF MutationEffect, MutationSteps
<1>2. midx \in 1..3
  BY MKept
<1>3. /\ UNCHANGED <<journal, dfence, dreceipt, dclearing, did, owed, open, stopped, ops, env, crashes,
                     boots, outcome, lease, mfence, mreceipt, mclearing, mopen, midx, seen>>
  BY DEF MutationEffect, Beside, Unreported
<1>4. \E x \in MPlain : pc' = [pc EXCEPT !["cmd"] = x]
  BY DEF MutationEffect, Goto, MPlain
<1>5. faults' \in 0..MaxFaults
  BY Kept, Bounds DEF MutationEffect
<1>6. mdone' \subseteq 1..3
  BY <1>2, MKept DEF MutationEffect
<1>7. image' \in Images /\ backup' \in BOOLEAN
  BY <1>1, MutationFields, MKept DEF MutationEffect
<1>8. comp' \in [Components -> {"original", "absent", "restored", "foreign"}]
  <2>1. Target(mopen.plan[midx]) \in Components
    BY DEF Target, Components
  <2> HIDE DEF Target
  <2>2. \/ comp' = comp
        \/ comp' = [comp EXCEPT ![Target(mopen.plan[midx])] = "absent"]
        \/ comp' = [comp EXCEPT ![Target(mopen.plan[midx])] = IF @ = "original" THEN "absent" ELSE @]
    BY DEF MutationEffect
  <2>3. QED
    BY <2>1, <2>2, MKept
<1>9. /\ mreceipt' = None \/ Shaped(mreceipt')
      /\ mclearing' = None \/ Shaped(mclearing')
      /\ mreceipt' = None \/ mclearing' = None
      /\ Shaped(mopen') /\ midx' \in DOMAIN mopen'.plan
  BY <1>1, <1>3, RecordsTyped, MKept
<1>10. /\ mfence' = None \/ mfence' \in MutationFences
       /\ seen'.receipt \in MutationReceipts \cup {None} /\ midx' \in 1..3
       /\ outcome' \in [Threads -> {"none", "ok", "failed", "attention"}]
       /\ lease' \in Threads \cup {"none"}
  BY <1>3, Kept, MKept
<1>11. PICK x \in MPlain : pc' = [pc EXCEPT !["cmd"] = x]
  BY <1>4
<1>12. x \in Steps /\ x \notin DisableSteps /\ x \notin Announced
  BY MPlainSteps
<1>13. QED
  BY <1>3, <1>5, <1>6, <1>7, <1>8, <1>9, <1>10, <1>11, <1>12, MutationTypes, ThreadsAre

LEMMA TypeBegin == ASSUME TypeInv, BeginMutation PROVE TypeInv'
<1>1. Shaped(mopen) /\ midx \in DOMAIN mopen.plan /\ mopen \in MutationReceipts
  BY MOpen DEF BeginMutation, MutationSteps
<1>2. UNCHANGED <<journal, dfence, did, owed, open, stopped, ops, env, crashes, boots,
                  comp, backup, mdone, image, mopen, midx, seen>>
  BY DEF BeginMutation, Unaffected
<1>3. /\ \E x \in {"m_open", "idle"} : pc' = [pc EXCEPT !["cmd"] = x]
      /\ outcome' \in [Threads -> {"none", "ok", "failed", "attention"}]
      /\ lease' \in Threads \cup {"none"}
  BY Finished, Kept, ThreadsAre DEF BeginMutation, Goto, Unreported
<1>4. faults' \in 0..MaxFaults
  BY Bounds DEF BeginMutation
<1>5. /\ mfence' = None \/ mfence' \in MutationFences
      /\ mreceipt' = None \/ Shaped(mreceipt')
      /\ mclearing' = None
  BY <1>1, BeginFields, RecordsTyped, MKept DEF BeginMutation, MutationRecord
<1>6. dreceipt' = DisableRecord /\ dclearing' = None
  BY DEF BeginMutation, DisableRecord
<1>7. /\ image' \in Images /\ backup' \in BOOLEAN /\ mdone' \subseteq 1..3 /\ midx' \in 1..3
      /\ comp' \in [Components -> {"original", "absent", "restored", "foreign"}]
      /\ seen'.receipt \in MutationReceipts \cup {None}
      /\ Shaped(mopen') /\ midx' \in DOMAIN mopen'.plan
  BY <1>1, <1>2, MKept
<1>8. PICK x \in {"m_open", "idle"} : pc' = [pc EXCEPT !["cmd"] = x]
  BY <1>3
<1>9. x \in Steps /\ x \notin DisableSteps /\ x \notin Announced
  BY DEF Steps, DisableSteps, Announced
<1>10. QED
  BY <1>2, <1>3, <1>4, <1>5, <1>6, <1>7, <1>8, <1>9, MutationTypes, ThreadsAre

\* What the ends of the operation and the boot decision share.
LEMMA CleanupTypes ==
  ASSUME TypeInv, NEW t \in Threads, NEW x \in Steps \ (DisableSteps \cup Announced),
         Beside, Unaffected, UNCHANGED <<image, mopen, midx>>,
         mfence' = None \/ mfence' \in MutationFences,
         mreceipt' = None \/ Shaped(mreceipt'), mclearing' = None \/ Shaped(mclearing'),
         mreceipt' = None \/ mclearing' = None,
         seen'.receipt \in MutationReceipts \cup {None},
         outcome' \in [Threads -> {"none", "ok", "failed", "attention"}],
         lease' \in Threads \cup {"none"}, faults' \in 0..MaxFaults,
         pc' = [pc EXCEPT ![t] = x],
         (t = "cmd" /\ x \in MutationSteps) => pc["cmd"] \in MutationSteps
  PROVE  TypeInv'
<1>1. UNCHANGED <<journal, dfence, dreceipt, dclearing, did, owed, open, stopped, ops, env, crashes,
                     boots, comp, backup, mdone, image, mopen, midx>>
  BY DEF Beside, Unaffected
<1>2. /\ image' \in Images /\ backup' \in BOOLEAN /\ mdone' \subseteq 1..3 /\ midx' \in 1..3
      /\ comp' \in [Components -> {"original", "absent", "restored", "foreign"}]
  BY <1>1, MKept
<1>3. pc'["cmd"] \in MutationSteps => pc["cmd"] \in MutationSteps
  BY ThreadsAre DEF TypeInv, TypeOK
<1>4. pc'["cmd"] \in MutationSteps => Shaped(mopen') /\ midx' \in DOMAIN mopen'.plan
  BY <1>1, <1>3, MOpen
<1>5. TypeOK' /\ OneName' /\ Kinds'
  <2>1. TypeOK'
    <3>1. {dreceipt', dclearing', open'["cmd"], open'["boot"]} \subseteq DisableReceipts \cup {None}
      BY <1>1 DEF TypeInv, TypeOK
    <3>2. {mreceipt', mclearing', mopen', seen'.receipt} \subseteq MutationReceipts \cup {None}
      BY DEF Shaped, TypeInv, TypeOK
    <3>3. pc' \in [Threads -> Steps] /\ stopped' \in [Threads -> SUBSET Components]
      BY <1>1 DEF TypeInv, TypeOK
    <3>4. /\ journal' \in BOOLEAN
          /\ dfence' = None \/ dfence' \in [op : Ops, before : Images, after : Images]
          /\ did' \subseteq Components /\ owed' \subseteq Components
          /\ ops' \in 0..MaxOps /\ env' \in 0..MaxEnv
          /\ crashes' \in 0..MaxCrashes /\ boots' \in 0..MaxBoots
      BY <1>1 DEF TypeInv, TypeOK
    <3>5. QED
      BY <1>2, <3>1, <3>2, <3>3, <3>4 DEF TypeOK, MutationFences
  <2>2. OneName'
    BY <1>1 DEF TypeInv, OneName
  <2>3. Kinds'
    <3>1. MutationRecord' = None \/ Shaped(MutationRecord)'
      BY DEF MutationRecord, Read, Shaped
    <3>2. DisableRecord' = DisableRecord
      BY <1>1 DEF DisableRecord, Read
    <3>3. \A u \in Threads : pc'[u] = IF u = t THEN x ELSE pc[u]
      BY DEF TypeInv, TypeOK
    <3>4. \A u \in Threads : pc'[u] \in DisableSteps => WellFormed(open'[u])
      BY <1>1, <3>3 DEF TypeInv, Kinds
    <3>5. pc'["cmd"] \in Announced => open'["cmd"].phase.kind = "Stopping"
      BY <1>1, <3>3, ThreadsAre DEF TypeInv, Kinds
    <3>6. QED
      BY <1>1, <1>4, <3>1, <3>2, <3>4, <3>5 DEF TypeInv, Kinds, WellFormed, Shaped
  <2>4. QED
    BY <2>1, <2>2, <2>3
<1>6. QED
  BY <1>5 DEF TypeInv

LEMMA TypeFinishFence == ASSUME TypeInv, FinishFence PROVE TypeInv'
<1>1. Shaped(mopen) /\ mopen \in MutationReceipts /\ pc["cmd"] \in MutationSteps
  BY MOpen DEF FinishFence, MutationSteps
<1>2. mfence' = None \/ mfence' \in MutationFences
  BY <1>1, TerminalFields, MKept DEF FinishFence
<1>3. \E x \in {"m_clear", "m_end"} : pc' = [pc EXCEPT !["cmd"] = x]
  BY DEF FinishFence, Goto
<1>4. faults' \in 0..MaxFaults
  BY Bounds DEF FinishFence
<1>5. /\ UNCHANGED <<image, mreceipt, mclearing, mopen, midx, seen, outcome, lease>>
      /\ Beside /\ Unaffected
  BY DEF FinishFence, Unreported
<1>6. /\ mreceipt' = None \/ Shaped(mreceipt')
      /\ mclearing' = None \/ Shaped(mclearing')
      /\ mreceipt' = None \/ mclearing' = None
      /\ seen'.receipt \in MutationReceipts \cup {None}
      /\ outcome' \in [Threads -> {"none", "ok", "failed", "attention"}]
      /\ lease' \in Threads \cup {"none"}
  BY <1>5, RecordsTyped, MKept, Kept
<1>7. {"m_clear", "m_end"} \subseteq Steps \ (DisableSteps \cup Announced)
  BY DEF Steps, DisableSteps, Announced
<1>8. QED
  BY <1>1, <1>2, <1>3, <1>4, <1>5, <1>6, <1>7, CleanupTypes, ThreadsAre

\* The ordered cleanup, told by what it leaves.
LEMMA Cleared ==
  ASSUME NEW fence, NEW r, NEW left, ClearMutation(fence, r, left)
  PROVE  /\ left # "all" => /\ mfence = fence /\ image = FenceImage(fence) /\ MutationRecord = r
         /\ mreceipt' = (IF left = "all" THEN MutationRecord ELSE None)
         /\ mclearing' = (IF left = "clearing" THEN MutationRecord ELSE None)
         /\ mfence' = (IF left \in {"none", "unsynced"} THEN None ELSE mfence)
         /\ faults' = faults \/ (faults < MaxFaults /\ faults' = faults + 1)
<1> DEFINE exact == /\ mfence = fence /\ image = FenceImage(fence)
                    /\ MutationRecord = r
<1>1. /\ left \in {"none", "unsynced", "fence", "clearing", "all"}
      /\ (~exact => left = "all")
      /\ (exact /\ left # "none") => faults < MaxFaults
      /\ faults' = IF exact /\ left # "none" THEN faults + 1 ELSE faults
      /\ mreceipt'  = IF left = "all" THEN MutationRecord ELSE None
      /\ mclearing' = IF left = "clearing" THEN r ELSE None
      /\ mfence'    = IF left \in {"none", "unsynced"} THEN None ELSE mfence
  BY DEF ClearMutation, MutationRecord
<1>2. QED
  BY <1>1

LEMMA TypeCleared ==
  ASSUME TypeInv, NEW fence, NEW r, NEW left, ClearMutation(fence, r, left)
  PROVE  /\ mfence' = None \/ mfence' \in MutationFences
         /\ mreceipt' = None \/ Shaped(mreceipt')
         /\ mclearing' = None \/ Shaped(mclearing')
         /\ mreceipt' = None \/ mclearing' = None
         /\ faults' \in 0..MaxFaults
<1>1. /\ mreceipt' = (IF left = "all" THEN MutationRecord ELSE None)
      /\ mclearing' = (IF left = "clearing" THEN MutationRecord ELSE None)
      /\ mfence' = (IF left \in {"none", "unsynced"} THEN None ELSE mfence)
      /\ faults' = faults \/ (faults < MaxFaults /\ faults' = faults + 1)
  BY Cleared
<1>2. faults' \in 0..MaxFaults
  BY <1>1, Kept, BoundsAssumption
<1>3. QED
  BY <1>1, <1>2, RecordsTyped, MKept

LEMMA TypeFinishClear == ASSUME TypeInv, FinishClear PROVE TypeInv'
<1>1. PICK left : ClearMutation(TerminalFence(mopen), mopen, left)
                  /\ Finish("cmd", IF left = "none" THEN "ok" ELSE "attention")
  BY DEF FinishClear
<1>2. /\ pc' = [pc EXCEPT !["cmd"] = "idle"]
      /\ outcome' \in [Threads -> {"none", "ok", "failed", "attention"}]
      /\ lease' \in Threads \cup {"none"}
  BY <1>1, Finished, ThreadsAre
<1>3. "idle" \in Steps \ (DisableSteps \cup Announced) /\ "idle" \notin MutationSteps
  BY DEF Steps, DisableSteps, Announced, MutationSteps
<1>4. seen'.receipt \in MutationReceipts \cup {None} /\ Beside /\ Unaffected /\ UNCHANGED <<image, mopen, midx>>
  BY MKept DEF FinishClear
<1>5. /\ mfence' = None \/ mfence' \in MutationFences
      /\ mreceipt' = None \/ Shaped(mreceipt')
      /\ mclearing' = None \/ Shaped(mclearing')
      /\ mreceipt' = None \/ mclearing' = None
      /\ faults' \in 0..MaxFaults
  BY <1>1, TypeCleared
<1>6. QED
  BY <1>2, <1>3, <1>4, <1>5, CleanupTypes, ThreadsAre

LEMMA TypeMutationAttention == ASSUME TypeInv, MutationAttention PROVE TypeInv'
<1>1. /\ pc' = [pc EXCEPT !["cmd"] = "idle"]
      /\ outcome' \in [Threads -> {"none", "ok", "failed", "attention"}]
      /\ lease' \in Threads \cup {"none"}
  BY Finished, ThreadsAre DEF MutationAttention
<1>2. "idle" \in Steps \ (DisableSteps \cup Announced) /\ "idle" \notin MutationSteps
  BY DEF Steps, DisableSteps, Announced, MutationSteps
<1>3. /\ UNCHANGED <<image, mfence, mreceipt, mclearing, mopen, midx, seen, faults>>
      /\ Beside /\ Unaffected
  BY DEF MutationAttention
<1>4. /\ mreceipt' = None \/ Shaped(mreceipt')
      /\ mclearing' = None \/ Shaped(mclearing')
      /\ mreceipt' = None \/ mclearing' = None
      /\ mfence' = None \/ mfence' \in MutationFences
      /\ seen'.receipt \in MutationReceipts \cup {None} /\ faults' \in 0..MaxFaults
  BY <1>3, RecordsTyped, MKept, Kept
<1>5. QED
  BY <1>1, <1>2, <1>3, <1>4, CleanupTypes, ThreadsAre

LEMMA TypeBootClear == ASSUME TypeInv, BootClear PROVE TypeInv'
<1>1. PICK left : /\ ClearMutation(seen.mfence, seen.receipt, left)
                  /\ \/ Goto("boot", "orphan") /\ Unreported
                     \/ Finish("boot", "attention")
  BY DEF BootClear
<1>2. /\ \E x \in {"orphan", "idle"} : pc' = [pc EXCEPT !["boot"] = x]
      /\ outcome' \in [Threads -> {"none", "ok", "failed", "attention"}]
      /\ lease' \in Threads \cup {"none"}
  BY <1>1, Finished, Kept, ThreadsAre DEF Goto, Unreported
<1>3. {"orphan", "idle"} \subseteq Steps \ (DisableSteps \cup Announced)
  BY DEF Steps, DisableSteps, Announced
<1>4. seen'.receipt \in MutationReceipts \cup {None} /\ Beside /\ Unaffected /\ UNCHANGED <<image, mopen, midx>>
  BY MKept DEF BootClear
<1>5. /\ mfence' = None \/ mfence' \in MutationFences
      /\ mreceipt' = None \/ Shaped(mreceipt')
      /\ mclearing' = None \/ Shaped(mclearing')
      /\ mreceipt' = None \/ mclearing' = None
      /\ faults' \in 0..MaxFaults
  BY <1>1, TypeCleared
<1>6. QED
  BY <1>2, <1>3, <1>4, <1>5, CleanupTypes, ThreadsAre

LEMMA TypeBootOrphanMutation == ASSUME TypeInv, BootOrphanMutation PROVE TypeInv'
<1>1. /\ \E x \in {"orphan", "idle"} : pc' = [pc EXCEPT !["boot"] = x]
      /\ outcome' \in [Threads -> {"none", "ok", "failed", "attention"}]
      /\ lease' \in Threads \cup {"none"}
  BY Finished, Kept, ThreadsAre DEF BootOrphanMutation, Goto, Unreported
<1>2. {"orphan", "idle"} \subseteq Steps \ (DisableSteps \cup Announced)
  BY DEF Steps, DisableSteps, Announced
<1>3. seen'.receipt \in MutationReceipts \cup {None} /\ Beside /\ Unaffected /\ UNCHANGED <<image, mopen, midx>>
  BY MKept DEF BootOrphanMutation
<1>4. faults' \in 0..MaxFaults
  BY Bounds, Kept DEF BootOrphanMutation
<1>5. /\ mreceipt' = MutationRecord /\ mclearing' = None
      /\ mfence' = None \/ mfence' = mfence
  BY DEF BootOrphanMutation, MutationRecord
<1>6. /\ mfence' = None \/ mfence' \in MutationFences
      /\ mreceipt' = None \/ Shaped(mreceipt')
  BY <1>5, RecordsTyped, MKept
<1>7. QED
  BY <1>1, <1>2, <1>3, <1>4, <1>5, <1>6, CleanupTypes, ThreadsAre

LEMMA TypeBootReceipts == ASSUME TypeInv, BootDisableReceipt \/ BootReceipts PROVE TypeInv'
<1>1. /\ \E x \in {"orphan", "idle", "b_orphan", "b_clear", "b_mutation"} : pc' = [pc EXCEPT !["boot"] = x]
      /\ outcome' \in [Threads -> {"none", "ok", "failed", "attention"}]
      /\ lease' \in Threads \cup {"none"}
  BY Finished, Kept, ThreadsAre DEF BootDisableReceipt, BootReceipts, Goto, Unreported
<1>2. PICK x \in {"orphan", "idle", "b_orphan", "b_clear", "b_mutation"} : pc' = [pc EXCEPT !["boot"] = x]
  BY <1>1
<1>3. x \in Steps /\ x \notin DisableSteps /\ x \notin Announced
  BY DEF Steps, DisableSteps, Announced
<1>4. /\ UNCHANGED <<image, journal, dfence, mfence, comp, backup, did, owed, mdone, open, stopped,
                     mopen, midx, ops, env, crashes, boots>>
      /\ \/ UNCHANGED <<dreceipt, dclearing>>
         \/ dreceipt' = DisableRecord /\ dclearing' = None
      /\ \/ UNCHANGED <<mreceipt, mclearing>>
         \/ mreceipt' = MutationRecord /\ mclearing' = None
  BY DEF BootDisableReceipt, BootReceipts, config, world, DisableRecord, MutationRecord
<1>5. seen'.receipt \in MutationReceipts \cup {None}
  <2>1. seen'.receipt = MutationRecord \/ seen'.receipt = seen.receipt
    <3>1. CASE BootDisableReceipt
      <4>1. ASSUME NEW d, seen' = [seen EXCEPT !.disable = d] PROVE seen'.receipt = seen.receipt
        BY <4>1, MKept
      <4>2. seen' = seen \/ \E d : seen' = [seen EXCEPT !.disable = d]
        <5> DEFINE d == seen.disable \/ Read(dreceipt, dclearing) # None
        <5>1. seen' = seen \/ seen' = [seen EXCEPT !.disable = d]
          BY <3>1, Zenon DEF BootDisableReceipt
        <5> HIDE DEF d
        <5>2. QED
          BY <5>1
      <4>3. QED
        BY <4>1, <4>2
    <3>2. CASE BootReceipts
      <4>1. ASSUME NEW m, seen' = [seen EXCEPT !.receipt = m]
            PROVE  seen'.receipt = m \/ seen'.receipt = seen.receipt
        BY <4>1
      <4>2. seen' = seen \/ seen' = [seen EXCEPT !.receipt = MutationRecord]
        BY <3>2 DEF BootReceipts, MutationRecord
      <4>3. QED
        BY <4>1, <4>2
    <3>3. QED
      BY <3>1, <3>2
  <2>2. QED
    BY <2>1, RecordsTyped, MKept DEF Shaped
<1>6. /\ image' \in Images /\ backup' \in BOOLEAN /\ mdone' \subseteq 1..3 /\ midx' \in 1..3
      /\ comp' \in [Components -> {"original", "absent", "restored", "foreign"}]
      /\ mfence' = None \/ mfence' \in MutationFences
      /\ mreceipt' = None \/ Shaped(mreceipt')
  BY <1>4, MKept, Kept, RecordsTyped
<1>6a. faults' \in 0..MaxFaults
  BY Bounds, Kept DEF BootDisableReceipt, BootReceipts
<1>7. pc'["cmd"] = pc["cmd"]
  BY <1>2, ThreadsAre DEF TypeInv, TypeOK
<1>8. /\ pc'["cmd"] \in MutationSteps => Shaped(mopen') /\ midx' \in DOMAIN mopen'.plan
      /\ mopen' = None \/ mopen' \in MutationReceipts
  BY <1>4, <1>7, MOpen DEF TypeInv, TypeOK
<1>9. TypeOK'
  <2>1. {dreceipt', dclearing', open'["cmd"], open'["boot"]} \subseteq DisableReceipts \cup {None}
    BY <1>4 DEF TypeInv, TypeOK, DisableRecord, Read
  <2>2. {mreceipt', mclearing', mopen', seen'.receipt} \subseteq MutationReceipts \cup {None}
    BY <1>4, <1>5, <1>8, RecordsTyped DEF Shaped
  <2>3. pc' \in [Threads -> Steps] /\ stopped' \in [Threads -> SUBSET Components]
    BY <1>2, <1>3, <1>4 DEF TypeInv, TypeOK
  <2>4. /\ journal' \in BOOLEAN
        /\ dfence' = None \/ dfence' \in [op : Ops, before : Images, after : Images]
        /\ did' \subseteq Components /\ owed' \subseteq Components
        /\ ops' \in 0..MaxOps /\ env' \in 0..MaxEnv
        /\ crashes' \in 0..MaxCrashes /\ boots' \in 0..MaxBoots
    BY <1>4 DEF TypeInv, TypeOK
  <2>5. QED
    BY <1>1, <1>6, <1>6a, <2>1, <2>2, <2>3, <2>4 DEF TypeOK, MutationFences
<1>10. OneName'
  BY <1>4 DEF TypeInv, OneName
<1>11. Kinds'
  <2>1. DisableRecord' = DisableRecord /\ MutationRecord' = MutationRecord
    BY <1>4 DEF DisableRecord, MutationRecord, Read
  <2>2. \A u \in Threads : pc'[u] \in DisableSteps => WellFormed(open'[u])
    BY <1>2, <1>3, <1>4 DEF TypeInv, Kinds, TypeOK
  <2>3. QED
    BY <1>4, <1>7, <1>8, <2>1, <2>2 DEF TypeInv, Kinds, WellFormed, Shaped
<1>12. QED
  BY <1>9, <1>10, <1>11 DEF TypeInv

\* A plan of one to three effects, the last ones fixed.
LEMMA Plans ==
  /\ ProfilePlan \in [1..3 -> EffectKinds]
  /\ OfficialPlan \in UNION {[1..n -> EffectKinds] : n \in 1..3}
<1>1. ProfilePlan \in [1..3 -> EffectKinds]
  BY DEF ProfilePlan, EffectKinds
<1>2. ASSUME NEW a \in {<<>>, <<"StopScience">>}, NEW b \in {<<>>, <<"StopGateway">>}
      PROVE  a \o b \o <<"Commit">> \in UNION {[1..n -> EffectKinds] : n \in 1..3}
  <2>1. /\ a \in Seq(EffectKinds) /\ Len(a) \in {0, 1} /\ b \in Seq(EffectKinds) /\ Len(b) \in {0, 1}
        /\ <<"Commit">> \in Seq(EffectKinds) /\ Len(<<"Commit">>) = 1
    <3>1. \A e \in EffectKinds : <<e>> \in Seq(EffectKinds) /\ Len(<<e>>) = 1
      OBVIOUS
    <3>2. {"StopScience", "StopGateway", "Commit"} \subseteq EffectKinds
      BY DEF EffectKinds
    <3>3. <<>> \in Seq(EffectKinds) /\ Len(<<>>) = 0
      BY EmptySeq
    <3>4. QED
      BY <3>1, <3>2, <3>3
  <2>2. a \o b \in Seq(EffectKinds) /\ Len(a \o b) \in 0..2
    BY <2>1, ConcatProperties
  <2>3. a \o b \o <<"Commit">> \in Seq(EffectKinds) /\ Len(a \o b \o <<"Commit">>) \in 1..3
    BY <2>1, <2>2, ConcatProperties
  <2>4. a \o b \o <<"Commit">> \in [1..Len(a \o b \o <<"Commit">>) -> EffectKinds]
    BY <2>3, LenProperties
  <2>5. QED
    BY <2>3, <2>4
<1>3. \E a \in {<<>>, <<"StopScience">>}, b \in {<<>>, <<"StopGateway">>} :
         OfficialPlan = a \o b \o <<"Commit">>
  BY DEF OfficialPlan
<1>4. QED
  BY <1>1, <1>2, <1>3

LEMMA TypePlanMutation == ASSUME TypeInv, PlanMutation PROVE TypeInv'
<1>1. PICK plan \in {ProfilePlan, OfficialPlan}, after \in Images :
        /\ ops < MaxOps
        /\ Len(plan) > 1
        /\ Goto("cmd", "m_begin") /\ lease' = "cmd"
        /\ mopen' = [op |-> ops + 1, before |-> image, after |-> after, plan |-> plan,
                     effects |-> [i \in 1..Len(plan) |-> "Pending"], terminal |-> NoTerminal]
        /\ midx' = 1 /\ mdone' = {}
        /\ comp' = [c \in Components |-> IF comp[c] = "restored" THEN "original" ELSE comp[c]]
        /\ ops' = ops + 1 /\ outcome' = [outcome EXCEPT !["cmd"] = "none"]
        /\ UNCHANGED <<config, ledgers, backup, did, owed, open, stopped, seen,
                       faults, env, crashes, boots>>
  BY DEF PlanMutation
<1>2. PICK n \in 1..3 : plan \in [1..n -> EffectKinds]
  BY Plans
<1>3. DOMAIN plan = 1..n /\ Len(plan) = n
  BY <1>2
<1>4. ops + 1 \in Ops /\ ops' \in 0..MaxOps
  BY <1>1, BoundsAssumption DEF Ops, TypeInv, TypeOK
<1>5. Shaped(mopen') /\ midx' \in DOMAIN mopen'.plan
  <2>1. [i \in 1..Len(plan) |-> "Pending"] \in [1..n -> EffectStates]
    BY <1>3 DEF EffectStates
  <2>2. NoTerminal \in Terminals
    BY DEF NoTerminal, Terminals
  <2>3. mopen' \in MutationReceipts
    BY <1>1, <1>2, <1>4, <2>1, <2>2, MKept DEF MutationReceipts
  <2>4. mopen'.plan = plan /\ mopen'.effects = [i \in 1..Len(plan) |-> "Pending"]
    BY <1>1
  <2>5. QED
    BY <1>1, <1>3, <2>3, <2>4 DEF Shaped
<1>6. /\ UNCHANGED <<image, journal, dfence, mfence, dreceipt, dclearing, mreceipt, mclearing, backup,
                     did, owed, open, stopped, seen, faults, env, crashes, boots>>
      /\ pc' = [pc EXCEPT !["cmd"] = "m_begin"] /\ midx' = 1 /\ mdone' = {} /\ lease' = "cmd"
  BY <1>1 DEF config, ledgers, Goto
<1>7. pc' \in [Threads -> Steps] /\ pc'["cmd"] = "m_begin" /\ pc'["boot"] = pc["boot"]
  BY <1>6, ThreadsAre DEF TypeInv, TypeOK, Steps
<1>8. /\ outcome' \in [Threads -> {"none", "ok", "failed", "attention"}]
      /\ comp' \in [Components -> {"original", "absent", "restored", "foreign"}]
  BY <1>1, Kept, ThreadsAre DEF TypeInv, TypeOK
<1>9. TypeOK'
  <2>1. {mreceipt', mclearing', mopen', seen'.receipt} \subseteq MutationReceipts \cup {None}
    BY <1>5, <1>6, MKept DEF Shaped, TypeInv, TypeOK
  <2>2. QED
    BY <1>4, <1>6, <1>7, <1>8, <2>1, ThreadsAre DEF TypeInv, TypeOK
<1>10. OneName'
  BY <1>6 DEF TypeInv, OneName
<1>11. Kinds'
  <2>1. \A t \in Threads : pc'[t] \in DisableSteps => WellFormed(open'[t])
    BY <1>6, <1>7, ThreadsAre DEF TypeInv, Kinds, DisableSteps
  <2>2. pc'["cmd"] \notin Announced
    BY <1>7 DEF Announced
  <2>3. DisableRecord' = DisableRecord /\ MutationRecord' = MutationRecord
    BY <1>6 DEF DisableRecord, MutationRecord
  <2>4. QED
    BY <1>5, <1>6, <2>1, <2>2, <2>3 DEF TypeInv, Kinds, WellFormed, Shaped
<1>12. QED
  BY <1>9, <1>10, <1>11 DEF TypeInv

LEMMA TypeBootLoad == ASSUME TypeInv, BootLoad PROVE TypeInv'
<1>1. /\ pc' = [pc EXCEPT !["boot"] = "b_receipts"]
      /\ UNCHANGED <<image, journal, dfence, mfence, dreceipt, dclearing, mreceipt, mclearing, backup, comp,
                     did, owed, mdone, open, stopped, mopen, midx, lease, ops, faults, env, crashes>>
      /\ seen'.receipt = None
  BY DEF BootLoad, Goto, config, ledgers, world
<1>2. pc' \in [Threads -> Steps] /\ pc'["boot"] = "b_receipts" /\ pc'["cmd"] = pc["cmd"]
  BY <1>1, ThreadsAre DEF TypeInv, TypeOK, Steps
<1>3. /\ outcome' \in [Threads -> {"none", "ok", "failed", "attention"}] /\ boots' \in 0..MaxBoots
  BY BoundsAssumption, ThreadsAre DEF BootLoad, TypeInv, TypeOK
<1>4. TypeOK'
  <2>1. {mreceipt', mclearing', mopen', seen'.receipt} \subseteq MutationReceipts \cup {None}
    BY <1>1 DEF TypeInv, TypeOK
  <2>2. QED
    BY <1>1, <1>2, <1>3, <2>1 DEF TypeInv, TypeOK
<1>5. OneName'
  BY <1>1 DEF TypeInv, OneName
<1>6. Kinds'
  <2>1. \A t \in Threads : pc'[t] \in DisableSteps => WellFormed(open'[t])
    BY <1>1, <1>2, ThreadsAre DEF TypeInv, Kinds, DisableSteps
  <2>2. DisableRecord' = DisableRecord /\ MutationRecord' = MutationRecord
    BY <1>1 DEF DisableRecord, MutationRecord
  <2>3. QED
    BY <1>1, <1>2, <2>1, <2>2 DEF TypeInv, Kinds, WellFormed, Shaped
<1>7. QED
  BY <1>4, <1>5, <1>6 DEF TypeInv

LEMMA TypePlainWrite == ASSUME TypeInv, PlainWrite PROVE TypeInv'
<1>1. /\ UNCHANGED <<journal, dfence, mfence, comp, backup, did, owed, mdone, pc, open, stopped, outcome,
                     mopen, midx, seen, lease, ops, faults, crashes, boots>>
      /\ dreceipt' = DisableRecord /\ dclearing' = None
      /\ mreceipt' = MutationRecord /\ mclearing' = None
      /\ image' \in Images
  BY MKept DEF PlainWrite, world, threads, Revive, DisableRecord, MutationRecord
<1>2. env' \in 0..MaxEnv
  BY BoundsAssumption DEF PlainWrite, TypeInv, TypeOK
<1>3. TypeOK'
  <2>1. {dreceipt', dclearing', open'["cmd"], open'["boot"]} \subseteq DisableReceipts \cup {None}
    BY <1>1 DEF TypeInv, TypeOK, DisableRecord, Read
  <2>2. {mreceipt', mclearing', mopen', seen'.receipt} \subseteq MutationReceipts \cup {None}
    BY <1>1 DEF TypeInv, TypeOK, MutationRecord, Read
  <2>3. QED
    BY <1>1, <1>2, <2>1, <2>2 DEF TypeInv, TypeOK
<1>4. OneName'
  BY <1>1 DEF OneName
<1>5. Kinds'
  <2>1. DisableRecord' = DisableRecord /\ MutationRecord' = MutationRecord
    BY <1>1 DEF DisableRecord, MutationRecord, Read
  <2>2. QED
    BY <1>1, <2>1 DEF TypeInv, Kinds, WellFormed, Shaped
<1>6. QED
  BY <1>3, <1>4, <1>5 DEF TypeInv

\* Steps that touch neither the files of the ledgers nor a thread.
LEMMA TypeElsewhere ==
  ASSUME TypeInv, UNCHANGED <<image, dfence, mfence, ledgers, backup, did, owed, mdone, threads>>,
         journal' \in BOOLEAN,
         comp' \in [Components -> {"original", "absent", "restored", "foreign"}],
         ops' \in 0..MaxOps, faults' \in 0..MaxFaults, env' \in 0..MaxEnv,
         crashes' \in 0..MaxCrashes, boots' \in 0..MaxBoots
  PROVE  TypeInv'
<1>1. UNCHANGED <<image, dfence, mfence, dreceipt, dclearing, mreceipt, mclearing, backup, did, owed, mdone,
                  pc, open, stopped, outcome, mopen, midx, seen, lease>>
  BY DEF ledgers, threads
<1>2. TypeOK'
  BY <1>1 DEF TypeInv, TypeOK
<1>3. OneName'
  BY <1>1 DEF TypeInv, OneName
<1>4. DisableRecord' = DisableRecord /\ MutationRecord' = MutationRecord
  BY <1>1 DEF DisableRecord, MutationRecord
<1>5. Kinds'
  BY <1>1, <1>4 DEF TypeInv, Kinds, WellFormed, Shaped
<1>6. QED
  BY <1>2, <1>3, <1>5 DEF TypeInv

LEMMA TypeOneClick == ASSUME TypeInv, OneClickJournal PROVE TypeInv'
<1>1. /\ env' \in 0..MaxEnv /\ journal' \in BOOLEAN
      /\ UNCHANGED <<image, dfence, mfence, ledgers, backup, did, owed, mdone, threads>>
      /\ UNCHANGED <<comp, ops, faults, crashes, boots>>
  BY BoundsAssumption DEF OneClickJournal, world, TypeInv, TypeOK
<1>2. QED
  BY <1>1, TypeElsewhere DEF TypeInv, TypeOK

LEMMA TypeComponentChanges ==
  ASSUME TypeInv, NEW c \in Components, ComponentChanges(c) PROVE TypeInv'
<1>1. /\ env' \in 0..MaxEnv /\ journal' \in BOOLEAN
      /\ comp' \in [Components -> {"original", "absent", "restored", "foreign"}]
      /\ UNCHANGED <<image, dfence, mfence, ledgers, backup, did, owed, mdone, threads>>
      /\ UNCHANGED <<ops, faults, crashes, boots>>
  BY BoundsAssumption DEF ComponentChanges, config, TypeInv, TypeOK
<1>2. QED
  BY <1>1, TypeElsewhere DEF TypeInv, TypeOK

LEMMA TypeCrash == ASSUME TypeInv, Crash PROVE TypeInv'
<1>1. /\ UNCHANGED <<image, journal, dfence, mfence, dreceipt, dclearing, mreceipt, mclearing, comp, backup,
                     did, owed, mdone, ops, faults, env, boots>>
      /\ pc' = [t \in Threads |-> "idle"] /\ open' = [t \in Threads |-> None]
      /\ stopped' = [t \in Threads |-> {}] /\ outcome' = [t \in Threads |-> "none"]
      /\ mopen' = None /\ midx' = 1 /\ lease' = "none" /\ seen'.receipt = None
  BY DEF Crash, config, ledgers, world
<1>2. crashes' \in 0..MaxCrashes
  BY BoundsAssumption DEF Crash, TypeInv, TypeOK
<1>3. pc' \in [Threads -> Steps] /\ \A t \in Threads : pc'[t] = "idle"
  BY <1>1 DEF Steps
<1>4. TypeOK'
  <2>1. {dreceipt', dclearing', open'["cmd"], open'["boot"]} \subseteq DisableReceipts \cup {None}
    BY <1>1, ThreadsAre DEF TypeInv, TypeOK
  <2>2. {mreceipt', mclearing', mopen', seen'.receipt} \subseteq MutationReceipts \cup {None}
    BY <1>1 DEF TypeInv, TypeOK
  <2>3. /\ stopped' \in [Threads -> SUBSET Components]
        /\ outcome' \in [Threads -> {"none", "ok", "failed", "attention"}]
    BY <1>1
  <2>4. QED
    BY <1>1, <1>2, <1>3, <2>1, <2>2, <2>3 DEF TypeInv, TypeOK
<1>5. OneName'
  BY <1>1 DEF TypeInv, OneName
<1>6. Kinds'
  <2>1. DisableRecord' = DisableRecord /\ MutationRecord' = MutationRecord
    BY <1>1 DEF DisableRecord, MutationRecord
  <2>2. \A t \in Threads : pc'[t] \notin DisableSteps \cup Announced \cup MutationSteps
    BY <1>3 DEF DisableSteps, Announced, MutationSteps
  <2>3. open' \in [Threads -> DisableReceipts \cup {None}]
    BY <1>1
  <2>4. QED
    BY <1>1, <2>1, <2>2, <2>3, ThreadsAre DEF TypeInv, Kinds, WellFormed, Shaped
<1>7. QED
  BY <1>4, <1>5, <1>6 DEF TypeInv

LEMMA TypeInit == Init => TypeInv
<1> SUFFICES ASSUME Init PROVE TypeInv
  OBVIOUS
<1>1. TypeOK
  <2>1. image \in Images
    <3>1. PICK x \in [codex : {TRUE}, rest : Contents] : image = x
      BY DEF Init
    <3>2. x.codex \in BOOLEAN /\ x.rest \in Contents /\ x = [codex |-> x.codex, rest |-> x.rest]
      BY <3>1
    <3>3. QED
      BY <3>1, <3>2 DEF Images
  <2>2. {dreceipt, dclearing, open["cmd"], open["boot"]} \subseteq DisableReceipts \cup {None}
    BY ThreadsAre DEF Init
  <2>3. {mreceipt, mclearing, mopen, seen.receipt} \subseteq MutationReceipts \cup {None}
    BY DEF Init
  <2>4. pc \in [Threads -> Steps] /\ stopped \in [Threads -> SUBSET Components]
        /\ outcome \in [Threads -> {"none", "ok", "failed", "attention"}]
    BY DEF Init, Steps
  <2>5. comp \in [Components -> {"original", "absent", "restored", "foreign"}]
    BY DEF Init
  <2>6. /\ ops \in 0..MaxOps /\ faults \in 0..MaxFaults /\ env \in 0..MaxEnv
        /\ crashes \in 0..MaxCrashes /\ boots \in 0..MaxBoots
    BY BoundsAssumption DEF Init
  <2>7. journal \in BOOLEAN /\ backup \in BOOLEAN /\ dfence = None /\ mfence = None
        /\ did = {} /\ owed = {} /\ mdone = {} /\ midx = 1 /\ lease = "none"
    BY DEF Init
  <2>8. QED
    BY <2>1, <2>2, <2>3, <2>4, <2>5, <2>6, <2>7 DEF TypeOK
<1>2. OneName
  BY DEF Init, OneName
<1>3. DisableRecord = None /\ MutationRecord = None
  BY DEF Init, DisableRecord, MutationRecord, Read
<1>4. Kinds
  BY <1>3, ThreadsAre DEF Init, Kinds, DisableSteps, MutationSteps, Announced
<1>5. QED
  BY <1>1, <1>2, <1>4 DEF TypeInv

LEMMA TypeMutation == ASSUME TypeInv, MutationCommand \/ MutationBoot PROVE TypeInv'
BY TypeBegin, TypeOpenEffect, TypeMutationEffect, TypeRecordEffect, TypeRecordUncertain,
   TypeFinishReceipt, TypeFinishFence, TypeFinishClear, TypeMutationAttention,
   TypeBootReceipts, TypeBootClear, TypeBootOrphanMutation DEF MutationCommand, MutationBoot

LEMMA TypeNext == ASSUME TypeInv, [Next]_vars PROVE TypeInv'
<1>1. CASE Next
  BY <1>1, TypePlanDisable, TypePlanMutation, TypeCommand, TypeEither, TypeMutation, TypeBootLoad,
     TypeBoot, TypePlainWrite, TypeOneClick, TypeComponentChanges, TypeCrash, ThreadsAre
  DEF Next, Command, Boot
<1>2. CASE UNCHANGED vars
  <2>1. /\ UNCHANGED <<image, dfence, mfence, ledgers, backup, did, owed, mdone, threads>>
        /\ UNCHANGED <<journal, comp, ops, faults, env, crashes, boots>>
    BY <1>2 DEF vars, config, world, budgets
  <2>2. QED
    BY <2>1, TypeElsewhere DEF TypeInv, TypeOK
<1>3. QED
  BY <1>1, <1>2

LEMMA TypeAlways == Spec => []TypeInv
<1>1. Init => TypeInv
  BY TypeInit
<1>2. TypeInv /\ [Next]_vars => TypeInv'
  BY TypeNext
<1>3. QED
  BY <1>1, <1>2, PTL DEF Spec

(* Types: what the configuration, the receipts, the clearing files and the threads  *)
(* in hand may be, whatever reports an error or dies (config.rs, codex.rs,          *)
(* config_mutation.rs).                                                            *)
THEOREM TypeCorrect == Spec => []TypeOK
<1>1. TypeInv => TypeOK
  BY DEF TypeInv
<1>2. QED
  BY <1>1, TypeAlways, PTL

-----------------------------------------------------------------------------
(* The records exclude each other, and each lies over an image it names.        *)

ExclInv == LedgersExclude /\ Imaged

LEMMA Opened ==
  /\ NoReceipts <=> (DisableRecord = None /\ MutationRecord = None)
  /\ NoTransaction <=> (dfence = None /\ mfence = None /\ ~journal)
BY DEF NoReceipts, NoTransaction, DisableRecord, MutationRecord

LEMMA ExclFrame ==
  ASSUME ExclInv, journal' = journal, image' = image,
         dfence' \in {None, dfence}, mfence' \in {None, mfence},
         DisableRecord' # None => DisableRecord # None \/ dfence # None,
         MutationRecord' # None => MutationRecord # None \/ mfence # None
  PROVE  ExclInv'
<1>1. LedgersExclude'
  BY DEF ExclInv, LedgersExclude
<1>2. Imaged'
  BY DEF ExclInv, Imaged, FenceImage
<1>3. QED
  BY <1>1, <1>2 DEF ExclInv

LEMMA ReadKept ==
  /\ UNCHANGED <<dreceipt, dclearing>> => DisableRecord' = DisableRecord
  /\ UNCHANGED <<mreceipt, mclearing>> => MutationRecord' = MutationRecord
  /\ (dreceipt' = DisableRecord /\ dclearing' = None) => DisableRecord' = DisableRecord
  /\ (mreceipt' = MutationRecord /\ mclearing' = None) => MutationRecord' = MutationRecord
BY DEF DisableRecord, MutationRecord, Read

\* What an advance does to the record.
LEMMA AdvancedRecord ==
  ASSUME TypeInv, NEW t \in Threads, pc[t] \in DisableSteps, Apart,
         NEW phase \in Phases, NEW then, NEW else, Advance(t, phase, then, else)
  PROVE  LET next == [open[t] EXCEPT !.phase = phase]
             can  == /\ DisableRecord = open[t] /\ dfence = DisableFence(open[t]) /\ dfence # None
                     /\ phase.kind # "Attention" => image = DisableImage(next)
         IN /\ DisableRecord' = DisableRecord \/ (can /\ DisableRecord' = next)
            /\ \/ can /\ DisableRecord' = next /\ open' = [open EXCEPT ![t] = next]
                  /\ pc' = [pc EXCEPT ![t] = then]
               \/ open' = open /\ pc' = [pc EXCEPT ![t] = else]
            /\ UNCHANGED <<image, journal, dfence, mfence, comp, did, owed, stopped, lease, ops,
                           mopen, midx, mdone, seen, outcome>>
            /\ MutationRecord' = MutationRecord
<1> DEFINE next == [open[t] EXCEPT !.phase = phase]
           can  == /\ DisableRecord = open[t] /\ dfence = DisableFence(open[t]) /\ dfence # None
                   /\ phase.kind # "Attention" => image = DisableImage(next)
<1>1. /\ UNCHANGED <<image, dfence, dclearing, stopped, seen, comp, did, owed, outcome, lease>>
      /\ \/ /\ CanAdvance(open[t], phase.kind) /\ dreceipt' = next
            /\ open' = [open EXCEPT ![t] = next] /\ pc' = [pc EXCEPT ![t] = then]
         \/ /\ dreceipt' = dreceipt \/ (CanAdvance(open[t], phase.kind) /\ dreceipt' = next)
            /\ open' = open /\ pc' = [pc EXCEPT ![t] = else]
  BY Advancing
<1>2. open[t] \in DisableReceipts
  BY StepOpen
<1>3. CanAdvance(open[t], phase.kind) => can /\ dclearing = None
  <2>1. ASSUME CanAdvance(open[t], phase.kind) PROVE can /\ dclearing = None
    <3>1. /\ dfence = DisableFence(open[t]) /\ dclearing = None /\ dreceipt = open[t]
          /\ phase.kind # "Attention" => image = DisableImage([open[t] EXCEPT !.phase.kind = phase.kind])
      BY <2>1 DEF CanAdvance
    <3>2. DisableRecord = open[t]
      BY <3>1 DEF DisableRecord, Read
    <3>3. DisableImage([open[t] EXCEPT !.phase.kind = phase.kind]) = DisableImage(next)
      BY <1>2, DisableFields, PhaseFields DEF DisableImage, DisableReceipts, Phases
    <3>4. QED
      BY <1>2, <3>1, <3>2, <3>3, FenceFields
  <2>2. QED
    BY <2>1
<1>4. (dreceipt' = next /\ dclearing = None) => DisableRecord' = next
  BY <1>1 DEF DisableRecord, Read
<1>5. dreceipt' = dreceipt => DisableRecord' = DisableRecord
  BY <1>1 DEF DisableRecord, Read
<1>6. /\ UNCHANGED <<journal, mfence, ops, mopen, midx, mdone, mreceipt, mclearing>>
      /\ MutationRecord' = MutationRecord
  BY ReadKept DEF Apart
<1>7. DisableRecord' = DisableRecord \/ (can /\ DisableRecord' = next)
  BY <1>1, <1>3, <1>4, <1>5
<1>8. \/ can /\ DisableRecord' = next /\ open' = [open EXCEPT ![t] = next]
         /\ pc' = [pc EXCEPT ![t] = then]
      \/ open' = open /\ pc' = [pc EXCEPT ![t] = else]
  BY <1>1, <1>3, <1>4
<1>9. QED
  BY <1>1, <1>6, <1>7, <1>8

\* What every step of the disable ledger but two leaves: the image and the other ledger,
\* and no record where there was none.
Quieter ==
  /\ UNCHANGED <<image, journal, mfence>> /\ MutationRecord' = MutationRecord
  /\ dfence' \in {None, dfence} /\ (DisableRecord' # None => DisableRecord # None)

LEMMA QuieterApart ==
  ASSUME Apart, image' = image, dfence' \in {None, dfence},
         DisableRecord' # None => DisableRecord # None
  PROVE  Quieter
BY ReadKept DEF Apart, Quieter

LEMMA QuieterDisk == ASSUME Apart, DiskKept PROVE Quieter
BY ReadKept, QuieterApart DEF DiskKept

LEMMA QuieterAdvance ==
  ASSUME TypeInv, NEW t \in Threads, pc[t] \in DisableSteps, Apart,
         NEW k \in {"Stopping", "EffectsApplied", "Restoring", "Restored", "ConfigCommitted", "Attention"},
         NEW c \in Targets, NEW S \in SUBSET Components, NEW then, NEW else,
         Advance(t, Phase(k, c, S), then, else)
  PROVE  Quieter
<1> DEFINE p == Phase(k, c, S)
<1>1. p \in Phases /\ Advance(t, p, then, else)
  BY PhaseMade
<1> HIDE DEF p
<1>2. /\ DisableRecord' = DisableRecord \/ DisableRecord = open[t]
      /\ UNCHANGED <<image, journal, dfence, mfence>> /\ MutationRecord' = MutationRecord
  BY <1>1, AdvancedRecord
<1>3. open[t] # None
  BY StepOpen, DisableFields
<1>4. QED
  BY <1>2, <1>3 DEF Quieter

LEMMA QuieterEither == ASSUME TypeInv, NEW t \in Threads, DisableEither(t) PROVE Quieter
<1>0. "none" \in Targets /\ stopped[t] \in SUBSET Components /\ {} \in SUBSET Components
  BY Kept DEF Targets
<1>1. CASE Fail(t)
  BY <1>1, QuieterDisk DEF Fail
<1>2. CASE Project(t)
  BY <1>2, QuieterDisk DEF Project
<1>3. CASE Retain(t)
  BY <1>0, <1>3, QuieterAdvance DEF Retain, DisableSteps
<1>4. CASE Committed(t)
  BY <1>0, <1>4, QuieterAdvance DEF Committed, DisableSteps
<1>5. CASE ClearReceipt(t)
  <2>1. Apart /\ UNCHANGED <<image, dfence>>
    BY <1>5 DEF ClearReceipt
  <2>2. \/ UNCHANGED <<dreceipt, dclearing>>
        \/ CanClear(open[t])
    BY <1>5 DEF ClearReceipt
  <2>3. CanClear(open[t]) => DisableRecord # None
    <3>1. open[t] # None
      BY <1>5, StepOpen, DisableFields DEF ClearReceipt, DisableSteps
    <3>2. QED
      BY <3>1 DEF CanClear, DisableRecord, Read
  <2>4. QED
    BY <2>1, <2>2, <2>3, ReadKept, QuieterApart
<1>6. CASE ClearFence(t)
  <2>1. Apart /\ image' = image /\ dfence' \in {None, dfence} /\ dreceipt' = DisableRecord /\ dclearing' = None
    BY <1>6 DEF ClearFence, DisableRecord
  <2>2. QED
    BY <2>1, ReadKept, QuieterApart
<1>7. CASE RestoreCheck(t)
  BY <1>7, QuieterDisk DEF RestoreCheck
<1>8. CASE Restoring(t)
  BY <1>0, <1>8, QuieterAdvance DEF Restoring, DisableSteps
<1>9. CASE RestoreScience(t) \/ RestoreGateway(t)
  BY <1>9, QuieterDisk DEF RestoreScience, RestoreGateway, Restart
<1>10. CASE Restored(t)
  <2>1. Apart /\ pc[t] \in DisableSteps
    BY <1>10 DEF Restored, DisableSteps
  <2>2. CASE DiskKept
    BY <2>1, <2>2, QuieterDisk
  <2>3. CASE Advance(t, Phase("Restored", "none", stopped[t]), "clear", "project")
    BY <1>0, <2>1, <2>3, QuieterAdvance
  <2>4. QED
    BY <1>10, <2>2, <2>3 DEF Restored
<1>11. QED
  BY <1>1, <1>2, <1>3, <1>4, <1>5, <1>6, <1>7, <1>8, <1>9, <1>10 DEF DisableEither

LEMMA QuieterCommand ==
  ASSUME TypeInv, Reconcile \/ Stopping \/ EffectLease \/ Effect \/ EffectsApplied \/ Unproved
  PROVE  Quieter
<1>0. /\ "none" \in Targets /\ stopped["cmd"] \in SUBSET Components /\ "cmd" \in Threads
      /\ NextTarget(open["cmd"], stopped["cmd"]) \in Targets
  BY Kept, ThreadsAre DEF Targets, NextTarget, Components
<1>1. CASE Reconcile
  <2>1. Apart /\ UNCHANGED <<image, dfence>> /\ dreceipt' = DisableRecord /\ dclearing' = None
    BY <1>1 DEF Reconcile, DisableRecord
  <2>2. QED
    BY <2>1, ReadKept, QuieterApart
<1>2. CASE Stopping
  BY <1>0, <1>2, QuieterAdvance DEF Stopping, DisableSteps
<1>3. CASE EffectLease
  BY <1>3, QuieterDisk DEF EffectLease
<1>4. CASE Effect
  BY <1>4, QuieterDisk DEF Effect
<1>5. CASE EffectsApplied
  BY <1>0, <1>5, QuieterAdvance DEF EffectsApplied, DisableSteps
<1>6. CASE Unproved
  BY <1>6, QuieterDisk DEF Unproved
<1>7. QED
  BY <1>1, <1>2, <1>3, <1>4, <1>5, <1>6

LEMMA QuieterBoot == ASSUME TypeInv, DisableBoot PROVE Quieter
<1>1. CASE BootOrphanFence
  <2>1. Apart /\ image' = image /\ dfence' \in {None, dfence} /\ dreceipt' = DisableRecord /\ dclearing' = None
    BY <1>1 DEF BootOrphanFence, DisableRecord
  <2>2. QED
    BY <2>1, ReadKept, QuieterApart
<1>2. CASE BootRead
  <2>1. Apart /\ UNCHANGED <<image, dfence>> /\ dreceipt' = DisableRecord /\ dclearing' = None
    BY <1>2 DEF BootRead, DisableRecord
  <2>2. QED
    BY <2>1, ReadKept, QuieterApart
<1>3. CASE BootImage \/ BootReplay
  BY <1>3, QuieterDisk DEF BootImage, BootReplay
<1>4. QED
  BY <1>1, <1>2, <1>3 DEF DisableBoot

\* The same of the mutation ledger.
MQuieter ==
  /\ UNCHANGED <<image, journal, dfence>> /\ DisableRecord' = DisableRecord
  /\ mfence' \in {None, mfence} /\ (MutationRecord' # None => MutationRecord # None)

LEMMA CheckedRecord ==
  ASSUME TypeInv, pc["cmd"] \in MutationSteps, NEW next, NEW then, NEW else,
         Checkpoint(next, then, else)
  PROVE  LET can == MutationRecord = mopen /\ mfence = BeginFence(mopen) /\ mfence # None
         IN /\ MutationRecord' = MutationRecord \/ (can /\ MutationRecord' = next)
            /\ \/ can /\ MutationRecord' = next /\ mopen' = next /\ pc' = [pc EXCEPT !["cmd"] = then]
               \/ mopen' = mopen /\ pc' = [pc EXCEPT !["cmd"] = else]
            /\ UNCHANGED <<image, mfence, seen>>
<1> DEFINE can == MutationRecord = mopen /\ mfence = BeginFence(mopen) /\ mfence # None
<1>1. /\ UNCHANGED <<image, mfence, mclearing, seen>>
      /\ \/ /\ CanCheckpoint(mopen) /\ mreceipt' = next /\ mopen' = next
            /\ pc' = [pc EXCEPT !["cmd"] = then]
         \/ /\ mreceipt' = mreceipt \/ (CanCheckpoint(mopen) /\ mreceipt' = next)
            /\ mopen' = mopen /\ pc' = [pc EXCEPT !["cmd"] = else]
  BY Checking
<1>2. CanCheckpoint(mopen) => can /\ mclearing = None
  BY MOpen, BeginFields DEF CanCheckpoint, MutationRecord, Read
<1>3. (mreceipt' = next /\ mclearing = None) => MutationRecord' = next
  BY <1>1 DEF MutationRecord, Read
<1>4. mreceipt' = mreceipt => MutationRecord' = MutationRecord
  BY <1>1 DEF MutationRecord, Read
<1>5. QED
  BY <1>1, <1>2, <1>3, <1>4

LEMMA QuieterBeside ==
  ASSUME Beside, image' = image, mfence' \in {None, mfence},
         MutationRecord' # None => MutationRecord # None
  PROVE  MQuieter
BY ReadKept DEF Beside, MQuieter

LEMMA QuieterCheckpoint ==
  ASSUME TypeInv, pc["cmd"] \in MutationSteps, Beside, NEW next, NEW then, NEW else,
         Checkpoint(next, then, else)
  PROVE  MQuieter
<1>1. /\ MutationRecord' = MutationRecord \/ MutationRecord = mopen
      /\ UNCHANGED <<image, mfence>>
  BY CheckedRecord
<1>2. mopen # None
  BY MOpen, MutationFields
<1>3. QED
  BY <1>1, <1>2, QuieterBeside

LEMMA ClearedRecord ==
  ASSUME NEW fence, NEW r, NEW left, ClearMutation(fence, r, left)
  PROVE  /\ MutationRecord' \in {MutationRecord, None} /\ mfence' \in {None, mfence}
         /\ MutationRecord' # MutationRecord => /\ mfence = fence /\ image = FenceImage(fence)
                                                /\ MutationRecord = r
         /\ mfence' # mfence => /\ mfence = fence /\ image = FenceImage(fence)
                                /\ MutationRecord = r /\ MutationRecord' = None
<1>1. /\ left # "all" => /\ mfence = fence /\ image = FenceImage(fence) /\ MutationRecord = r
      /\ mreceipt' = (IF left = "all" THEN MutationRecord ELSE None)
      /\ mclearing' = (IF left = "clearing" THEN MutationRecord ELSE None)
      /\ mfence' = (IF left \in {"none", "unsynced"} THEN None ELSE mfence)
  BY Cleared
<1>2. MutationRecord' = IF mclearing' # None THEN mclearing' ELSE mreceipt'
  BY DEF MutationRecord, Read
<1>3. QED
  BY <1>1, <1>2

LEMMA MQuieterMutation ==
  ASSUME TypeInv,
         \/ OpenEffect \/ RecordEffect \/ RecordUncertain \/ FinishReceipt \/ FinishClear
         \/ MutationAttention \/ BootClear \/ BootOrphanMutation
         \/ (MutationEffect /\ mopen.plan[midx] # "Commit")
  PROVE  MQuieter
<1>1. CASE OpenEffect
  <2>1. Beside /\ pc["cmd"] \in MutationSteps
    BY <1>1 DEF OpenEffect, MutationSteps
  <2>2. CASE UNCHANGED <<image, mfence, mreceipt, mclearing>>
    BY <2>1, <2>2, ReadKept, QuieterBeside
  <2>3. CASE \E next, then, else : Checkpoint(next, then, else)
    BY <2>1, <2>3, QuieterCheckpoint
  <2>4. QED
    BY <1>1, <2>2, <2>3 DEF OpenEffect
<1>2. CASE RecordEffect
  BY <1>2, QuieterCheckpoint DEF RecordEffect, MutationSteps
<1>3. CASE RecordUncertain
  BY <1>3, QuieterCheckpoint DEF RecordUncertain, MutationSteps
<1>4. CASE FinishReceipt
  BY <1>4, QuieterCheckpoint DEF FinishReceipt, MutationSteps
<1>5. CASE FinishClear
  BY <1>5, ClearedRecord, QuieterBeside DEF FinishClear
<1>6. CASE MutationAttention
  BY <1>6, ReadKept, QuieterBeside DEF MutationAttention
<1>7. CASE BootClear
  BY <1>7, ClearedRecord, QuieterBeside DEF BootClear
<1>8. CASE BootOrphanMutation
  <2>1. Beside /\ image' = image /\ mfence' \in {None, mfence} /\ mreceipt' = MutationRecord /\ mclearing' = None
    BY <1>8 DEF BootOrphanMutation, MutationRecord
  <2>2. QED
    BY <2>1, ReadKept, QuieterBeside
<1>9. CASE MutationEffect /\ mopen.plan[midx] # "Commit"
  <2>1. Beside /\ UNCHANGED <<image, mfence, mreceipt, mclearing>>
    BY <1>9 DEF MutationEffect
  <2>2. QED
    BY <2>1, ReadKept, QuieterBeside
<1>10. QED
  BY <1>1, <1>2, <1>3, <1>4, <1>5, <1>6, <1>7, <1>8, <1>9

LEMMA QuieterElsewhere ==
  ASSUME TypeInv,
         \/ PlanDisable \/ PlanMutation \/ BootLoad \/ Crash \/ BootDisableReceipt \/ BootReceipts
         \/ UNCHANGED vars
         \/ \E c \in Components : ComponentChanges(c)
  PROVE  UNCHANGED <<image, journal, dfence, mfence>> /\ DisableRecord' = DisableRecord
         /\ MutationRecord' = MutationRecord
<1>1. UNCHANGED <<image, journal, dfence, mfence>>
  BY DEF PlanDisable, PlanMutation, BootLoad, Crash, BootDisableReceipt, BootReceipts,
         ComponentChanges, vars, config
<1>2. /\ \/ UNCHANGED <<dreceipt, dclearing>>
         \/ dreceipt' = DisableRecord /\ dclearing' = None
      /\ \/ UNCHANGED <<mreceipt, mclearing>>
         \/ mreceipt' = MutationRecord /\ mclearing' = None
  BY DEF PlanDisable, PlanMutation, BootLoad, Crash, BootDisableReceipt, BootReceipts,
         ComponentChanges, vars, ledgers, DisableRecord, MutationRecord
<1>3. QED
  BY <1>1, <1>2, ReadKept

LEMMA ExclPublish == ASSUME TypeInv, ExclInv, PublishIntent PROVE ExclInv'
<1> DEFINE r == open["cmd"]
<1>1. /\ UNCHANGED <<image, journal, mfence>> /\ mreceipt' = MutationRecord /\ mclearing' = None
      /\ dclearing' = None /\ r # None
      /\ \/ dfence' = dfence /\ dreceipt' = DisableRecord
         \/ /\ NoReceipts /\ NoTransaction /\ image = r.before
            /\ dfence' = DisableFence(r) \/ dfence' = dfence
            /\ dreceipt' = r \/ dreceipt' = DisableRecord
  BY StepOpen, ThreadsAre, DisableFields DEF PublishIntent, DisableRecord, MutationRecord, DisableSteps
<1>2. MutationRecord' = MutationRecord /\ DisableRecord' = dreceipt'
  BY <1>1 DEF MutationRecord, DisableRecord, Read
<1>3. CASE dfence' = dfence /\ dreceipt' = DisableRecord
  BY <1>1, <1>2, <1>3, ExclFrame
<1>4. CASE /\ NoReceipts /\ NoTransaction /\ image = r.before
           /\ dfence' = DisableFence(r) \/ dfence' = dfence
  <2>1. /\ MutationRecord' = None /\ mfence' = None /\ ~journal'
    BY <1>1, <1>2, <1>4, Opened
  <2>2. dfence' = None \/ dfence'.before = image
    BY <1>4, Opened, StepOpen, FenceFields, ThreadsAre DEF PublishIntent, DisableSteps
  <2>3. LedgersExclude'
    BY <2>1 DEF LedgersExclude
  <2>4. QED
    BY <1>1, <2>1, <2>2, <2>3 DEF ExclInv, Imaged
<1>5. QED
  BY <1>1, <1>3, <1>4

LEMMA ExclCommit == ASSUME TypeInv, ExclInv, CommitConfig PROVE ExclInv'
<1> DEFINE r == open["cmd"]
<1>0. r \in DisableReceipts
  BY StepOpen, ThreadsAre DEF CommitConfig, DisableSteps
<1>1. /\ UNCHANGED <<journal, dfence, mfence>> /\ DisableRecord' = DisableRecord
      /\ MutationRecord' = MutationRecord
      /\ image' = image \/ (dfence = DisableFence(r) /\ image' = r.after)
  BY ReadKept DEF CommitConfig, Apart
<1>2. CASE image' = image
  BY <1>1, <1>2, ExclFrame
<1>3. CASE dfence = DisableFence(r) /\ image' = r.after
  <2>1. dfence # None /\ dfence.after = r.after
    BY <1>0, <1>3, FenceFields
  <2>2. mfence = None
    BY <2>1 DEF ExclInv, LedgersExclude
  <2>3. LedgersExclude'
    BY <1>1 DEF ExclInv, LedgersExclude
  <2>4. QED
    BY <1>1, <1>3, <2>1, <2>2, <2>3 DEF ExclInv, Imaged
<1>4. QED
  BY <1>1, <1>2, <1>3

LEMMA ExclBegin == ASSUME TypeInv, ExclInv, BeginMutation PROVE ExclInv'
<1>1. /\ UNCHANGED <<image, journal, dfence>> /\ dreceipt' = DisableRecord /\ dclearing' = None
      /\ mclearing' = None
      /\ \/ mfence' = mfence /\ mreceipt' = MutationRecord
         \/ /\ NoReceipts /\ NoTransaction /\ image = mopen.before
            /\ mfence' = BeginFence(mopen) \/ mfence' = mfence
            /\ mreceipt' = mopen \/ mreceipt' = MutationRecord
  BY DEF BeginMutation, DisableRecord, MutationRecord
<1>2. DisableRecord' = DisableRecord /\ MutationRecord' = mreceipt'
  BY <1>1 DEF MutationRecord, DisableRecord, Read
<1>3. CASE mfence' = mfence /\ mreceipt' = MutationRecord
  BY <1>1, <1>2, <1>3, ExclFrame
<1>4. CASE /\ NoReceipts /\ NoTransaction /\ image = mopen.before
           /\ mfence' = BeginFence(mopen) \/ mfence' = mfence
  <2>1. /\ DisableRecord' = None /\ dfence' = None /\ ~journal'
    BY <1>1, <1>2, <1>4, Opened
  <2>2. mfence' = None \/ (mfence'.before = image /\ mfence'.phase = "begin")
    BY <1>4, Opened, MOpen, BeginFields DEF BeginMutation, MutationSteps
  <2>3. LedgersExclude'
    BY <2>1 DEF LedgersExclude
  <2>4. QED
    BY <1>1, <2>1, <2>2, <2>3 DEF ExclInv, Imaged
<1>5. QED
  BY <1>1, <1>3, <1>4

LEMMA ExclMQuieter == ASSUME ExclInv, MQuieter PROVE ExclInv'
BY ExclFrame DEF MQuieter
LEMMA ExclQuieter == ASSUME ExclInv, Quieter PROVE ExclInv'
BY ExclFrame DEF Quieter

LEMMA ExclEffect == ASSUME TypeInv, ExclInv, MutationEffect PROVE ExclInv'
<1>1. CASE mopen.plan[midx] # "Commit"
  BY <1>1, MQuieterMutation, ExclMQuieter
<1>2. CASE mopen.plan[midx] = "Commit"
  <2>1. /\ UNCHANGED <<journal, dfence, mfence>> /\ DisableRecord' = DisableRecord
        /\ MutationRecord' = MutationRecord
        /\ image' = image \/ (CanCheckpoint(mopen) /\ image' = mopen.after)
    BY <1>2, ReadKept DEF MutationEffect, Beside, Stops
  <2>2. CASE image' = image
    BY <2>1, <2>2, ExclFrame
  <2>3. CASE CanCheckpoint(mopen) /\ image' = mopen.after
    <3>1. mfence # None /\ mfence.phase = "begin" /\ mfence.after = mopen.after
      BY <2>3, MOpen, BeginFields DEF CanCheckpoint, MutationEffect, MutationSteps
    <3>2. dfence = None
      BY <3>1 DEF ExclInv, LedgersExclude
    <3>3. LedgersExclude'
      BY <2>1 DEF ExclInv, LedgersExclude
    <3>4. QED
      BY <2>1, <2>3, <3>1, <3>2, <3>3 DEF ExclInv, Imaged
  <2>4. QED
    BY <2>1, <2>2, <2>3
<1>3. QED
  BY <1>1, <1>2

LEMMA ExclFinish == ASSUME TypeInv, ExclInv, FinishFence PROVE ExclInv'
<1> DEFINE f == TerminalFence(mopen)
<1>1. /\ UNCHANGED <<image, journal, dfence>> /\ DisableRecord' = DisableRecord
      /\ MutationRecord' = MutationRecord
      /\ mfence' = mfence \/ (mfence' = f /\ mfence = BeginFence(mopen) /\ image = FenceImage(f))
  BY ReadKept DEF FinishFence, Beside
<1>2. CASE mfence' = mfence
  BY <1>1, <1>2, ExclFrame
<1>3. CASE mfence' = f /\ mfence = BeginFence(mopen) /\ image = FenceImage(f)
  <2>1. mfence # None /\ mfence' # None /\ mfence'.phase = "terminal"
    BY <1>3, MOpen, BeginFields, TerminalFields DEF FinishFence, MutationSteps
  <2>2. dfence = None /\ LedgersExclude'
    BY <1>1, <2>1 DEF ExclInv, LedgersExclude
  <2>3. image' = FenceImage(mfence')
    BY <1>1, <1>3
  <2>4. Imaged'
    BY <1>1, <2>1, <2>2, <2>3 DEF Imaged, FenceImage
  <2>5. QED
    BY <2>2, <2>4 DEF ExclInv
<1>4. QED
  BY <1>1, <1>2, <1>3

LEMMA ExclPlain == ASSUME TypeInv, ExclInv, PlainWrite \/ OneClickJournal PROVE ExclInv'
<1>1. CASE PlainWrite
  <2>1. /\ UNCHANGED <<journal, dfence, mfence>> /\ DisableRecord' = DisableRecord
        /\ MutationRecord' = MutationRecord
        /\ image' = image \/ (dfence = None /\ mfence = None)
    BY <1>1, ReadKept DEF PlainWrite, Revive, DisableRecord, MutationRecord
  <2>2. LedgersExclude'
    BY <2>1 DEF ExclInv, LedgersExclude
  <2>3. Imaged'
    BY <2>1 DEF ExclInv, Imaged, FenceImage
  <2>4. QED
    BY <2>2, <2>3 DEF ExclInv
<1>2. CASE OneClickJournal
  <2>1. /\ UNCHANGED <<image, dfence, mfence>> /\ DisableRecord' = DisableRecord
        /\ MutationRecord' = MutationRecord /\ NoReceipts /\ dfence = None /\ mfence = None
    BY <1>2, ReadKept DEF OneClickJournal, ledgers
  <2>2. QED
    BY <2>1, Opened DEF ExclInv, LedgersExclude, Imaged
<1>3. QED
  BY <1>1, <1>2

LEMMA ExclNext == ASSUME TypeInv, ExclInv, [Next]_vars PROVE ExclInv'
<1>1. ASSUME \/ PlanDisable \/ PlanMutation \/ BootLoad \/ Crash \/ BootDisableReceipt \/ BootReceipts
             \/ UNCHANGED vars
             \/ \E c \in Components : ComponentChanges(c)
      PROVE  ExclInv'
  BY <1>1, QuieterElsewhere, ExclFrame
<1>2. ASSUME Command PROVE ExclInv'
  BY <1>2, ThreadsAre, QuieterCommand, QuieterEither, ExclQuieter, ExclPublish, ExclCommit, ExclBegin,
     ExclEffect, ExclFinish, MQuieterMutation, ExclMQuieter
  DEF Command, DisableCommand, MutationCommand
<1>3. ASSUME Boot PROVE ExclInv'
  BY <1>1, <1>3, ThreadsAre, QuieterBoot, QuieterEither, ExclQuieter, MQuieterMutation, ExclMQuieter
  DEF Boot, MutationBoot
<1>4. QED
  BY <1>1, <1>2, <1>3, ExclPlain DEF Next

LEMMA ExclInit == Init => ExclInv
BY DEF Init, ExclInv, LedgersExclude, Imaged, DisableRecord, MutationRecord, Read

LEMMA ExclAlways == Spec => []ExclInv
<1>1. Init => ExclInv
  BY ExclInit
<1>2. TypeInv /\ ExclInv /\ [Next]_vars => ExclInv'
  BY ExclNext
<1>3. QED
  BY <1>1, <1>2, TypeAlways, PTL DEF Spec

(* The two ledgers never both hold a record or a fence, and neither does beside an  *)
(* open runtime journal: the admission of each (NoTransaction, NoReceipts under the *)
(* writer lock) keeps the other out however their clears are interrupted.           *)
THEOREM RecordsExclude == Spec => []LedgersExclude
<1>1. ExclInv => LedgersExclude
  BY DEF ExclInv
<1>2. QED
  BY <1>1, ExclAlways, PTL

-----------------------------------------------------------------------------
(* The mutation ledger tells the truth.                                        *)

\* Where a step of the disable ledger can take a thread, and what it leaves alone.
Walks == DisableSteps \ {"publish"}
Walked(t) ==
  /\ \E x \in Walks \cup {"idle", "read"} : pc' = [pc EXCEPT ![t] = x]
  /\ UNCHANGED <<mopen, midx, mdone, seen, ops>>

LEMMA WalkedAdvance ==
  ASSUME NEW t, Apart, NEW phase, NEW then \in Walks, NEW else \in Walks,
         Advance(t, phase, then, else)
  PROVE  Walked(t)
BY Advancing DEF Walked, Apart

LEMMA WalkedEither == ASSUME NEW t \in Threads, DisableEither(t) PROVE Walked(t)
<1>0. {"clear", "fail", "retain", "project", "science", "gateway", "verify"} \subseteq Walks
  BY DEF Walks, DisableSteps
<1>1. CASE Fail(t)
  BY <1>0, <1>1 DEF Fail, Goto, Walked, Apart
<1>2. CASE Project(t)
  BY <1>2 DEF Project, Finish, Goto, Walked, Apart
<1>3. CASE Retain(t)
  BY <1>0, <1>3, WalkedAdvance DEF Retain
<1>4. CASE Committed(t)
  BY <1>0, <1>4, WalkedAdvance DEF Committed
<1>5. CASE ClearReceipt(t)
  BY <1>5 DEF ClearReceipt, Goto, Walked, Apart, Walks, DisableSteps
<1>6. CASE ClearFence(t)
  BY <1>6 DEF ClearFence, Finish, Goto, Walked, Apart, Walks, DisableSteps
<1>7. CASE RestoreCheck(t)
  BY <1>7 DEF RestoreCheck, Goto, Walked, Apart, Walks, DisableSteps
<1>8. CASE Restoring(t)
  BY <1>0, <1>8, WalkedAdvance DEF Restoring
<1>9. CASE RestoreScience(t) \/ RestoreGateway(t)
  BY <1>9 DEF RestoreScience, RestoreGateway, Restart, Goto, Walked, Apart, Walks, DisableSteps
<1>10. CASE Restored(t)
  <2>1. CASE Advance(t, Phase("Restored", "none", stopped[t]), "clear", "project")
    BY <1>0, <1>10, <2>1, WalkedAdvance DEF Restored
  <2>2. CASE Goto(t, "project") /\ UNCHANGED seen
    BY <1>10, <2>2 DEF Restored, Goto, Walked, Apart, Walks, DisableSteps
  <2>3. QED
    BY <1>10, <2>1, <2>2 DEF Restored
<1>11. QED
  BY <1>1, <1>2, <1>3, <1>4, <1>5, <1>6, <1>7, <1>8, <1>9, <1>10 DEF DisableEither

LEMMA WalkedCommand == ASSUME DisableCommand PROVE Walked("cmd")
<1>0. /\ {"lease", "retain", "commit", "stopping", "restore"} \subseteq Walks
      /\ RestoreOr("unstarted") \in Walks /\ RestoreOr("retain") \in Walks
      /\ RestoreOr("clear") \in Walks
  BY DEF Walks, DisableSteps, RestoreOr
<1>1. CASE PublishIntent
  BY <1>1 DEF PublishIntent, Goto, Walked, Walks, DisableSteps
<1>2. CASE Reconcile
  BY <1>2 DEF Reconcile, Finish, Goto, Walked, Apart, Walks, DisableSteps
<1>3. CASE Stopping
  <2>1. /\ Apart
        /\ \E else \in Walks : \E p : Advance("cmd", p, "lease", else)
    BY <1>0, <1>3 DEF Stopping
  <2>2. QED
    BY <1>0, <2>1, WalkedAdvance
<1>4. CASE EffectLease
  BY <1>0, <1>4 DEF EffectLease, Goto, Walked, Apart, Walks, DisableSteps
<1>5. CASE Effect
  BY <1>5 DEF Effect, Goto, Walked, Apart, Walks, DisableSteps
<1>6. CASE EffectsApplied
  BY <1>0, <1>6, WalkedAdvance DEF EffectsApplied
<1>7. CASE Unproved
  BY <1>0, <1>7 DEF Unproved, Goto, Walked, Apart, Walks, DisableSteps
<1>8. CASE CommitConfig
  BY <1>8 DEF CommitConfig, Goto, Walked, Apart, Walks, DisableSteps
<1>9. QED
  BY <1>1, <1>2, <1>3, <1>4, <1>5, <1>6, <1>7, <1>8 DEF DisableCommand

LEMMA WalkedBoot == ASSUME DisableBoot PROVE Walked("boot")
<1>1. CASE BootOrphanFence
  BY <1>1 DEF BootOrphanFence, Finish, Goto, Walked, Apart, Walks, DisableSteps
<1>2. CASE BootRead
  BY <1>2 DEF BootRead, Finish, Goto, Walked, Apart, Walks, DisableSteps
<1>3. CASE BootImage
  BY <1>3 DEF BootImage, Goto, Walked, Apart, Walks, DisableSteps
<1>4. CASE BootReplay
  BY <1>4 DEF BootReplay, Goto, Walked, Apart, Walks, DisableSteps
<1>5. QED
  BY <1>1, <1>2, <1>3, <1>4 DEF DisableBoot

LEMMA MutationFrame ==
  ASSUME TypeInv, MutationInv, mfence' = mfence, MutationRecord' = MutationRecord,
         mdone' = mdone, mfence # None => image' = image,
         pc'["cmd"] \in MutationSteps => pc'["cmd"] = pc["cmd"] /\ UNCHANGED <<mopen, midx>>,
         pc'["boot"] = "b_clear" => pc["boot"] = "b_clear" /\ UNCHANGED seen
  PROVE  MutationInv'
<1>1. MRecordTold'
  BY DEF MutationInv, MRecordTold
<1>2. MAnchored' /\ MTerminal'
  BY DEF MutationInv, MAnchored, MTerminal
<1>3. MOrphaned'
  BY DEF MutationInv, MOrphaned
<1>4. MSection'
  <2>1. CASE pc'["cmd"] \in MutationSteps
    BY <2>1 DEF MutationInv, MSection, MutationSteps
  <2>2. CASE pc'["cmd"] \notin MutationSteps
    BY <2>2 DEF MutationInv, MSection, MutationSteps
  <2>3. QED
    BY <2>1, <2>2
<1>5. QED
  BY <1>1, <1>2, <1>3, <1>4 DEF MutationInv

LEMMA WalkedPast ==
  ASSUME TypeInv, NEW t \in Threads, Walked(t)
  PROVE  /\ pc'["cmd"] \in MutationSteps => pc'["cmd"] = pc["cmd"] /\ UNCHANGED <<mopen, midx>>
         /\ pc'["boot"] = "b_clear" => pc["boot"] = "b_clear" /\ UNCHANGED seen
         /\ mdone' = mdone
<1>1. PICK x \in Walks \cup {"idle", "read"} : pc' = [pc EXCEPT ![t] = x]
  BY DEF Walked
<1>2. x \notin MutationSteps /\ x # "b_clear"
  BY DEF Walks, DisableSteps, MutationSteps
<1>3. \A u \in Threads : pc'[u] = IF u = t THEN x ELSE pc[u]
  BY <1>1 DEF TypeInv, TypeOK
<1>4. QED
  BY <1>2, <1>3, ThreadsAre DEF Walked

LEMMA MutationOfDisable ==
  ASSUME TypeInv, ExclInv, MutationInv,
         DisableCommand \/ DisableBoot \/ \E t \in Threads : DisableEither(t)
  PROVE  MutationInv'
<1>1. \E t \in Threads : Walked(t)
  BY WalkedCommand, WalkedBoot, WalkedEither, ThreadsAre
<1>2. CASE Quieter
  BY <1>1, <1>2, WalkedPast, MutationFrame DEF Quieter
<1>3. CASE PublishIntent
  <2>1. mfence' = mfence /\ image' = image /\ mreceipt' = MutationRecord /\ mclearing' = None
    BY <1>3 DEF PublishIntent, MutationRecord
  <2>2. QED
    BY <1>1, <2>1, ReadKept, WalkedPast, MutationFrame
<1>4. CASE CommitConfig
  <2>1. /\ mfence' = mfence /\ MutationRecord' = MutationRecord
        /\ image' = image \/ dfence # None
    <3>1. open["cmd"] \in DisableReceipts
      BY <1>4, StepOpen, ThreadsAre DEF CommitConfig, DisableSteps
    <3>2. QED
      BY <1>4, <3>1, FenceFields, ReadKept DEF CommitConfig, Apart
  <2>2. mfence # None => image' = image
    BY <2>1 DEF ExclInv, LedgersExclude
  <2>3. QED
    BY <1>1, <2>1, <2>2, WalkedPast, MutationFrame
<1>5. QED
  BY <1>2, <1>3, <1>4, QuieterCommand, QuieterBoot, QuieterEither DEF DisableCommand

\* What the section of the command demands at a step, given by its values.
LEMMA MSectionMade ==
  ASSUME TypeInv, MSection, NEW x, x # "m_begin", pc' = [pc EXCEPT !["cmd"] = x], seen' = seen,
         x \in {"m_open", "m_effect", "m_record", "m_uncertain"} =>
           mfence' = BeginFence(mopen)' /\ MutationRecord' = mopen' /\ mopen'.terminal = NoTerminal,
         x \in {"m_open", "m_effect"} => mdone' = 1..(midx' - 1),
         x = "m_effect" => mopen'.effects[midx'] # "Pending",
         x = "m_record" => mdone' = 1..midx' /\ mopen'.effects[midx'] # "Succeeded",
         x = "m_complete" => mdone' = DOMAIN mopen'.plan,
         x = "m_clear" => mopen'.terminal.state = "completed"
  PROVE  MSection'
<1>1. pc'["cmd"] = x /\ pc'["boot"] = pc["boot"]
  BY ThreadsAre DEF TypeInv, TypeOK
<1>2. QED
  BY <1>1 DEF MSection

LEMMA CheckedMutation ==
  ASSUME TypeInv, MutationInv, pc["cmd"] \in MutationSteps, Beside, Unaffected,
         NEW next, next.op = mopen.op, NEW then, NEW else, Checkpoint(next, then, else),
         MutationRecord = mopen => Truthful(next, mdone)
  PROVE  MRecordTold' /\ MAnchored' /\ MTerminal' /\ MOrphaned'
<1>1. /\ MutationRecord' = MutationRecord \/ (MutationRecord = mopen /\ MutationRecord' = next)
      /\ UNCHANGED <<image, mfence, mdone>>
  BY CheckedRecord DEF Unaffected
<1>2. mopen # None /\ next # None
  BY MOpen, MutationFields DEF None
<1>3. MRecordTold'
  BY <1>1 DEF MutationInv, MRecordTold
<1>4. MAnchored'
  BY <1>1, <1>2 DEF MutationInv, MAnchored
<1>5. MTerminal'
  BY <1>1 DEF MutationInv, MTerminal
<1>6. MOrphaned'
  BY <1>1, <1>2 DEF MutationInv, MOrphaned
<1>7. QED
  BY <1>3, <1>4, <1>5, <1>6

LEMMA MutationOpenEffect == ASSUME TypeInv, MutationInv, OpenEffect PROVE MutationInv'
<1> DEFINE todo == ToOpen(mopen, midx)
           i == First(todo)
           next == WithEffect(mopen, i, "InProgress")
<1>1. /\ pc["cmd"] = "m_open" /\ pc["cmd"] \in MutationSteps /\ Beside /\ Unaffected /\ midx' = midx
      /\ Shaped(mopen) /\ midx \in DOMAIN mopen.plan /\ mdone' = mdone
  BY MOpen DEF OpenEffect, MutationSteps, Unaffected
<1>2. /\ mfence = BeginFence(mopen) /\ MutationRecord = mopen /\ mdone = 1..(midx - 1)
      /\ mopen.terminal = NoTerminal /\ mopen # None
  BY <1>1, MutationFields DEF MutationInv, MSection, Shaped
<1>3. CASE todo = {} /\ Goto("cmd", "m_effect")
           /\ UNCHANGED <<image, mfence, mreceipt, mclearing, mopen, seen>>
  <2>1. mopen.effects[midx] # "Pending"
    BY <1>1, <1>3 DEF ToOpen
  <2>2. MutationRecord' = MutationRecord
    BY <1>3, ReadKept
  <2>3. MSection'
    BY <1>1, <1>2, <1>3, <2>1, <2>2, MSectionMade DEF Goto, MutationInv
  <2>4. QED
    BY <1>1, <1>3, <2>2, <2>3 DEF MutationInv, MRecordTold, MAnchored, MTerminal, MOrphaned
<1>4. CASE todo # {} /\ Checkpoint(next, "m_open", AttentionAt(mopen, midx))
  <2>1. i \in DOMAIN mopen.plan
    <3>1. PICK n \in 1..3 : DOMAIN mopen.plan = 1..n
      BY <1>1, PlanDomain
    <3>2. todo \in SUBSET (1..n)
      BY <3>1 DEF ToOpen
    <3>3. QED
      BY <1>4, <3>1, <3>2, FirstIn
  <2>2. /\ Shaped(next) /\ next.op = mopen.op /\ next.terminal = mopen.terminal
        /\ next.effects = [mopen.effects EXCEPT ![i] = "InProgress"]
        /\ BeginFence(next) = BeginFence(mopen)
    BY <1>1, <2>1, Withed DEF EffectStates
  <2>3. Truthful(next, mdone)
    BY <1>1, <1>2, <2>1, <2>2 DEF MutationInv, MRecordTold, Truthful, Shaped, NoTerminal
  <2> HIDE DEF next, i, todo
  <2>4. MRecordTold' /\ MAnchored' /\ MTerminal' /\ MOrphaned'
    BY <1>1, <1>4, <2>2, <2>3, CheckedMutation
  <2>5. /\ \/ MutationRecord' = next /\ mopen' = next /\ pc' = [pc EXCEPT !["cmd"] = "m_open"]
           \/ mopen' = mopen /\ pc' = [pc EXCEPT !["cmd"] = AttentionAt(mopen, midx)]
        /\ UNCHANGED <<mfence, seen>>
    BY <1>1, <1>4, CheckedRecord
  <2>6. MSection'
    <3>1. CASE MutationRecord' = next /\ mopen' = next /\ pc' = [pc EXCEPT !["cmd"] = "m_open"]
      BY <1>1, <1>2, <2>2, <2>5, <3>1, MSectionMade DEF MutationInv
    <3>2. CASE mopen' = mopen /\ pc' = [pc EXCEPT !["cmd"] = AttentionAt(mopen, midx)]
      <4>1. AttentionAt(mopen, midx) \in {"m_before", "m_after"}
        BY AttentionPlain
      <4>2. QED
        BY <2>5, <3>2, <4>1, MSectionMade DEF MutationInv
    <3>3. QED
      BY <2>5, <3>1, <3>2
  <2>7. QED
    BY <2>4, <2>6 DEF MutationInv
<1>5. QED
  BY <1>3, <1>4 DEF OpenEffect

LEMMA MutationRecordEffect == ASSUME TypeInv, MutationInv, RecordEffect PROVE MutationInv'
<1> DEFINE next == WithEffect(mopen, midx, "Succeeded")
           then == IF midx = Len(mopen.plan) THEN "m_complete" ELSE "m_open"
           else == AttentionAt(mopen, midx + 1)
<1>1. /\ pc["cmd"] = "m_record" /\ pc["cmd"] \in MutationSteps /\ Beside /\ Unaffected
      /\ Shaped(mopen) /\ midx \in DOMAIN mopen.plan /\ mdone' = mdone
      /\ Checkpoint(next, then, else)
      /\ midx' = IF mopen' = mopen \/ midx = Len(mopen.plan) THEN midx ELSE midx + 1
  BY MOpen DEF RecordEffect, MutationSteps, Unaffected
<1>2. /\ mfence = BeginFence(mopen) /\ MutationRecord = mopen /\ mdone = 1..midx
      /\ mopen.effects[midx] # "Succeeded" /\ mopen.terminal = NoTerminal /\ mopen # None
  BY <1>1, MutationFields DEF MutationInv, MSection, Shaped
<1>3. /\ Shaped(next) /\ next.op = mopen.op /\ next.terminal = mopen.terminal /\ next.plan = mopen.plan
      /\ next.effects = [mopen.effects EXCEPT ![midx] = "Succeeded"]
      /\ BeginFence(next) = BeginFence(mopen)
  BY <1>1, Withed DEF EffectStates
<1>4. next # mopen
  BY <1>1, <1>2, <1>3 DEF Shaped
<1>5. PICK n \in 1..3 : DOMAIN mopen.plan = 1..n /\ Len(mopen.plan) = n
  BY <1>1, PlanDomain
<1>6. midx \in mdone
  BY <1>1, <1>2, <1>5
<1>7. Truthful(next, mdone)
  BY <1>1, <1>2, <1>3, <1>6 DEF MutationInv, MRecordTold, Truthful, Shaped, NoTerminal
<1> HIDE DEF next
<1>8. MRecordTold' /\ MAnchored' /\ MTerminal' /\ MOrphaned'
  BY <1>1, <1>3, <1>7, CheckedMutation
<1>9. /\ \/ MutationRecord' = next /\ mopen' = next /\ pc' = [pc EXCEPT !["cmd"] = then]
         \/ mopen' = mopen /\ pc' = [pc EXCEPT !["cmd"] = else]
      /\ UNCHANGED <<mfence, seen>>
  BY <1>1, CheckedRecord
<1>10. MSection'
  <2>1. ASSUME MutationRecord' = next, mopen' = next, pc' = [pc EXCEPT !["cmd"] = "m_complete"],
               midx = Len(mopen.plan)
        PROVE  MSection'
    <3>1. mdone' = DOMAIN mopen'.plan
      BY <1>1, <1>2, <1>3, <1>5, <2>1
    <3>2. QED
      BY <1>9, <2>1, <3>1, MSectionMade DEF MutationInv
  <2>2. ASSUME MutationRecord' = next, mopen' = next, pc' = [pc EXCEPT !["cmd"] = "m_open"],
               midx # Len(mopen.plan)
        PROVE  MSection'
    <3>1. midx' = midx + 1 /\ mdone' = 1..(midx' - 1)
      BY <1>1, <1>2, <1>4, <1>5, <2>2
    <3>2. QED
      BY <1>2, <1>3, <1>9, <2>2, <3>1, MSectionMade DEF MutationInv
  <2>3. ASSUME pc' = [pc EXCEPT !["cmd"] = else] PROVE MSection'
    <3>1. else \in {"m_before", "m_after"}
      BY AttentionPlain
    <3>2. QED
      BY <1>9, <2>3, <3>1, MSectionMade DEF MutationInv
  <2>4. QED
    BY <1>9, <2>1, <2>2, <2>3
<1>11. QED
  BY <1>8, <1>10 DEF MutationInv

LEMMA MutationUncertain == ASSUME TypeInv, MutationInv, RecordUncertain PROVE MutationInv'
<1> DEFINE next == WithEffect(mopen, midx, "Uncertain")
           else == AttentionAt(mopen, midx)
<1>1. /\ pc["cmd"] = "m_uncertain" /\ pc["cmd"] \in MutationSteps /\ Beside /\ Unaffected
      /\ Shaped(mopen) /\ midx \in DOMAIN mopen.plan /\ Checkpoint(next, else, else)
  BY MOpen DEF RecordUncertain, MutationSteps
<1>2. MutationRecord = mopen /\ mopen # None
  BY <1>1, MutationFields DEF MutationInv, MSection, Shaped
<1>3. /\ next.op = mopen.op /\ next.terminal = mopen.terminal /\ next.plan = mopen.plan
      /\ next.effects = [mopen.effects EXCEPT ![midx] = "Uncertain"]
  BY <1>1, Withed DEF EffectStates
<1>4. Truthful(next, mdone)
  BY <1>1, <1>2, <1>3 DEF MutationInv, MRecordTold, Truthful, Shaped
<1> HIDE DEF next
<1>5. MRecordTold' /\ MAnchored' /\ MTerminal' /\ MOrphaned'
  BY <1>1, <1>3, <1>4, CheckedMutation
<1>6. pc' = [pc EXCEPT !["cmd"] = else] /\ seen' = seen
  BY <1>1, CheckedRecord
<1>7. else \in {"m_before", "m_after"}
  BY AttentionPlain
<1>8. MSection'
  BY <1>6, <1>7, MSectionMade DEF MutationInv
<1>9. QED
  BY <1>5, <1>8 DEF MutationInv

LEMMA MutationFinishReceipt == ASSUME TypeInv, MutationInv, FinishReceipt PROVE MutationInv'
<1> DEFINE x == CASE pc["cmd"] = "m_complete" -> [state |-> "completed", config |-> "after"]
                  [] pc["cmd"] = "m_before" -> [state |-> "attention", config |-> "before"]
                  [] OTHER -> [state |-> "attention", config |-> "after"]
           next == [mopen EXCEPT !.terminal = x]
<1>1. /\ pc["cmd"] \in {"m_complete", "m_before", "m_after"} /\ pc["cmd"] \in MutationSteps
      /\ Beside /\ Unaffected /\ Shaped(mopen) /\ Checkpoint(next, "m_fence", "m_end")
  BY MOpen DEF FinishReceipt, MutationSteps
<1>2. x \in Terminals
  BY <1>1 DEF Terminals
<1>3. x.state = "completed" => x.config = "after" /\ pc["cmd"] = "m_complete"
  BY <1>1
<1> HIDE DEF x
<1>4. /\ next.op = mopen.op /\ next.terminal = x /\ next.plan = mopen.plan
      /\ next.effects = mopen.effects
  BY <1>1, <1>2, Ended
<1>5. ASSUME MutationRecord = mopen PROVE Truthful(next, mdone)
  <2>1. mopen # None
    BY <1>1, MutationFields DEF Shaped
  <2>2. Truthful(mopen, mdone)
    BY <1>5, <2>1 DEF MutationInv, MRecordTold
  <2>3. x.state = "completed" => mdone = DOMAIN mopen.plan
    BY <1>3 DEF MutationInv, MSection
  <2>4. QED
    BY <1>3, <1>4, <2>2, <2>3 DEF Truthful
<1> HIDE DEF next
<1>6. MRecordTold' /\ MAnchored' /\ MTerminal' /\ MOrphaned'
  BY <1>1, <1>4, <1>5, CheckedMutation
<1>7. seen' = seen /\ \E y \in {"m_fence", "m_end"} : pc' = [pc EXCEPT !["cmd"] = y]
  BY <1>1, CheckedRecord
<1>8. MSection'
  BY <1>7, MSectionMade DEF MutationInv
<1>9. QED
  BY <1>6, <1>8 DEF MutationInv

LEMMA MutationFinishFence == ASSUME TypeInv, MutationInv, FinishFence PROVE MutationInv'
<1> DEFINE f == TerminalFence(mopen)
           exact == mreceipt = mopen /\ mfence = BeginFence(mopen) /\ image = FenceImage(f)
<1>1. /\ pc["cmd"] \in MutationSteps /\ Shaped(mopen) /\ mopen # None /\ mopen \in MutationReceipts
      /\ UNCHANGED <<image, mdone, mopen, midx, seen>> /\ MutationRecord' = MutationRecord
      /\ mfence' = mfence \/ (exact /\ mfence' = f)
      /\ \/ pc' = [pc EXCEPT !["cmd"] = "m_clear"] /\ mopen.terminal.state = "completed"
         \/ pc' = [pc EXCEPT !["cmd"] = "m_end"]
  BY MOpen, MutationFields, ReadKept DEF FinishFence, MutationSteps, Beside, Unaffected, Goto
<1>2. MSection'
  BY <1>1, MSectionMade DEF MutationInv
<1>3. CASE mfence' = mfence
  BY <1>1, <1>2, <1>3 DEF MutationInv, MRecordTold, MAnchored, MTerminal, MOrphaned
<1>4. CASE exact /\ mfence' = f
  <2>1. MutationRecord = mopen
    BY <1>1, <1>4, MKept DEF MutationRecord, Read
  <2>2. /\ f # None /\ f.op = mopen.op /\ f.phase = "terminal" /\ f.receipt = mopen
        /\ f.config = mopen.terminal.config
    BY <1>1, TerminalFields
  <2> HIDE DEF f
  <2>3. Truthful(mopen, mdone)
    BY <1>1, <2>1 DEF MutationInv, MRecordTold
  <2>4. MTerminal'
    BY <1>1, <1>4, <2>2, <2>3 DEF MTerminal, Truthful
  <2>5. QED
    BY <1>1, <1>2, <1>4, <2>1, <2>2, <2>4 DEF MutationInv, MRecordTold, MAnchored, MOrphaned
<1>5. QED
  BY <1>1, <1>3, <1>4

\* The ordered cleanup behind a completed terminal fence.
LEMMA ClearedMutation ==
  ASSUME TypeInv, MutationInv, NEW r \in MutationReceipts, r.terminal.state = "completed",
         NEW left, ClearMutation(TerminalFence(r), r, left), UNCHANGED <<image, mdone>>
  PROVE  MRecordTold' /\ MAnchored' /\ MTerminal' /\ MOrphaned'
<1>1. /\ MutationRecord' \in {MutationRecord, None} /\ mfence' \in {None, mfence}
      /\ MutationRecord' # MutationRecord => mfence = TerminalFence(r) /\ MutationRecord = r
      /\ mfence' # mfence => MutationRecord' = None
  BY ClearedRecord
<1>2. TerminalFence(r).phase = "terminal" /\ TerminalFence(r).receipt = r
  BY TerminalFields
<1>3. MRecordTold' /\ MAnchored' /\ MTerminal'
  BY <1>1 DEF MutationInv, MRecordTold, MAnchored, MTerminal
<1>4. MOrphaned'
  BY <1>1, <1>2 DEF MutationInv, MOrphaned
<1>5. QED
  BY <1>3, <1>4

LEMMA MutationFinishClear == ASSUME TypeInv, MutationInv, FinishClear PROVE MutationInv'
<1>1. PICK left : /\ ClearMutation(TerminalFence(mopen), mopen, left)
                  /\ Finish("cmd", IF left = "none" THEN "ok" ELSE "attention")
  BY DEF FinishClear
<1>2. /\ pc' = [pc EXCEPT !["cmd"] = "idle"] /\ UNCHANGED <<image, mdone, seen>>
      /\ mopen.terminal.state = "completed" /\ mopen \in MutationReceipts
  BY <1>1, MOpen DEF FinishClear, Finish, Goto, Unaffected, MutationInv, MSection, MutationSteps
<1>3. MRecordTold' /\ MAnchored' /\ MTerminal' /\ MOrphaned'
  BY <1>1, <1>2, ClearedMutation
<1>4. MSection'
  BY <1>2, MSectionMade DEF MutationInv
<1>5. QED
  BY <1>3, <1>4 DEF MutationInv

LEMMA MutationBegin == ASSUME TypeInv, MutationInv, BeginMutation PROVE MutationInv'
<1>0. /\ pc["cmd"] = "m_begin" /\ Shaped(mopen) /\ mopen \in MutationReceipts /\ mopen # None
      /\ mdone = {} /\ midx = 1 /\ mopen.terminal = NoTerminal
      /\ \A i \in DOMAIN mopen.effects : mopen.effects[i] = "Pending"
  BY MOpen, MutationFields DEF BeginMutation, MutationSteps, MutationInv, MSection
<1>1. PICK fenced \in BOOLEAN, written \in BOOLEAN, good \in BOOLEAN :
        /\ written => fenced
        /\ good => written
        /\ fenced => NoReceipts /\ NoTransaction /\ image = mopen.before
        /\ mfence' = IF fenced THEN BeginFence(mopen) ELSE mfence
        /\ mreceipt' = IF written THEN mopen ELSE MutationRecord
        /\ IF good THEN Goto("cmd", "m_open") ELSE Finish("cmd", "failed")
  BY DEF BeginMutation, MutationRecord
<1>2. UNCHANGED <<image, mopen, midx, mdone, seen>> /\ mclearing' = None
  BY DEF BeginMutation, Unaffected
<1>3. MutationRecord' = IF written THEN mopen ELSE MutationRecord
  BY <1>1, <1>2 DEF MutationRecord, Read
<1>4. fenced => MutationRecord = None /\ mfence = None
  BY <1>1, Opened
<1>5. /\ BeginFence(mopen) # None /\ BeginFence(mopen).op = mopen.op
      /\ BeginFence(mopen).phase = "begin" /\ BeginFence(mopen).before = mopen.before
  BY <1>0, BeginFields
<1>6. MRecordTold'
  BY <1>0, <1>2, <1>3 DEF MutationInv, MRecordTold, Truthful, NoTerminal
<1>7. MAnchored'
  BY <1>1, <1>3, <1>4, <1>5 DEF MutationInv, MAnchored
<1>8. MTerminal'
  BY <1>1, <1>2, <1>5 DEF MutationInv, MTerminal
<1>9. MOrphaned'
  BY <1>0, <1>1, <1>2, <1>3, <1>5 DEF MutationInv, MOrphaned
<1>10. MSection'
  <2>1. CASE good
    <3>1. pc' = [pc EXCEPT !["cmd"] = "m_open"]
      BY <1>1, <2>1 DEF Goto
    <3>2. mdone' = 1..(midx' - 1)
      BY <1>0, <1>2
    <3>3. MutationRecord' = mopen' /\ mfence' = BeginFence(mopen)'
      BY <1>1, <1>2, <1>3, <2>1
    <3>4. QED
      BY <1>0, <1>2, <3>1, <3>2, <3>3, MSectionMade DEF MutationInv
  <2>2. CASE ~good
    <3>1. pc' = [pc EXCEPT !["cmd"] = "idle"]
      BY <1>1, <2>2 DEF Finish, Goto
    <3>2. QED
      BY <1>2, <3>1, MSectionMade DEF MutationInv
  <2>3. QED
    BY <2>1, <2>2
<1>11. QED
  BY <1>6, <1>7, <1>8, <1>9, <1>10 DEF MutationInv

LEMMA MutationMutationEffect == ASSUME TypeInv, MutationInv, MutationEffect PROVE MutationInv'
<1>0. /\ pc["cmd"] = "m_effect" /\ Shaped(mopen) /\ mopen # None /\ midx \in DOMAIN mopen.plan
  BY MOpen, MutationFields DEF MutationEffect, MutationSteps, Shaped
<1>1. /\ mfence = BeginFence(mopen) /\ MutationRecord = mopen /\ mdone = 1..(midx - 1)
      /\ mopen.effects[midx] # "Pending" /\ mopen.terminal = NoTerminal
  BY <1>0 DEF MutationInv, MSection
<1>2. UNCHANGED <<mfence, mopen, midx, seen>> /\ MutationRecord' = MutationRecord
  BY ReadKept DEF MutationEffect
<1>3. \/ mdone' = mdone \cup {midx} /\ pc' = [pc EXCEPT !["cmd"] = "m_record"]
      \/ /\ mdone' \in {mdone, mdone \cup {midx}}
         /\ \E x \in {"m_before", "m_uncertain"} : pc' = [pc EXCEPT !["cmd"] = x]
  BY DEF MutationEffect, Goto
<1>4. PICK n \in 1..3 : DOMAIN mopen.plan = 1..n
  BY <1>0, PlanDomain
<1>5. mdone \cup {midx} = 1..midx
  BY <1>0, <1>1, <1>4
<1>6. mopen.effects[midx] # "Succeeded"
  BY <1>0, <1>1, <1>4 DEF MutationInv, MRecordTold, Truthful, Shaped
<1>7. MRecordTold'
  BY <1>0, <1>1, <1>2, <1>3 DEF MutationInv, MRecordTold, Truthful, NoTerminal
<1>8. MAnchored'
  BY <1>2 DEF MutationInv, MAnchored
<1>9. MTerminal' /\ MOrphaned'
  BY <1>0, <1>1, <1>2, BeginFields DEF MTerminal, MOrphaned, Shaped
<1>10. MSection'
  <2>1. ASSUME mdone' = mdone \cup {midx}, pc' = [pc EXCEPT !["cmd"] = "m_record"] PROVE MSection'
    BY <1>1, <1>2, <1>5, <1>6, <2>1, MSectionMade DEF MutationInv
  <2>2. ASSUME NEW x \in {"m_before", "m_uncertain"}, pc' = [pc EXCEPT !["cmd"] = x] PROVE MSection'
    BY <1>1, <1>2, <2>2, MSectionMade DEF MutationInv
  <2>3. QED
    BY <1>3, <2>1, <2>2
<1>11. QED
  BY <1>7, <1>8, <1>9, <1>10 DEF MutationInv

LEMMA MutationEnd == ASSUME TypeInv, MutationInv, MutationAttention PROVE MutationInv'
<1>1. /\ UNCHANGED <<mfence, image, mdone, mopen, midx, seen>> /\ MutationRecord' = MutationRecord
      /\ pc' = [pc EXCEPT !["cmd"] = "idle"]
  BY ReadKept DEF MutationAttention, Finish, Goto, Unaffected
<1>2. pc'["cmd"] \notin MutationSteps /\ pc'["boot"] = pc["boot"]
  BY <1>1, ThreadsAre DEF TypeInv, TypeOK, MutationSteps
<1>3. QED
  BY <1>1, <1>2, MutationFrame

\* Where a step of the boot decision leaves the command alone.
LEMMA BootApart ==
  ASSUME TypeInv, NEW x, pc' = [pc EXCEPT !["boot"] = x]
  PROVE  pc'["cmd"] = pc["cmd"] /\ pc'["boot"] = x
BY ThreadsAre DEF TypeInv, TypeOK

LEMMA MutationBootDisable == ASSUME TypeInv, MutationInv, BootDisableReceipt PROVE MutationInv'
<1>1. /\ UNCHANGED <<image, mfence>> /\ MutationRecord' = MutationRecord
      /\ UNCHANGED <<mdone, mopen, midx>>
  BY QuieterElsewhere DEF BootDisableReceipt, world
<1>2. PICK x \in {"idle", "b_mutation"} : pc' = [pc EXCEPT !["boot"] = x]
  BY DEF BootDisableReceipt, Goto, Finish
<1>3. pc'["cmd"] = pc["cmd"] /\ pc'["boot"] = x
  BY <1>2, BootApart
<1>4. QED
  BY <1>1, <1>2, <1>3, MutationFrame

LEMMA MutationBootReceipts == ASSUME TypeInv, MutationInv, BootReceipts PROVE MutationInv'
<1>1. /\ UNCHANGED <<image, mfence>> /\ MutationRecord' = MutationRecord
      /\ UNCHANGED <<mdone, mopen, midx>>
  BY QuieterElsewhere DEF BootReceipts, world
<1>2. PICK x \in {"orphan", "idle", "b_orphan", "b_clear"} :
        /\ pc' = [pc EXCEPT !["boot"] = x]
        /\ x = "b_clear" =>
             /\ seen'.receipt # None /\ seen'.mfence = TerminalFence(seen'.receipt)
             /\ seen'.receipt.terminal.state = "completed"
  <2> DEFINE m == MutationRecord
             mutation == m # None \/ seen.mfence # None
             terminal == /\ seen.mfence # None /\ m # None
                         /\ m.terminal.state = "completed" /\ seen.mfence = TerminalFence(m)
             next == CASE seen.disable /\ mutation -> "attention"
                       [] ~mutation -> "orphan"
                       [] seen.journal -> "attention"
                       [] m = None -> "b_orphan"
                       [] OTHER -> IF terminal THEN "b_clear" ELSE "attention"
  <2>1. \/ /\ seen' = [seen EXCEPT !.receipt = m]
           /\ IF next = "attention" THEN Finish("boot", "attention") ELSE Goto("boot", next) /\ Unreported
        \/ Finish("boot", "attention")
    BY DEF BootReceipts, MutationRecord
  <2>2. next \in {"attention", "orphan", "b_orphan", "b_clear"} /\ (next = "b_clear" => terminal)
    OBVIOUS
  <2> HIDE DEF next, m
  <2>3. CASE next = "attention" \/ Finish("boot", "attention")
    BY <2>1, <2>3 DEF Finish, Goto
  <2>4. CASE next # "attention" /\ ~Finish("boot", "attention")
    <3>1. pc' = [pc EXCEPT !["boot"] = next] /\ next \in {"orphan", "b_orphan", "b_clear"}
      BY <2>1, <2>2, <2>4 DEF Goto
    <3>2. next = "b_clear" => /\ seen'.receipt # None /\ seen'.mfence = TerminalFence(seen'.receipt)
                              /\ seen'.receipt.terminal.state = "completed"
      <4>1. seen' = [seen EXCEPT !.receipt = m]
        BY <2>1, <2>4
      <4>2. seen'.receipt = m /\ seen'.mfence = seen.mfence
        BY <4>1 DEF TypeInv, TypeOK
      <4>3. QED
        BY <2>2, <4>2
    <3>3. QED
      BY <3>1, <3>2
  <2>5. QED
    BY <2>3, <2>4
<1>3. pc'["cmd"] = pc["cmd"] /\ pc'["boot"] = x
  BY <1>2, BootApart
<1>4. MRecordTold' /\ MAnchored' /\ MTerminal' /\ MOrphaned'
  BY <1>1 DEF MutationInv, MRecordTold, MAnchored, MTerminal, MOrphaned
<1>5. MSection'
  BY <1>1, <1>2, <1>3 DEF MutationInv, MSection
<1>6. QED
  BY <1>4, <1>5 DEF MutationInv

LEMMA MutationBootClear == ASSUME TypeInv, MutationInv, BootClear PROVE MutationInv'
<1> DEFINE r == seen.receipt
<1>1. /\ pc["boot"] = "b_clear" /\ UNCHANGED <<image, mdone, mopen, midx, seen>>
  BY DEF BootClear, Unaffected
<1>2. /\ r \in MutationReceipts /\ seen.mfence = TerminalFence(r)
      /\ r.terminal.state = "completed"
  BY <1>1, MKept DEF MutationInv, MSection
<1>3. PICK left : /\ ClearMutation(TerminalFence(r), r, left)
                  /\ \/ Goto("boot", "orphan") \/ Finish("boot", "attention")
  BY <1>2 DEF BootClear
<1>4. PICK x \in {"orphan", "idle"} : pc' = [pc EXCEPT !["boot"] = x]
  BY <1>3 DEF Goto, Finish
<1>5. MRecordTold' /\ MAnchored' /\ MTerminal' /\ MOrphaned'
  BY <1>1, <1>2, <1>3, ClearedMutation
<1>6. pc'["cmd"] = pc["cmd"] /\ pc'["boot"] = x
  BY <1>4, BootApart
<1>7. mfence = BeginFence(mopen) /\ Shaped(mopen) =>
        mfence' = mfence /\ MutationRecord' = MutationRecord
  <2>1. /\ MutationRecord' # MutationRecord => mfence = TerminalFence(r)
        /\ mfence' # mfence => mfence = TerminalFence(r)
    BY <1>3, ClearedRecord
  <2>2. TerminalFence(r).phase = "terminal"
    BY <1>2, TerminalFields
  <2>3. Shaped(mopen) => BeginFence(mopen).phase = "begin"
    BY BeginFields DEF Shaped
  <2>4. QED
    BY <2>1, <2>2, <2>3
<1>8. MSection'
  <2>1. pc["cmd"] \in MutationSteps => Shaped(mopen)
    BY MOpen
  <2>2. QED
    BY <1>1, <1>6, <1>7, <2>1 DEF MutationInv, MSection, MutationSteps
<1>9. QED
  BY <1>5, <1>8 DEF MutationInv

LEMMA MutationBootOrphan == ASSUME TypeInv, MutationInv, BootOrphanMutation PROVE MutationInv'
<1>1. /\ UNCHANGED <<image, mdone, mopen, midx, seen>> /\ mreceipt' = MutationRecord /\ mclearing' = None
      /\ mfence' = mfence \/ (mfence' = None /\ MutationRecord = None)
      /\ \E x \in {"orphan", "idle"} : pc' = [pc EXCEPT !["boot"] = x]
  BY DEF BootOrphanMutation, Unaffected, Goto, Finish, MutationRecord
<1>2. MutationRecord' = MutationRecord
  BY <1>1, ReadKept
<1>3. PICK x \in {"orphan", "idle"} : pc' = [pc EXCEPT !["boot"] = x]
  BY <1>1
<1>4. pc'["cmd"] = pc["cmd"] /\ pc'["boot"] = x
  BY <1>3, BootApart
<1>5. MRecordTold' /\ MAnchored' /\ MTerminal' /\ MOrphaned'
  BY <1>1, <1>2 DEF MutationInv, MRecordTold, MAnchored, MTerminal, MOrphaned
<1>6. MSection'
  <2>1. pc["cmd"] \in MutationSteps => mopen # None
    BY MOpen, MutationFields
  <2>2. QED
    BY <1>1, <1>2, <1>4, <2>1 DEF MutationInv, MSection, MutationSteps
<1>7. QED
  BY <1>5, <1>6 DEF MutationInv

LEMMA MutationPlanned == ASSUME TypeInv, MutationInv, PlanMutation PROVE MutationInv'
<1>1. /\ UNCHANGED <<image, mfence, seen>> /\ MutationRecord' = MutationRecord
      /\ MutationRecord = None /\ mfence = None
      /\ pc' = [pc EXCEPT !["cmd"] = "m_begin"] /\ midx' = 1 /\ mdone' = {}
  BY QuieterElsewhere, Opened DEF PlanMutation, Goto
<1>2. pc'["cmd"] = "m_begin" /\ pc'["boot"] = pc["boot"]
  BY <1>1, ThreadsAre DEF TypeInv, TypeOK
<1>3. PICK plan, after :
        mopen' = [op |-> ops + 1, before |-> image, after |-> after, plan |-> plan,
                  effects |-> [i \in 1..Len(plan) |-> "Pending"], terminal |-> NoTerminal]
  BY DEF PlanMutation
<1>4. /\ mopen'.terminal = NoTerminal
      /\ \A i \in DOMAIN mopen'.effects : mopen'.effects[i] = "Pending"
  BY <1>3
<1>5. MSection'
  BY <1>1, <1>2, <1>4 DEF MutationInv, MSection
<1>6. QED
  BY <1>1, <1>5 DEF MutationInv, MRecordTold, MAnchored, MTerminal, MOrphaned

LEMMA MutationElsewhere ==
  ASSUME TypeInv, MutationInv,
         \/ PlanDisable \/ BootLoad \/ Crash \/ UNCHANGED vars \/ PlainWrite \/ OneClickJournal
         \/ \E c \in Components : ComponentChanges(c)
  PROVE  MutationInv'
<1>1. mfence' = mfence /\ MutationRecord' = MutationRecord /\ mdone' = mdone
      /\ (mfence # None => image' = image)
  <2>1. mdone' = mdone /\ mfence' = mfence
    BY DEF PlanDisable, BootLoad, Crash, vars, PlainWrite, OneClickJournal, ComponentChanges, world, config
  <2>2. CASE PlainWrite
    BY <2>1, <2>2, ReadKept DEF PlainWrite, Revive, MutationRecord
  <2>3. CASE OneClickJournal
    BY <2>1, <2>3, ReadKept DEF OneClickJournal, ledgers
  <2>4. QED
    BY <2>1, <2>2, <2>3, QuieterElsewhere
<1>2. /\ pc'["cmd"] \in MutationSteps => pc'["cmd"] = pc["cmd"] /\ UNCHANGED <<mopen, midx>>
      /\ pc'["boot"] = "b_clear" => pc["boot"] = "b_clear" /\ UNCHANGED seen
  <2>1. CASE UNCHANGED <<pc, mopen, midx, seen>>
    BY <2>1
  <2>2. CASE PlanDisable
    <3>1. pc' = [pc EXCEPT !["cmd"] = "publish"] /\ seen' = seen
      BY <2>2 DEF PlanDisable, Goto
    <3>2. pc'["cmd"] = "publish" /\ pc'["boot"] = pc["boot"]
      BY <3>1, ThreadsAre DEF TypeInv, TypeOK
    <3>3. QED
      BY <3>1, <3>2 DEF MutationSteps
  <2>3. CASE BootLoad
    <3>1. pc' = [pc EXCEPT !["boot"] = "b_receipts"] /\ UNCHANGED <<mopen, midx>>
      BY <2>3 DEF BootLoad, Goto
    <3>2. pc'["cmd"] = pc["cmd"] /\ pc'["boot"] = "b_receipts"
      BY <3>1, BootApart
    <3>3. QED
      BY <3>1, <3>2
  <2>4. CASE Crash
    <3>1. pc'["cmd"] = "idle" /\ pc'["boot"] = "idle"
      BY <2>4, ThreadsAre DEF Crash
    <3>2. QED
      BY <3>1 DEF MutationSteps
  <2>5. QED
    BY <2>1, <2>2, <2>3, <2>4 DEF vars, PlainWrite, OneClickJournal, ComponentChanges, threads
<1>3. QED
  BY <1>1, <1>2, MutationFrame

LEMMA MutationNext ==
  ASSUME TypeInv, ExclInv, MutationInv, [Next]_vars PROVE MutationInv'
<1>1. ASSUME MutationCommand PROVE MutationInv'
  BY <1>1, MutationBegin, MutationOpenEffect, MutationMutationEffect, MutationRecordEffect,
     MutationUncertain, MutationFinishReceipt, MutationFinishFence, MutationFinishClear, MutationEnd
  DEF MutationCommand
<1>2. ASSUME MutationBoot PROVE MutationInv'
  BY <1>2, MutationBootDisable, MutationBootReceipts, MutationBootClear, MutationBootOrphan DEF MutationBoot
<1>3. QED
  BY <1>1, <1>2, MutationOfDisable, MutationPlanned, MutationElsewhere, ThreadsAre
  DEF Next, Command, Boot

LEMMA MutationInit == Init => MutationInv
<1> SUFFICES ASSUME Init PROVE MutationInv
  OBVIOUS
<1>1. MutationRecord = None /\ mfence = None
  BY DEF Init, MutationRecord, Read
<1>2. pc["cmd"] = "idle" /\ pc["boot"] = "idle"
  BY ThreadsAre DEF Init
<1>3. QED
  BY <1>1, <1>2 DEF MutationInv, MRecordTold, MAnchored, MTerminal, MOrphaned, MSection

LEMMA MutationAlways == Spec => []MutationInv
<1>1. Init => MutationInv
  BY MutationInit
<1>2. TypeInv /\ ExclInv /\ MutationInv /\ [Next]_vars => MutationInv'
  BY MutationNext
<1>3. QED
  BY <1>1, <1>2, TypeAlways, ExclAlways, PTL DEF Spec

-----------------------------------------------------------------------------
(* The lifecycle lease.                                                        *)

\* A step of one thread: the other one keeps what it has in hand.
LeaseStep(t, x) ==
  /\ pc' = [pc EXCEPT ![t] = x]
  /\ \/ lease' = lease
     \/ x = "idle" /\ lease' = (IF lease = t THEN "none" ELSE lease)

LEMMA LeaseCommand ==
  ASSUME TypeInv, LeaseInv, pc["cmd"] # "idle", NEW x, LeaseStep("cmd", x), open'["boot"] = open["boot"]
  PROVE  LeaseInv'
<1>1. pc'["cmd"] = x /\ pc'["boot"] = pc["boot"]
  BY ThreadsAre DEF LeaseStep, TypeInv, TypeOK
<1>2. lease = "cmd"
  BY DEF LeaseInv
<1>3. QED
  BY <1>1, <1>2 DEF LeaseStep, LeaseInv

LEMMA LeaseBoot ==
  ASSUME TypeInv, LeaseInv, NEW x, LeaseStep("boot", x), x \notin Forward,
         x \in Backward \cup {"restore", "restoring"} => lease = "boot",
         x \in {"clear", "unfence"} =>
           lease = "boot" \/ open'["boot"].phase.kind = "ConfigCommitted"
  PROVE  LeaseInv'
<1>1. pc'["cmd"] = pc["cmd"] /\ pc'["boot"] = x
  BY BootApart DEF LeaseStep
<1>2. x = "idle" => x \notin Backward
  BY DEF Backward
<1>3. QED
  BY <1>1, <1>2 DEF LeaseStep, LeaseInv

\* An advance moves one thread and keeps the lease.
LEMMA LeaseAdvance ==
  ASSUME TypeInv, NEW t \in Threads, pc[t] \in DisableSteps, NEW phase \in Phases, NEW then, NEW else,
         Advance(t, phase, then, else)
  PROVE  /\ \/ LeaseStep(t, then) /\ open'[t].phase = phase
            \/ LeaseStep(t, else) /\ open' = open
         /\ \A u \in Threads \ {t} : open'[u] = open[u]
<1> DEFINE next == [open[t] EXCEPT !.phase = phase]
<1>1. \/ open' = [open EXCEPT ![t] = next] /\ pc' = [pc EXCEPT ![t] = then]
      \/ open' = open /\ pc' = [pc EXCEPT ![t] = else]
  BY Advancing
<1>2. lease' = lease
  BY Advancing
<1>3. next.phase = phase
  BY StepOpen, Phased
<1> HIDE DEF next
<1>4. \A u \in Threads \ {t} : open'[u] = open[u]
  BY <1>1 DEF TypeInv, Kinds
<1>5. CASE open' = [open EXCEPT ![t] = next] /\ pc' = [pc EXCEPT ![t] = then]
  <2>1. open'[t] = next
    BY <1>5 DEF TypeInv, Kinds
  <2>2. QED
    BY <1>2, <1>3, <1>4, <1>5, <2>1 DEF LeaseStep
<1>6. CASE open' = open /\ pc' = [pc EXCEPT ![t] = else]
  BY <1>2, <1>4, <1>6 DEF LeaseStep
<1>7. QED
  BY <1>1, <1>5, <1>6

\* Where a step that both threads take can lead, and what the boot decision has then.
LEMMA LeaseEither ==
  ASSUME TypeInv, LeaseInv, NEW t \in Threads, DisableEither(t)
  PROVE  \E x : /\ pc[t] # "idle" /\ LeaseStep(t, x) /\ x \notin Forward
                /\ x \in Backward \cup {"restore", "restoring"} =>
                     pc[t] \in Backward \cup {"restore", "restoring"}
                /\ x \in {"clear", "unfence"} =>
                     \/ open'[t].phase.kind = "ConfigCommitted"
                     \/ pc[t] \in Backward
                     \/ pc[t] = "clear" /\ open' = open
                /\ \A u \in Threads \ {t} : open'[u] = open[u]
<1>0. /\ "none" \in Targets /\ stopped[t] \in SUBSET Components /\ {} \in SUBSET Components
      /\ {"retain", "committed", "restoring", "verify"} \subseteq DisableSteps
      /\ {"retain", "project", "fail", "clear", "unfence", "idle", "restoring"} \cap Forward = {}
      /\ Backward = {"science", "gateway", "verify"} /\ Backward \cap Forward = {}
  BY Kept DEF Targets, DisableSteps, Forward, Backward
<1>1. CASE Fail(t)
  BY <1>0, <1>1 DEF Fail, Goto, LeaseStep, ThreadKept
<1>2. CASE Project(t)
  BY <1>0, <1>2 DEF Project, Finish, Goto, LeaseStep
<1>3. CASE Retain(t)
  <2>1. Phase("Attention", "none", {}) \in Phases
    BY <1>0, PhaseMade
  <2>2. LeaseStep(t, "project") /\ \A u \in Threads \ {t} : open'[u] = open[u]
    BY <1>0, <1>3, <2>1, LeaseAdvance DEF Retain
  <2>3. QED
    BY <1>0, <1>3, <2>2 DEF Retain
<1>4. CASE Committed(t)
  <2> DEFINE p == Phase("ConfigCommitted", "none", {})
             else == IF t = "cmd" THEN "retain" ELSE "fail"
  <2>1. p \in Phases /\ p.kind = "ConfigCommitted"
    BY <1>0, PhaseMade
  <2>2. pc[t] = "committed" /\ Advance(t, p, "clear", else)
    BY <1>4 DEF Committed
  <2> HIDE DEF p
  <2>3. /\ \/ LeaseStep(t, "clear") /\ open'[t].phase = p
           \/ LeaseStep(t, else)
        /\ \A u \in Threads \ {t} : open'[u] = open[u]
    BY <1>0, <2>1, <2>2, LeaseAdvance
  <2>4. QED
    BY <1>0, <2>1, <2>2, <2>3
<1>5. CASE ClearReceipt(t)
  BY <1>0, <1>5 DEF ClearReceipt, Goto, LeaseStep, ThreadKept
<1>6. CASE ClearFence(t)
  BY <1>0, <1>6 DEF ClearFence, Finish, Goto, LeaseStep, ThreadKept
<1>7. CASE RestoreCheck(t)
  BY <1>0, <1>7 DEF RestoreCheck, Goto, LeaseStep, ThreadKept
<1>8. CASE Restoring(t)
  <2>1. Phase("Restoring", "none", stopped[t]) \in Phases
    BY <1>0, PhaseMade
  <2>2. /\ \E x \in {"science", "project"} : LeaseStep(t, x)
        /\ \A u \in Threads \ {t} : open'[u] = open[u]
    BY <1>0, <1>8, <2>1, LeaseAdvance DEF Restoring
  <2>3. QED
    BY <1>0, <1>8, <2>2 DEF Restoring
<1>9. CASE RestoreScience(t) \/ RestoreGateway(t)
  BY <1>0, <1>9 DEF RestoreScience, RestoreGateway, Restart, Goto, LeaseStep, ThreadKept
<1>10. CASE Restored(t)
  <2>1. CASE Advance(t, Phase("Restored", "none", stopped[t]), "clear", "project")
    <3>1. Phase("Restored", "none", stopped[t]) \in Phases
      BY <1>0, PhaseMade
    <3>2. /\ \E x \in {"clear", "project"} : LeaseStep(t, x)
          /\ \A u \in Threads \ {t} : open'[u] = open[u]
      BY <1>0, <1>10, <2>1, <3>1, LeaseAdvance DEF Restored
    <3>3. QED
      BY <1>0, <1>10, <3>2 DEF Restored
  <2>2. CASE Goto(t, "project") /\ ThreadKept /\ UNCHANGED open
    BY <1>0, <1>10, <2>2 DEF Restored, Goto, LeaseStep, ThreadKept
  <2>3. QED
    BY <1>10, <2>1, <2>2 DEF Restored
<1>11. QED
  BY <1>1, <1>2, <1>3, <1>4, <1>5, <1>6, <1>7, <1>8, <1>9, <1>10 DEF DisableEither

LEMMA LeaseOfEither ==
  ASSUME TypeInv, LeaseInv, NEW t \in Threads, DisableEither(t) PROVE LeaseInv'
<1>1. PICK x : /\ pc[t] # "idle" /\ LeaseStep(t, x) /\ x \notin Forward
               /\ x \in Backward \cup {"restore", "restoring"} =>
                    pc[t] \in Backward \cup {"restore", "restoring"}
               /\ x \in {"clear", "unfence"} =>
                    \/ open'[t].phase.kind = "ConfigCommitted"
                    \/ pc[t] \in Backward
                    \/ pc[t] = "clear" /\ open' = open
               /\ \A u \in Threads \ {t} : open'[u] = open[u]
  BY LeaseEither
<1>2. CASE t = "cmd"
  BY <1>1, <1>2, LeaseCommand, ThreadsAre
<1>3. CASE t = "boot"
  BY <1>1, <1>3, LeaseBoot DEF LeaseInv
<1>4. QED
  BY <1>2, <1>3, ThreadsAre

LEMMA LeaseOfCommand == ASSUME TypeInv, LeaseInv, DisableCommand PROVE LeaseInv'
<1>0. "none" \in Targets /\ stopped["cmd"] \in SUBSET Components /\ "cmd" \in Threads
      /\ NextTarget(open["cmd"], stopped["cmd"]) \in Targets /\ "boot" \in Threads \ {"cmd"}
      /\ pc["cmd"] # "idle"
  BY Kept, ThreadsAre DEF Targets, NextTarget, Components, DisableCommand, PublishIntent, Reconcile,
     Stopping, EffectLease, Effect, EffectsApplied, Unproved, CommitConfig
<1>1. CASE Stopping \/ EffectsApplied
  <2>1. pc["cmd"] \in DisableSteps /\ \E k \in {"Stopping", "EffectsApplied"}, c \in Targets : \E then, else :
          Advance("cmd", Phase(k, c, stopped["cmd"]), then, else)
    BY <1>0, <1>1 DEF Stopping, EffectsApplied, DisableSteps
  <2>2. /\ \E x : LeaseStep("cmd", x)
        /\ open'["boot"] = open["boot"]
    BY <1>0, <2>1, LeaseAdvance, PhaseMade
  <2>3. QED
    BY <1>0, <2>2, LeaseCommand
<1>2. CASE PublishIntent \/ Reconcile \/ EffectLease \/ Effect \/ Unproved \/ CommitConfig
  <2>1. /\ \E x : LeaseStep("cmd", x)
        /\ open'["boot"] = open["boot"]
    BY <1>2 DEF PublishIntent, Reconcile, EffectLease, Effect, Unproved, CommitConfig,
                Finish, Goto, ThreadKept, LeaseStep
  <2>2. QED
    BY <1>0, <2>1, LeaseCommand
<1>3. QED
  BY <1>1, <1>2 DEF DisableCommand

LEMMA LeaseOfMutation == ASSUME TypeInv, LeaseInv, MutationCommand PROVE LeaseInv'
<1>1. pc["cmd"] # "idle" /\ open'["boot"] = open["boot"]
  BY DEF MutationCommand, BeginMutation, OpenEffect, MutationEffect, RecordEffect, RecordUncertain,
         FinishReceipt, FinishFence, FinishClear, MutationAttention, Beside
<1>2. \E x : LeaseStep("cmd", x)
  <2>1. CASE BeginMutation
    BY <2>1 DEF BeginMutation, Finish, Goto, Unreported, LeaseStep
  <2>2. CASE OpenEffect \/ RecordEffect \/ RecordUncertain \/ FinishReceipt
    <3>1. lease' = lease /\ (Goto("cmd", "m_effect") \/ \E next, then, else : Checkpoint(next, then, else))
      BY <2>2 DEF OpenEffect, RecordEffect, RecordUncertain, FinishReceipt, Unreported
    <3>2. \E x : pc' = [pc EXCEPT !["cmd"] = x]
      BY <3>1, Checking DEF Goto
    <3>3. QED
      BY <3>1, <3>2 DEF LeaseStep
  <2>3. CASE MutationEffect \/ FinishFence
    BY <2>3 DEF MutationEffect, FinishFence, Goto, Unreported, LeaseStep
  <2>4. CASE FinishClear \/ MutationAttention
    BY <2>4 DEF FinishClear, MutationAttention, Finish, Goto, LeaseStep
  <2>5. QED
    BY <2>1, <2>2, <2>3, <2>4 DEF MutationCommand
<1>3. QED
  BY <1>1, <1>2, LeaseCommand

LEMMA LeaseOfBoot == ASSUME TypeInv, LeaseInv, DisableBoot \/ MutationBoot PROVE LeaseInv'
<1>0. /\ {"read", "idle", "image", "orphan", "b_orphan", "b_clear", "b_mutation"} \cap
           (Forward \cup Backward \cup {"restore", "restoring", "clear", "unfence"}) = {}
      /\ {"fail", "committed", "clear", "replay", "project", "restore"} \cap (Forward \cup Backward) = {}
  BY DEF Forward, Backward
<1>1. CASE BootOrphanFence \/ BootRead \/ MutationBoot
  <2>1. CASE BootOrphanFence \/ BootRead
    <3>1. \E x \in {"read", "idle", "image"} : LeaseStep("boot", x)
      BY <2>1 DEF BootOrphanFence, BootRead, Finish, Goto, ThreadKept, LeaseStep
    <3>2. QED
      BY <1>0, <3>1, LeaseBoot
  <2>2. CASE MutationBoot
    <3>1. \E x \in {"idle", "orphan", "b_orphan", "b_clear", "b_mutation"} : LeaseStep("boot", x)
      BY <2>2 DEF MutationBoot, BootDisableReceipt, BootReceipts, BootClear, BootOrphanMutation, Finish, Goto, Unreported,
                  LeaseStep
    <3>2. QED
      BY <1>0, <3>1, LeaseBoot
  <2>3. QED
    BY <1>1, <2>1, <2>2
<1>2. CASE BootImage
  <2>1. \E x \in {"fail", "committed", "clear", "replay"} :
          LeaseStep("boot", x) /\ open' = open
          /\ (x = "clear" => open["boot"].phase.kind = "ConfigCommitted")
    BY <1>2 DEF BootImage, Goto, ThreadKept, LeaseStep
  <2>2. QED
    BY <1>0, <2>1, LeaseBoot
<1>3. CASE BootReplay
  <2>1. \E x \in {"fail", "clear", "project", "restore"} : pc' = [pc EXCEPT !["boot"] = x]
    BY <1>3 DEF BootReplay, Goto
  <2>2. pc["cmd"] = "idle" /\ lease' = "boot"
    BY <1>3 DEF BootReplay, LeaseInv
  <2>3. pc'["cmd"] = "idle" /\ pc'["boot"] \in {"fail", "clear", "project", "restore"}
    BY <2>1, <2>2, BootApart
  <2>4. QED
    BY <1>0, <2>2, <2>3 DEF LeaseInv
<1>4. QED
  BY <1>1, <1>2, <1>3 DEF DisableBoot

LEMMA LeaseElsewhere ==
  ASSUME TypeInv, LeaseInv,
         \/ PlanDisable \/ PlanMutation \/ BootLoad \/ Crash \/ UNCHANGED vars \/ PlainWrite
         \/ OneClickJournal \/ \E c \in Components : ComponentChanges(c)
  PROVE  LeaseInv'
<1>1. CASE UNCHANGED <<pc, lease, open>>
  BY <1>1 DEF LeaseInv
<1>2. CASE PlanDisable \/ PlanMutation
  <2>1. /\ \E x : pc' = [pc EXCEPT !["cmd"] = x]
        /\ lease = "none" /\ lease' = "cmd" /\ open'["boot"] = open["boot"]
    BY <1>2, ThreadsAre DEF PlanDisable, PlanMutation, Goto, TypeInv, Kinds
  <2>2. pc'["boot"] = pc["boot"]
    BY <2>1, ThreadsAre DEF TypeInv, TypeOK
  <2>3. QED
    BY <2>1, <2>2 DEF LeaseInv
<1>3. CASE BootLoad
  <2>1. LeaseStep("boot", "b_receipts")
    BY <1>3 DEF BootLoad, Goto, LeaseStep
  <2>2. QED
    BY <2>1, LeaseBoot DEF Forward, Backward
<1>4. CASE Crash
  <2>1. pc'["cmd"] = "idle" /\ pc'["boot"] = "idle"
    BY <1>4, ThreadsAre DEF Crash
  <2>2. QED
    BY <2>1 DEF LeaseInv, Forward, Backward
<1>5. QED
  BY <1>1, <1>2, <1>3, <1>4 DEF vars, threads, PlainWrite, OneClickJournal, ComponentChanges

LEMMA LeaseNext == ASSUME TypeInv, LeaseInv, [Next]_vars PROVE LeaseInv'
BY LeaseOfEither, LeaseOfCommand, LeaseOfMutation, LeaseOfBoot, LeaseElsewhere, ThreadsAre
DEF Next, Command, Boot

LEMMA LeaseAlways == Spec => []LeaseInv
<1>1. Init => LeaseInv
  BY ThreadsAre DEF Init, LeaseInv, Forward, Backward
<1>2. TypeInv /\ LeaseInv /\ [Next]_vars => LeaseInv'
  BY LeaseNext
<1>3. QED
  BY <1>1, <1>2, TypeAlways, PTL DEF Spec

-----------------------------------------------------------------------------
(* What the records of the disable ledger say of the components.               *)

WorldInv == RecordTold /\ Anchored /\ Orphaned /\ OwedDown

LEMMA WorldFrame ==
  ASSUME WorldInv, DisableRecord' = DisableRecord, dfence' = dfence, UNCHANGED <<did, owed>>,
         dfence # None => image' = image,
         \A c \in owed : comp[c] \in {"absent", "foreign"} => comp'[c] \in {"absent", "foreign"}
  PROVE  WorldInv'
<1>1. RecordTold'
  BY DEF WorldInv, RecordTold
<1>2. Anchored' /\ Orphaned'
  BY DEF WorldInv, Anchored, Orphaned
<1>3. OwedDown'
  BY DEF WorldInv, OwedDown
<1>4. QED
  BY <1>1, <1>2, <1>3 DEF WorldInv

LEMMA WorldQuiet ==
  ASSUME WorldInv, WorldKept, UNCHANGED <<image, dfence>>,
         UNCHANGED <<dreceipt, dclearing>> \/ (dreceipt' = DisableRecord /\ dclearing' = None)
  PROVE  WorldInv'
BY WorldFrame, ReadKept DEF WorldKept

\* Before- and after-image of a well-formed receipt and its fence.
LEMMA Sides ==
  ASSUME NEW r, WellFormed(r)
  PROVE  /\ r.before # r.after /\ DisableFence(r) # None
         /\ DisableFence(r).before = r.before /\ DisableFence(r).after = r.after
<1>1. r \in DisableReceipts /\ r.before \in Images
  BY DisableFields DEF WellFormed
<1>2. r.before # r.after
  BY <1>1, TwoImages DEF WellFormed
<1>3. QED
  BY <1>1, <1>2, FenceFields

LEMMA WorldAdvance ==
  ASSUME TypeInv, WorldInv, NEW t \in Threads, pc[t] \in DisableSteps, Apart,
         NEW phase \in Phases, NEW then, NEW else, Advance(t, phase, then, else),
         DisableRecord = open[t] =>
           Told([open[t] EXCEPT !.phase = phase], did, owed)
  PROVE  WorldInv'
<1> DEFINE next == [open[t] EXCEPT !.phase = phase]
<1>1. WellFormed(open[t])
  BY StepOpen
<1>2. /\ next \in DisableReceipts /\ next.before = open[t].before /\ next.after = open[t].after
      /\ next.plan = open[t].plan /\ next.phase = phase /\ DisableFence(next) = DisableFence(open[t])
  BY <1>1, Phased DEF WellFormed
<1>3. next # None
  BY <1>2, DisableFields
<1>4. Told(next, did, owed) \/ DisableRecord # open[t]
  OBVIOUS
<1>5. /\ \/ DisableRecord' = DisableRecord
         \/ /\ DisableRecord = open[t] /\ dfence = DisableFence(open[t])
            /\ phase.kind # "Attention" => image = DisableImage(next)
            /\ DisableRecord' = next
      /\ UNCHANGED <<image, dfence, comp, did, owed>>
  BY AdvancedRecord
<1> HIDE DEF next
<1>6. CASE DisableRecord' = DisableRecord
  BY <1>5, <1>6, WorldFrame
<1>7. CASE /\ DisableRecord = open[t] /\ dfence = DisableFence(open[t])
           /\ phase.kind # "Attention" => image = DisableImage(next)
           /\ DisableRecord' = next
  <2>1. RecordTold'
    <3>1. next.phase.kind \in {"Intent", "Stopping", "EffectsApplied"} => image # dfence.after
      BY <1>1, <1>2, <1>7, Sides DEF DisableImage
    <3>2. QED
      BY <1>4, <1>5, <1>7, <3>1 DEF RecordTold
  <2>2. Anchored'
    BY <1>2, <1>5, <1>7 DEF Anchored
  <2>3. Orphaned'
    BY <1>3, <1>7 DEF Orphaned
  <2>4. OwedDown'
    BY <1>5 DEF WorldInv, OwedDown
  <2>5. QED
    BY <2>1, <2>2, <2>3, <2>4 DEF WorldInv
<1>8. QED
  BY <1>5, <1>6, <1>7

\* The phases the operation writes, and when they tell the truth.
LEMMA WorldPhase ==
  ASSUME TypeInv, WorldInv, NEW t \in Threads, pc[t] \in DisableSteps, Apart,
         NEW k \in {"Stopping", "EffectsApplied", "Restoring", "Restored", "ConfigCommitted", "Attention"},
         NEW c \in Targets, NEW S \in SUBSET Components, NEW then, NEW else,
         Advance(t, Phase(k, c, S), then, else),
         DisableRecord = open[t] /\ k \notin {"ConfigCommitted", "Attention"} =>
           S \subseteq did /\ owed \subseteq S \cup {c} /\ (k = "Restored" => owed = {})
  PROVE  WorldInv'
<1> DEFINE p == Phase(k, c, S)
<1>1. p \in Phases /\ p.kind = k /\ p.target = c /\ p.stopped = S /\ Advance(t, p, then, else)
  BY PhaseMade
<1> HIDE DEF p
<1>2. DisableRecord = open[t] => Told([open[t] EXCEPT !.phase = p], did, owed)
  <2>1. [open[t] EXCEPT !.phase = p].phase = p
    BY <1>1, StepOpen, Phased
  <2>2. QED
    BY <1>1, <2>1 DEF Told
<1>3. QED
  BY <1>1, <1>2, WorldAdvance

LEMMA WorldClearReceipt ==
  ASSUME TypeInv, WorldInv, NEW t \in Threads, Section(t), ClearReceipt(t) PROVE WorldInv'
<1> DEFINE r == open[t]
<1>1. WellFormed(r) /\ r # None
  BY StepOpen, DisableFields DEF ClearReceipt, DisableSteps
<1>2. pc[t] = "clear" /\ UNCHANGED <<image, dfence, comp, did, owed>>
  BY DEF ClearReceipt, WorldKept
<1>3. \/ DisableRecord' = DisableRecord
      \/ CanClear(r) /\ DisableRecord' = None
  <2>1. CASE UNCHANGED <<dreceipt, dclearing>>
    BY <2>1, ReadKept
  <2>2. CASE CanClear(r) /\ dreceipt' = None /\ dclearing' \in {None, r}
    BY <1>1, <2>2 DEF CanClear, DisableRecord, Read
  <2>3. QED
    BY <2>1, <2>2 DEF ClearReceipt
<1>4. CASE DisableRecord' = DisableRecord
  BY <1>2, <1>4, WorldFrame
<1>5. CASE CanClear(r) /\ DisableRecord' = None
  <2>1. /\ dfence = DisableFence(r) /\ image = DisableImage(r) /\ DisableRecord = r
    BY <1>5 DEF CanClear, DisableRecord, Read
  <2>2. image = dfence.before => owed = {}
    BY <1>1, <1>2, <2>1, Sides DEF Section, DisableImage
  <2>3. QED
    BY <1>2, <1>5, <2>2 DEF WorldInv, RecordTold, Anchored, Orphaned, OwedDown
<1>6. QED
  BY <1>3, <1>4, <1>5

LEMMA WorldUnfenced ==
  ASSUME WorldInv, UNCHANGED <<image, comp, did, owed>>, DisableRecord' = DisableRecord,
         dfence' = dfence \/ (dfence' = None /\ DisableRecord = None)
  PROVE  WorldInv'
BY DEF WorldInv, RecordTold, Anchored, Orphaned, OwedDown

LEMMA WorldRestart ==
  ASSUME TypeInv, WorldInv, NEW t \in Threads, Section(t), RestoreScience(t) \/ RestoreGateway(t)
  PROVE  WorldInv'
<1>1. PICK c \in {"Science", "Gateway"}, there \in {"gateway", "verify"} :
        pc[t] \in Backward /\ Restart(t, c, pc[t], there)
  BY DEF RestoreScience, RestoreGateway, Restart, Backward
<1>2. /\ UNCHANGED <<image, dfence, did>> /\ DisableRecord' = DisableRecord
      /\ \/ UNCHANGED <<comp, owed>>
         \/ c \in stopped[t] /\ comp' = [comp EXCEPT ![c] = "restored"] /\ owed' = owed \ {c}
         \/ c \in stopped[t] /\ comp' = [comp EXCEPT ![c] = "absent"] /\ owed' = owed \cup {c}
  BY <1>1, ReadKept DEF Restart, DiskKept
<1>3. /\ dfence = DisableFence(open[t]) /\ DisableRecord = open[t]
      /\ open[t].phase.kind = "Restoring" /\ open[t].phase.stopped = stopped[t]
      /\ open[t] # None
  BY <1>1, StepOpen, DisableFields DEF Section, Over, DisableSteps, Backward
<1>4. RecordTold'
  BY <1>2, <1>3 DEF WorldInv, RecordTold, Told
<1>5. Anchored' /\ Orphaned'
  BY <1>2, <1>3 DEF Anchored, Orphaned
<1>6. OwedDown'
  BY <1>2 DEF WorldInv, OwedDown, TypeInv, TypeOK
<1>7. QED
  BY <1>4, <1>5, <1>6 DEF WorldInv

LEMMA WorldOfEither ==
  ASSUME TypeInv, WorldInv, NEW t \in Threads, Section(t), DisableEither(t) PROVE WorldInv'
<1>0. /\ "none" \in Targets /\ stopped[t] \in SUBSET Components /\ {} \in SUBSET Components
      /\ {"retain", "committed", "restoring", "verify"} \subseteq DisableSteps
  BY Kept DEF Targets, DisableSteps
<1>1. CASE Fail(t)
  BY <1>1, WorldQuiet DEF Fail, DiskKept
<1>2. CASE Project(t)
  BY <1>2, WorldQuiet DEF Project, DiskKept
<1>3. CASE Retain(t)
  BY <1>0, <1>3, WorldPhase DEF Retain
<1>4. CASE Committed(t)
  BY <1>0, <1>4, WorldPhase DEF Committed
<1>5. CASE ClearReceipt(t)
  BY <1>5, WorldClearReceipt
<1>6. CASE ClearFence(t)
  <2>1. /\ UNCHANGED <<image, comp, did, owed>> /\ dreceipt' = DisableRecord /\ dclearing' = None
        /\ dfence' = dfence \/ (dfence' = None /\ DisableRecord = None)
    BY <1>6 DEF ClearFence, WorldKept, DisableRecord
  <2>2. QED
    BY <2>1, ReadKept, WorldUnfenced
<1>7. CASE RestoreCheck(t)
  BY <1>7, WorldQuiet DEF RestoreCheck, DiskKept
<1>8. CASE Restoring(t)
  <2>1. DisableRecord = open[t] => stopped[t] \subseteq did /\ owed \subseteq stopped[t]
    BY <1>8 DEF Restoring, Section, Stood
  <2>2. QED
    BY <1>0, <1>8, <2>1, WorldPhase DEF Restoring
<1>9. CASE RestoreScience(t) \/ RestoreGateway(t)
  BY <1>9, WorldRestart
<1>10. CASE Restored(t)
  <2>1. pc[t] = "verify" /\ stopped[t] \subseteq did /\ owed = {}
    BY <1>10 DEF Restored, Section, Backward
  <2>2. CASE Advance(t, Phase("Restored", "none", stopped[t]), "clear", "project")
    BY <1>0, <1>10, <2>1, <2>2, WorldPhase DEF Restored
  <2>3. CASE DiskKept /\ WorldKept
    BY <2>3, WorldQuiet DEF DiskKept
  <2>4. QED
    BY <1>10, <2>2, <2>3 DEF Restored
<1>11. QED
  BY <1>1, <1>2, <1>3, <1>4, <1>5, <1>6, <1>7, <1>8, <1>9, <1>10 DEF DisableEither

LEMMA WorldPublish ==
  ASSUME TypeInv, WorldInv, CommandSection, PublishIntent PROVE WorldInv'
<1> DEFINE r == open["cmd"]
<1>0. /\ WellFormed(r) /\ r \in DisableReceipts /\ r # None
      /\ r.phase.kind = "Intent" /\ r.phase.stopped = {} /\ owed = {}
  BY StepOpen, ThreadsAre, DisableFields DEF PublishIntent, DisableSteps, CommandSection, WellFormed
<1>1. /\ UNCHANGED <<image, comp, did, owed>> /\ dclearing' = None
      /\ \/ dfence' = dfence /\ dreceipt' = DisableRecord
         \/ /\ NoReceipts /\ NoTransaction /\ image = r.before
            /\ dfence' = DisableFence(r) \/ dfence' = dfence
            /\ dreceipt' = r \/ dreceipt' = DisableRecord
  BY DEF PublishIntent, DisableRecord, WorldKept
<1>2. DisableRecord' = dreceipt'
  BY <1>1 DEF DisableRecord, Read
<1>3. CASE dfence' = dfence /\ dreceipt' = DisableRecord
  BY <1>1, <1>2, <1>3, WorldFrame
<1>4. CASE /\ NoReceipts /\ NoTransaction /\ image = r.before
           /\ dfence' = DisableFence(r) \/ dfence' = dfence
           /\ dreceipt' = r \/ dreceipt' = DisableRecord
  <2>1. DisableRecord = None /\ dfence = None
    BY <1>4, Opened
  <2>2. dfence' # None => dfence'.after # image'
    BY <1>0, <1>1, <1>4, <2>1, Sides
  <2>3. RecordTold'
    BY <1>0, <1>1, <1>2, <1>4, <2>1, <2>2 DEF RecordTold, Told
  <2>4. Anchored' /\ Orphaned' /\ OwedDown'
    BY <1>0, <1>1, <1>2, <1>4, <2>1 DEF Anchored, Orphaned, OwedDown
  <2>5. QED
    BY <2>3, <2>4 DEF WorldInv
<1>5. QED
  BY <1>1, <1>3, <1>4

LEMMA WorldEffect ==
  ASSUME TypeInv, WorldInv, Section("cmd"), CommandSection, Effect PROVE WorldInv'
<1> DEFINE r == open["cmd"]
           c == r.phase.target
<1>1. /\ WellFormed(r) /\ r # None /\ r.phase.kind = "Stopping" /\ pc["cmd"] = "effect"
      /\ c \in Components
  BY StepOpen, ThreadsAre, DisableFields, PhaseFields
  DEF Effect, DisableSteps, TypeInv, Kinds, Announced, WellFormed, Targets
<1>2. /\ dfence = DisableFence(r) /\ image = r.before /\ (DisableRecord = r \/ Marked)
      /\ Stood("cmd") /\ r.phase.stopped = stopped["cmd"]
  BY <1>1 DEF Section, Over, CommandSection, Forward
<1>3. /\ UNCHANGED <<image, dfence>> /\ DisableRecord' = DisableRecord
  BY ReadKept DEF Effect, DiskKept
<1>4. /\ did \subseteq did' /\ owed' \in {owed, owed \cup {c}}
      /\ owed' # owed => comp' = [comp EXCEPT ![c] = "absent"]
      /\ comp' = comp \/ comp' = [comp EXCEPT ![c] = "absent"]
  BY DEF Effect
<1>5. RecordTold'
  <2>1. image # dfence.after
    BY <1>1, <1>2, Sides
  <2>2. QED
    BY <1>1, <1>2, <1>3, <1>4, <2>1 DEF RecordTold, Told, Stood, Marked
<1>6. Anchored' /\ Orphaned'
  BY <1>1, <1>2, <1>3 DEF Anchored, Orphaned, Marked
<1>7. OwedDown'
  BY <1>1, <1>4 DEF WorldInv, OwedDown, TypeInv, TypeOK
<1>8. QED
  BY <1>5, <1>6, <1>7 DEF WorldInv

LEMMA WorldCommit ==
  ASSUME TypeInv, WorldInv, Section("cmd"), CommandSection, CommitConfig PROVE WorldInv'
<1> DEFINE r == open["cmd"]
<1>1. WellFormed(r) /\ pc["cmd"] = "commit"
  BY StepOpen, ThreadsAre DEF CommitConfig, DisableSteps
<1>2. /\ dfence = DisableFence(r) /\ (DisableRecord = r \/ Marked)
      /\ Stood("cmd") /\ r.plan \subseteq stopped["cmd"]
  BY <1>1 DEF Section, Over, CommandSection, Forward
<1>3. /\ UNCHANGED <<dfence, comp, did, owed>> /\ DisableRecord' = DisableRecord
      /\ image' = image \/ image' = r.after
  BY ReadKept DEF CommitConfig, WorldKept
<1>4. CASE image' = image
  BY <1>3, <1>4, WorldFrame
<1>5. CASE image' = r.after
  <2>1. image' # dfence'.before
    BY <1>1, <1>2, <1>3, <1>5, Sides
  <2>2. RecordTold'
    BY <1>2, <1>3 DEF WorldInv, RecordTold, Told, Stood, Marked
  <2>3. Anchored' /\ Orphaned' /\ OwedDown'
    BY <1>3, <2>1 DEF WorldInv, Anchored, Orphaned, OwedDown
  <2>4. QED
    BY <2>2, <2>3 DEF WorldInv
<1>6. QED
  BY <1>3, <1>4, <1>5

LEMMA WorldOfCommand ==
  ASSUME TypeInv, WorldInv, Section("cmd"), CommandSection, DisableCommand PROVE WorldInv'
<1>0. "none" \in Targets /\ stopped["cmd"] \in SUBSET Components /\ "cmd" \in Threads
      /\ NextTarget(open["cmd"], stopped["cmd"]) \in Targets
      /\ {"stopping", "applied"} \subseteq DisableSteps
  BY Kept, ThreadsAre DEF Targets, NextTarget, Components, DisableSteps
<1>1. CASE Reconcile
  BY <1>1, WorldQuiet DEF Reconcile, DisableRecord
<1>2. CASE EffectLease \/ Unproved
  BY <1>2, WorldQuiet DEF EffectLease, Unproved, DiskKept
<1>3. CASE Stopping
  <2>1. stopped["cmd"] \subseteq did /\ owed \subseteq stopped["cmd"]
    BY <1>3 DEF Stopping, CommandSection, Stood
  <2>2. QED
    BY <1>0, <1>3, <2>1, WorldPhase DEF Stopping
<1>4. CASE EffectsApplied
  <2>1. stopped["cmd"] \subseteq did /\ owed \subseteq stopped["cmd"]
    BY <1>4 DEF EffectsApplied, CommandSection, Stood
  <2>2. QED
    BY <1>0, <1>4, <2>1, WorldPhase DEF EffectsApplied
<1>5. QED
  BY <1>1, <1>2, <1>3, <1>4, WorldPublish, WorldEffect, WorldCommit DEF DisableCommand

LEMMA WorldOfBoot == ASSUME TypeInv, WorldInv, DisableBoot PROVE WorldInv'
<1>1. CASE BootOrphanFence
  <2>1. /\ UNCHANGED <<image, comp, did, owed>> /\ dreceipt' = DisableRecord /\ dclearing' = None
        /\ dfence' = dfence \/ (dfence' = None /\ DisableRecord = None)
    BY <1>1 DEF BootOrphanFence, WorldKept, DisableRecord
  <2>2. QED
    BY <2>1, ReadKept, WorldUnfenced
<1>2. CASE BootRead
  BY <1>2, WorldQuiet DEF BootRead, DisableRecord
<1>3. CASE BootImage \/ BootReplay
  BY <1>3, WorldQuiet DEF BootImage, BootReplay, DiskKept
<1>4. QED
  BY <1>1, <1>2, <1>3 DEF DisableBoot

\* What the disable ledger sees of a step of the mutation ledger.
LEMMA OutsideMutation ==
  ASSUME TypeInv, ExclInv, MutationCommand \/ MutationBoot
  PROVE  /\ DisableRecord' = DisableRecord /\ UNCHANGED <<dfence, did, owed, open, stopped, ops>>
         /\ dfence # None => image' = image
         /\ \A c \in Components : comp[c] \in {"absent", "foreign"} => comp'[c] \in {"absent", "foreign"}
         /\ \A c \in Components : comp'[c] = "restored" => comp[c] = "restored"
<1>1. CASE MutationEffect
  <2>1. /\ UNCHANGED <<dfence, did, owed, open, stopped, ops, mfence>> /\ DisableRecord' = DisableRecord
        /\ image' = image \/ CanCheckpoint(mopen)
    BY <1>1, ReadKept DEF MutationEffect, Beside
  <2>2. CanCheckpoint(mopen) => dfence = None
    <3>1. CanCheckpoint(mopen) => mfence # None
      BY <1>1, MOpen, BeginFields DEF CanCheckpoint, MutationEffect, MutationSteps
    <3>2. QED
      BY <3>1 DEF ExclInv, LedgersExclude
  <2> DEFINE k == Target(mopen.plan[midx])
  <2>3. k \in Components
    BY DEF Target, Components
  <2>4. \/ comp' = comp
        \/ comp' = [comp EXCEPT ![k] = "absent"]
        \/ comp' = [comp EXCEPT ![k] = IF @ = "original" THEN "absent" ELSE @]
    BY <1>1 DEF MutationEffect
  <2> HIDE DEF k
  <2>5. /\ \A c \in Components : comp[c] \in {"absent", "foreign"} => comp'[c] \in {"absent", "foreign"}
        /\ \A c \in Components : comp'[c] = "restored" => comp[c] = "restored"
    BY <2>3, <2>4, MKept
  <2>6. QED
    BY <2>1, <2>2, <2>5
<1>2. CASE BeginMutation
  <2>1. /\ UNCHANGED <<image, comp, dfence, did, owed, open, stopped, ops>>
        /\ dreceipt' = DisableRecord /\ dclearing' = None
    BY <1>2 DEF BeginMutation, Unaffected, DisableRecord
  <2>2. QED
    BY <2>1, ReadKept
<1>3. CASE BootDisableReceipt \/ BootReceipts
  <2>1. UNCHANGED <<comp, did, owed, open, stopped, ops>>
    BY <1>3 DEF BootDisableReceipt, BootReceipts, world
  <2>2. QED
    BY <1>3, <2>1, QuieterElsewhere
<1>4. CASE FinishFence
  BY <1>4, ReadKept DEF FinishFence, Beside, Unaffected
<1>5. CASE OpenEffect \/ RecordEffect \/ RecordUncertain \/ FinishReceipt \/ FinishClear
           \/ MutationAttention \/ BootClear \/ BootOrphanMutation
  <2>1. MQuieter
    BY <1>5, MQuieterMutation
  <2>2. UNCHANGED <<comp, did, owed, open, stopped, ops>>
    BY <1>5 DEF OpenEffect, RecordEffect, RecordUncertain, FinishReceipt, FinishClear, MutationAttention,
                BootClear, BootOrphanMutation, Beside, Unaffected
  <2>3. QED
    BY <2>1, <2>2 DEF MQuieter
<1>6. QED
  BY <1>1, <1>2, <1>3, <1>4, <1>5 DEF MutationCommand, MutationBoot

\* And of the other steps that are not its own.
LEMMA OutsideElsewhere ==
  ASSUME TypeInv,
         \/ BootLoad \/ Crash \/ UNCHANGED vars \/ PlainWrite \/ OneClickJournal \/ PlanMutation
         \/ \E c \in Components : ComponentChanges(c)
  PROVE  /\ DisableRecord' = DisableRecord /\ UNCHANGED <<dfence, did, owed>>
         /\ dfence # None => image' = image
         /\ \A c \in Components : comp[c] \in {"absent", "foreign"} => comp'[c] \in {"absent", "foreign"}
         /\ \A c \in Components : comp'[c] = "restored" => comp[c] = "restored"
<1>1. UNCHANGED <<dfence, did, owed>>
  BY DEF BootLoad, Crash, vars, PlainWrite, OneClickJournal, PlanMutation, ComponentChanges, world, config
<1>2. DisableRecord' = DisableRecord /\ (dfence # None => image' = image)
  <2>1. CASE PlainWrite
    BY <2>1, ReadKept DEF PlainWrite, Revive, DisableRecord
  <2>2. CASE OneClickJournal
    BY <2>2, ReadKept DEF OneClickJournal, ledgers
  <2>3. QED
    BY <2>1, <2>2, QuieterElsewhere
<1>3. /\ \A c \in Components : comp[c] \in {"absent", "foreign"} => comp'[c] \in {"absent", "foreign"}
      /\ \A c \in Components : comp'[c] = "restored" => comp[c] = "restored"
  <2>1. CASE comp' = comp
    BY <2>1
  <2>2. CASE PlanMutation
    BY <2>2 DEF PlanMutation
  <2>3. ASSUME NEW k \in Components, ComponentChanges(k) PROVE <1>3!1 /\ <1>3!2
    BY <2>3, MKept DEF ComponentChanges
  <2>4. QED
    BY <2>1, <2>2, <2>3 DEF BootLoad, Crash, vars, PlainWrite, OneClickJournal, world
<1>4. QED
  BY <1>1, <1>2, <1>3

LEMMA WorldPlan == ASSUME TypeInv, PlanDisable PROVE WorldInv'
<1>1. /\ DisableRecord' = None /\ dfence' = None /\ owed' = {}
  BY QuieterElsewhere, Opened DEF PlanDisable
<1>2. QED
  BY <1>1 DEF WorldInv, RecordTold, Anchored, Orphaned, OwedDown

LEMMA WorldNext ==
  ASSUME TypeInv, ExclInv, WorldInv, \A t \in Threads : Section(t), CommandSection, [Next]_vars
  PROVE  WorldInv'
<1>1. \A c \in owed : c \in Components
  BY DEF TypeInv, TypeOK
<1>2. ASSUME MutationCommand \/ MutationBoot PROVE WorldInv'
  BY <1>1, <1>2, OutsideMutation, WorldFrame
<1>3. ASSUME \/ BootLoad \/ Crash \/ UNCHANGED vars \/ PlainWrite \/ OneClickJournal \/ PlanMutation
             \/ \E c \in Components : ComponentChanges(c)
      PROVE  WorldInv'
  BY <1>1, <1>3, OutsideElsewhere, WorldFrame
<1>4. QED
  BY <1>2, <1>3, WorldPlan, WorldOfCommand, WorldOfBoot, WorldOfEither, ThreadsAre
  DEF Next, Command, Boot

-----------------------------------------------------------------------------
(* What the threads have in hand.                                              *)

\* The operations of the records and of the receipts in hand stay what they are.
Named ==
  /\ DisableRecord' # None => DisableRecord # None /\ DisableRecord'.op = DisableRecord.op
  /\ open'["boot"] # None => open["boot"] # None /\ open'["boot"].op = open["boot"].op

LEMMA NamedAdvance ==
  ASSUME TypeInv, NEW t \in Threads, pc[t] \in DisableSteps, Apart,
         NEW k \in {"Stopping", "EffectsApplied", "Restoring", "Restored", "ConfigCommitted", "Attention"},
         NEW c \in Targets, NEW S \in SUBSET Components, NEW then, NEW else,
         Advance(t, Phase(k, c, S), then, else)
  PROVE  Named
<1> DEFINE p == Phase(k, c, S)
           next == [open[t] EXCEPT !.phase = p]
<1>1. p \in Phases /\ Advance(t, p, then, else)
  BY PhaseMade
<1> HIDE DEF p
<1>2. /\ DisableRecord' = DisableRecord \/ (DisableRecord = open[t] /\ DisableRecord' = next)
      /\ open' = open \/ open' = [open EXCEPT ![t] = next]
  BY <1>1, AdvancedRecord
<1>3. next.op = open[t].op /\ open[t] # None
  BY <1>1, StepOpen, Phased, DisableFields
<1> HIDE DEF next
<1>4. \A u \in Threads : open'[u] = open[u] \/ (u = t /\ open'[u] = next)
  BY <1>2 DEF TypeInv, Kinds
<1>5. QED
  BY <1>2, <1>3, <1>4, ThreadsAre DEF Named

LEMMA NamedQuiet ==
  ASSUME open' = open,
         \/ UNCHANGED <<dreceipt, dclearing>>
         \/ dreceipt' = DisableRecord /\ dclearing' = None
  PROVE  Named
BY ReadKept DEF Named

LEMMA NamedEither == ASSUME TypeInv, NEW t \in Threads, DisableEither(t) PROVE Named
<1>0. /\ "none" \in Targets /\ stopped[t] \in SUBSET Components /\ {} \in SUBSET Components
      /\ {"retain", "committed", "restoring", "verify"} \subseteq DisableSteps
  BY Kept DEF Targets, DisableSteps
<1>1. CASE Fail(t) \/ Project(t) \/ RestoreCheck(t)
  BY <1>1, NamedQuiet DEF Fail, Project, RestoreCheck, DiskKept
<1>2. CASE RestoreScience(t) \/ RestoreGateway(t)
  BY <1>2, NamedQuiet DEF RestoreScience, RestoreGateway, Restart, DiskKept
<1>3. CASE Retain(t) \/ Committed(t) \/ Restoring(t)
  BY <1>0, <1>3, NamedAdvance DEF Retain, Committed, Restoring
<1>4. CASE Restored(t)
  BY <1>0, <1>4, NamedAdvance, NamedQuiet DEF Restored, DiskKept
<1>5. CASE ClearReceipt(t)
  <2>1. CASE UNCHANGED <<dreceipt, dclearing>>
    BY <1>5, <2>1, NamedQuiet DEF ClearReceipt
  <2>2. CASE CanClear(open[t]) /\ dreceipt' = None /\ dclearing' \in {None, open[t]}
    <3>1. DisableRecord = open[t] /\ DisableRecord' \in {None, open[t]} /\ open' = open
      BY <1>5, <2>2 DEF CanClear, DisableRecord, Read, ClearReceipt
    <3>2. QED
      BY <3>1 DEF Named
  <2>3. QED
    BY <1>5, <2>1, <2>2 DEF ClearReceipt
<1>6. CASE ClearFence(t)
  BY <1>6, NamedQuiet DEF ClearFence, DisableRecord
<1>7. QED
  BY <1>1, <1>2, <1>3, <1>4, <1>5, <1>6 DEF DisableEither

LEMMA NamedCommand ==
  ASSUME TypeInv, Reconcile \/ Stopping \/ EffectLease \/ Effect \/ EffectsApplied \/ Unproved \/ CommitConfig
  PROVE  Named
<1>0. "none" \in Targets /\ stopped["cmd"] \in SUBSET Components /\ "cmd" \in Threads
      /\ NextTarget(open["cmd"], stopped["cmd"]) \in Targets
      /\ {"stopping", "applied"} \subseteq DisableSteps
  BY Kept, ThreadsAre DEF Targets, NextTarget, Components, DisableSteps
<1>1. CASE Reconcile
  BY <1>1, NamedQuiet DEF Reconcile, DisableRecord
<1>2. CASE EffectLease \/ Effect \/ Unproved \/ CommitConfig
  BY <1>2, NamedQuiet DEF EffectLease, Effect, Unproved, CommitConfig, DiskKept
<1>3. CASE Stopping \/ EffectsApplied
  BY <1>0, <1>3, NamedAdvance DEF Stopping, EffectsApplied
<1>4. QED
  BY <1>1, <1>2, <1>3

LEMMA FreshFrame ==
  ASSUME TypeInv, Fresh, ops' = ops,
         DisableRecord' # None => DisableRecord # None /\ DisableRecord'.op = DisableRecord.op,
         \/ open'["boot"] = DisableRecord \/ open'["boot"] = None
         \/ open["boot"] # None /\ open'["boot"].op = open["boot"].op,
         pc'["cmd"] = "publish" => pc["cmd"] = "publish" /\ open'["cmd"] = open["cmd"]
  PROVE  Fresh'
<1>1. CASE pc'["cmd"] = "publish"
  BY <1>1 DEF Fresh
<1>2. CASE pc'["cmd"] # "publish"
  BY <1>2 DEF Fresh
<1>3. QED
  BY <1>1, <1>2

LEMMA WalkedApart ==
  ASSUME TypeInv, NEW t \in Threads, Walked(t), \A u \in Threads \ {t} : open'[u] = open[u]
  PROVE  /\ pc'["cmd"] = "publish" => pc["cmd"] = "publish" /\ open'["cmd"] = open["cmd"]
         /\ ops' = ops
<1>1. PICK x \in Walks \cup {"idle", "read"} : pc' = [pc EXCEPT ![t] = x]
  BY DEF Walked
<1>2. x # "publish"
  BY DEF Walks
<1>3. \A u \in Threads : pc'[u] = IF u = t THEN x ELSE pc[u]
  BY <1>1 DEF TypeInv, TypeOK
<1>4. QED
  BY <1>2, <1>3, ThreadsAre DEF Walked

\* Where a step of the mutation ledger leads.
LEMMA MutationMoves ==
  ASSUME TypeInv, MutationCommand
  PROVE  pc["cmd"] \in MutationSteps /\ pc'["cmd"] \in MPlain \cup {"idle"} /\ pc'["boot"] = pc["boot"]
<1>1. \E x \in MPlain \cup {"idle"} : pc' = [pc EXCEPT !["cmd"] = x]
  <2>1. CASE BeginMutation \/ MutationEffect \/ FinishFence \/ FinishClear \/ MutationAttention
    BY <2>1 DEF BeginMutation, MutationEffect, FinishFence, FinishClear, MutationAttention, Finish,
                Goto, MPlain
  <2> DEFINE a == AttentionAt(mopen, midx)
             b == AttentionAt(mopen, midx + 1)
  <2>2. a \in MPlain /\ b \in MPlain
    BY AttentionPlain DEF MPlain
  <2>3. ASSUME NEW next, NEW then \in MPlain, NEW else \in MPlain, Checkpoint(next, then, else)
        PROVE  <1>1
    BY <2>3, Checking
  <2>4. CASE OpenEffect
    <3> DEFINE n == WithEffect(mopen, First(ToOpen(mopen, midx)), "InProgress")
    <3>1. Goto("cmd", "m_effect") \/ Checkpoint(n, "m_open", a)
      BY <2>4 DEF OpenEffect
    <3> HIDE DEF n, a
    <3>2. QED
      BY <2>2, <2>3, <3>1 DEF Goto, MPlain
  <2>5. CASE RecordEffect
    <3> DEFINE n == WithEffect(mopen, midx, "Succeeded")
               y == IF midx = Len(mopen.plan) THEN "m_complete" ELSE "m_open"
    <3>1. Checkpoint(n, y, b)
      BY <2>5 DEF RecordEffect
    <3>2. y \in MPlain
      BY DEF MPlain
    <3> HIDE DEF n, y, b
    <3>3. QED
      BY <2>2, <2>3, <3>1, <3>2
  <2>6. CASE RecordUncertain
    <3> DEFINE n == WithEffect(mopen, midx, "Uncertain")
    <3>1. Checkpoint(n, a, a)
      BY <2>6 DEF RecordUncertain
    <3> HIDE DEF n, a
    <3>2. QED
      BY <2>2, <2>3, <3>1
  <2>7. CASE FinishReceipt
    <3>1. PICK n : Checkpoint(n, "m_fence", "m_end")
      BY <2>7 DEF FinishReceipt
    <3>2. QED
      BY <2>3, <3>1 DEF MPlain
  <2>8. QED
    BY <2>1, <2>4, <2>5, <2>6, <2>7 DEF MutationCommand
<1>2. pc["cmd"] \in MutationSteps
  BY DEF MutationCommand, BeginMutation, OpenEffect, MutationEffect, RecordEffect, RecordUncertain,
         FinishReceipt, FinishFence, FinishClear, MutationAttention, MutationSteps
<1>3. QED
  BY <1>1, <1>2, ThreadsAre DEF TypeInv, TypeOK

LEMMA MutationBootMoves ==
  ASSUME TypeInv, MutationBoot
  PROVE  pc'["boot"] \in {"idle", "orphan", "b_orphan", "b_clear", "b_mutation"} /\ pc'["cmd"] = pc["cmd"]
<1>1. \E x \in {"idle", "orphan", "b_orphan", "b_clear", "b_mutation"} : pc' = [pc EXCEPT !["boot"] = x]
  BY DEF MutationBoot, BootDisableReceipt, BootReceipts, BootClear, BootOrphanMutation, Finish, Goto
<1>2. QED
  BY <1>1, BootApart

LEMMA FreshNext == ASSUME TypeInv, ExclInv, LeaseInv, Fresh, [Next]_vars PROVE Fresh'
<1>1. ASSUME NEW t \in Threads, DisableEither(t) PROVE Fresh'
  <2>1. \A u \in Threads \ {t} : open'[u] = open[u]
    BY <1>1, LeaseEither
  <2>2. QED
    BY <1>1, <2>1, NamedEither, WalkedEither, WalkedApart, FreshFrame DEF Named
<1>2. ASSUME Reconcile \/ Stopping \/ EffectLease \/ Effect \/ EffectsApplied \/ Unproved \/ CommitConfig
      PROVE  Fresh'
  <2>1. Named /\ Walked("cmd")
    BY <1>2, NamedCommand, WalkedCommand DEF DisableCommand
  <2>2. PICK x \in Walks \cup {"idle", "read"} : pc' = [pc EXCEPT !["cmd"] = x]
    BY <2>1 DEF Walked
  <2>3. pc'["cmd"] # "publish"
    BY <2>2, ThreadsAre DEF Walks, TypeInv, TypeOK
  <2>4. QED
    BY <2>1, <2>3, FreshFrame DEF Named, Walked
<1>3. ASSUME PublishIntent PROVE Fresh'
  <2>1. /\ pc["cmd"] = "publish" /\ pc' = [pc EXCEPT !["cmd"] = "reconcile"] /\ UNCHANGED <<open, ops>>
        /\ dreceipt' \in {open["cmd"], DisableRecord} /\ dclearing' = None
    BY <1>3 DEF PublishIntent, Goto, DisableRecord
  <2>2. DisableRecord' \in {open["cmd"], DisableRecord} /\ pc'["cmd"] = "reconcile"
    BY <2>1, ThreadsAre DEF TypeInv, TypeOK, DisableRecord, Read
  <2>3. QED
    BY <2>1, <2>2 DEF Fresh
<1>4. ASSUME DisableBoot PROVE Fresh'
  <2>1. Walked("boot") /\ (open' = open \/ open' = [open EXCEPT !["boot"] = DisableRecord])
        /\ (UNCHANGED <<dreceipt, dclearing>> \/ (dreceipt' = DisableRecord /\ dclearing' = None))
    BY <1>4, WalkedBoot DEF DisableBoot, BootOrphanFence, BootRead, BootImage, BootReplay, DiskKept, DisableRecord
  <2>2. open'["cmd"] = open["cmd"] /\ open'["boot"] \in {open["boot"], DisableRecord}
    BY <2>1, ThreadsAre DEF TypeInv, Kinds
  <2>3. DisableRecord' = DisableRecord
    BY <2>1, ReadKept
  <2>4. pc'["cmd"] = pc["cmd"] /\ ops' = ops
    BY <2>1, BootApart DEF Walked
  <2>5. QED
    BY <2>2, <2>3, <2>4 DEF Fresh
<1>5. ASSUME PlanDisable PROVE Fresh'
  <2>1. /\ DisableRecord' = None /\ ops' = ops + 1 /\ ops \in Nat
        /\ open'["cmd"].op = ops + 1 /\ open'["boot"] = open["boot"]
    BY <1>5, QuieterElsewhere, Opened, ThreadsAre, BoundsAssumption DEF PlanDisable, TypeInv, TypeOK, Kinds
  <2>2. open["boot"] # None => open["boot"].op \in Nat
    BY ThreadsAre, DisableFields, BoundsAssumption DEF TypeInv, Kinds, Ops
  <2>3. QED
    BY <2>1, <2>2 DEF Fresh
<1>6. ASSUME PlanMutation PROVE Fresh'
  <2>0. /\ ops' = ops + 1 /\ open' = open /\ NoReceipts
    BY <1>6 DEF PlanMutation
  <2>1. /\ DisableRecord' = None /\ ops' = ops + 1 /\ ops \in Nat /\ open' = open
    BY <1>6, <2>0, QuieterElsewhere, Opened, BoundsAssumption DEF TypeInv, TypeOK
  <2>2. open["boot"] # None => open["boot"].op \in Nat
    BY ThreadsAre, DisableFields, BoundsAssumption DEF TypeInv, Kinds, Ops
  <2>3. pc'["cmd"] = "m_begin"
    BY <1>6, ThreadsAre DEF PlanMutation, Goto, TypeInv, TypeOK
  <2>4. QED
    BY <2>1, <2>2, <2>3 DEF Fresh
<1>7. ASSUME MutationCommand \/ MutationBoot PROVE Fresh'
  <2>1. DisableRecord' = DisableRecord /\ UNCHANGED <<open, ops>>
    BY <1>7, OutsideMutation
  <2>2. pc'["cmd"] = "publish" => pc["cmd"] = "publish"
    BY <1>7, MutationMoves, MutationBootMoves DEF MPlain
  <2>3. QED
    BY <2>1, <2>2 DEF Fresh
<1>8. ASSUME \/ BootLoad \/ Crash \/ UNCHANGED vars \/ PlainWrite \/ OneClickJournal
             \/ \E c \in Components : ComponentChanges(c)
      PROVE  Fresh'
  <2>1. DisableRecord' = DisableRecord
    BY <1>8, OutsideElsewhere
  <2>2. ops' = ops
    BY <1>8 DEF BootLoad, Crash, vars, budgets, PlainWrite, OneClickJournal, ComponentChanges
  <2>3. CASE Crash
    <3>1. pc'["cmd"] = "idle" /\ open'["boot"] = None
      BY <2>3, ThreadsAre DEF Crash
    <3>2. QED
      BY <2>1, <2>2, <3>1 DEF Fresh
  <2>4. CASE ~Crash
    <3>1. open' = open
      BY <1>8, <2>4 DEF BootLoad, vars, threads, PlainWrite, OneClickJournal, ComponentChanges
    <3>2. pc'["cmd"] = pc["cmd"]
      <4>1. pc' = pc \/ pc' = [pc EXCEPT !["boot"] = "b_receipts"]
        BY <1>8, <2>4 DEF BootLoad, Goto, vars, threads, PlainWrite, OneClickJournal, ComponentChanges
      <4>2. QED
        BY <4>1, BootApart
    <3>3. QED
      BY <2>1, <2>2, <3>1, <3>2 DEF Fresh
  <2>5. QED
    BY <2>3, <2>4
<1>9. QED
  BY <1>1, <1>2, <1>3, <1>4, <1>5, <1>6, <1>7, <1>8, ThreadsAre DEF Next, Command, Boot, DisableCommand

\* The boot decision has left the before-image of its receipt behind.
Late == {"committed", "clear", "unfence"}

LEMMA LateFrame ==
  ASSUME TypeInv, BootLate, pc'["boot"] = pc["boot"], open'["boot"] = open["boot"],
         lease = "boot" => lease' = "boot",
         dfence' # None => dfence' = dfence /\ image' = image
  PROVE  BootLate'
<1>1. CASE pc["boot"] \in Late
  <2>1. DisableFence(open["boot"]) # None
    BY <1>1, StepOpen, FenceFields, ThreadsAre DEF Late, DisableSteps
  <2>2. QED
    BY <2>1 DEF BootLate, Over
<1>2. CASE pc["boot"] \notin Late
  BY <1>2 DEF Late, BootLate
<1>3. QED
  BY <1>1, <1>2

LEMMA LateBoot ==
  ASSUME TypeInv, BootLate, NEW x, LeaseStep("boot", x), pc["boot"] \in DisableSteps,
         x \in Late => pc["boot"] \in Late \/ lease = "boot",
         DisableFence(open'["boot"]) = DisableFence(open["boot"]),
         open'["boot"].before = open["boot"].before,
         dfence' # None => dfence' = dfence /\ image' = image
  PROVE  BootLate'
<1>1. pc'["boot"] = x
  BY BootApart DEF LeaseStep
<1>2. CASE x \in Late
  <2>1. x # "idle"
    BY <1>2 DEF Late
  <2>2. lease' = lease
    BY <2>1 DEF LeaseStep
  <2>3. DisableFence(open["boot"]) # None
    BY StepOpen, FenceFields, ThreadsAre
  <2>4. QED
    BY <1>1, <1>2, <2>2, <2>3 DEF BootLate, Over, Late
<1>3. CASE x \notin Late
  BY <1>1, <1>3 DEF Late, BootLate
<1>4. QED
  BY <1>2, <1>3

\* A step both threads take leaves the names of the receipt and reaches the end of an
\* operation from there or from the last check of the restore.
LEMMA LateAdvance ==
  ASSUME TypeInv, NEW t \in Threads, pc[t] \in DisableSteps, Apart,
         NEW phase \in Phases, NEW then, NEW else, Advance(t, phase, then, else)
  PROVE  /\ LeaseStep(t, then) \/ LeaseStep(t, else)
         /\ DisableFence(open'[t]) = DisableFence(open[t]) /\ open'[t].before = open[t].before
<1> DEFINE next == [open[t] EXCEPT !.phase = phase]
<1>1. /\ \/ open' = [open EXCEPT ![t] = next] /\ pc' = [pc EXCEPT ![t] = then]
         \/ open' = open /\ pc' = [pc EXCEPT ![t] = else]
      /\ lease' = lease
  BY Advancing
<1>2. next.before = open[t].before /\ DisableFence(next) = DisableFence(open[t])
  BY StepOpen, Phased
<1> HIDE DEF next
<1>3. open'[t] \in {next, open[t]}
  BY <1>1 DEF TypeInv, Kinds
<1>4. QED
  BY <1>1, <1>2, <1>3 DEF LeaseStep

LEMMA LateEither ==
  ASSUME TypeInv, NEW t \in Threads, DisableEither(t)
  PROVE  /\ \E x : LeaseStep(t, x) /\ (x \in Late => pc[t] \in Late \cup {"verify"})
         /\ DisableFence(open'[t]) = DisableFence(open[t]) /\ open'[t].before = open[t].before
         /\ pc[t] \in DisableSteps
<1>0. /\ "none" \in Targets /\ stopped[t] \in SUBSET Components /\ {} \in SUBSET Components
      /\ {"retain", "committed", "restoring", "verify", "fail", "project", "clear", "unfence",
          "restore", "science", "gateway"} \subseteq DisableSteps
      /\ {"project", "idle", "restoring", "science", "gateway", "verify"} \cap Late = {}
      /\ Late = {"committed", "clear", "unfence"}
  BY Kept DEF Targets, DisableSteps, Late
<1>1. CASE Fail(t)
  BY <1>0, <1>1 DEF Fail, Goto, LeaseStep, ThreadKept
<1>2. CASE Project(t)
  BY <1>0, <1>2 DEF Project, Finish, Goto, LeaseStep
<1>3. CASE Retain(t)
  <2>1. Phase("Attention", "none", {}) \in Phases
    BY <1>0, PhaseMade
  <2>2. pc[t] = "retain" /\ Apart /\ Advance(t, Phase("Attention", "none", {}), "project", "project")
    BY <1>3 DEF Retain
  <2>3. QED
    BY <1>0, <2>1, <2>2, LateAdvance
<1>4. CASE Committed(t)
  <2> DEFINE p == Phase("ConfigCommitted", "none", {})
             else == IF t = "cmd" THEN "retain" ELSE "fail"
  <2>1. p \in Phases
    BY <1>0, PhaseMade
  <2>2. pc[t] = "committed" /\ Apart /\ Advance(t, p, "clear", else)
    BY <1>4 DEF Committed
  <2> HIDE DEF p, else
  <2>3. QED
    BY <1>0, <2>1, <2>2, LateAdvance
<1>5. CASE ClearReceipt(t)
  BY <1>0, <1>5 DEF ClearReceipt, Goto, LeaseStep, ThreadKept
<1>6. CASE ClearFence(t)
  BY <1>0, <1>6 DEF ClearFence, Finish, Goto, LeaseStep, ThreadKept
<1>7. CASE RestoreCheck(t)
  BY <1>0, <1>7 DEF RestoreCheck, Goto, LeaseStep, ThreadKept
<1>8. CASE Restoring(t)
  <2>1. Phase("Restoring", "none", stopped[t]) \in Phases
    BY <1>0, PhaseMade
  <2>2. pc[t] = "restoring" /\ Apart
        /\ Advance(t, Phase("Restoring", "none", stopped[t]), "science", "project")
    BY <1>8 DEF Restoring
  <2>3. QED
    BY <1>0, <2>1, <2>2, LateAdvance
<1>9. CASE RestoreScience(t) \/ RestoreGateway(t)
  BY <1>0, <1>9 DEF RestoreScience, RestoreGateway, Restart, Goto, LeaseStep, ThreadKept
<1>10. CASE Restored(t)
  <2>0. pc[t] = "verify" /\ Apart
    BY <1>10 DEF Restored
  <2>1. CASE Advance(t, Phase("Restored", "none", stopped[t]), "clear", "project")
    <3>1. Phase("Restored", "none", stopped[t]) \in Phases
      BY <1>0, PhaseMade
    <3>2. QED
      BY <1>0, <2>0, <2>1, <3>1, LateAdvance
  <2>2. CASE Goto(t, "project") /\ ThreadKept /\ UNCHANGED open
    BY <1>0, <2>0, <2>2 DEF Goto, LeaseStep, ThreadKept
  <2>3. QED
    BY <1>10, <2>1, <2>2 DEF Restored
<1>11. QED
  BY <1>1, <1>2, <1>3, <1>4, <1>5, <1>6, <1>7, <1>8, <1>9, <1>10 DEF DisableEither

LEMMA LateOfEither ==
  ASSUME TypeInv, LeaseInv, BootLate, NEW t \in Threads, DisableEither(t) PROVE BootLate'
<1>1. dfence' # None => dfence' = dfence /\ image' = image
  BY QuieterEither DEF Quieter
<1>2. PICK x : LeaseStep(t, x) /\ (x \in Late => pc[t] \in Late \cup {"verify"})
  BY LateEither
<1>3. CASE t = "boot"
  BY <1>1, <1>2, <1>3, LateEither, LateBoot DEF LeaseInv, Backward
<1>4. CASE t = "cmd"
  <2>1. pc'["boot"] = pc["boot"] /\ open'["boot"] = open["boot"]
    BY <1>2, <1>4, ThreadsAre, LeaseEither DEF LeaseStep, TypeInv, TypeOK
  <2>2. lease = "boot" => lease' = "boot"
    BY <1>2, <1>4 DEF LeaseStep
  <2>3. QED
    BY <1>1, <2>1, <2>2, LateFrame
<1>5. QED
  BY <1>3, <1>4, ThreadsAre

LEMMA LateOfCommand ==
  ASSUME TypeInv, LeaseInv, Fresh, BootLate, \A t \in Threads : Section(t), DisableCommand
  PROVE  BootLate'
<1>0. /\ lease = "cmd" /\ \E x : pc' = [pc EXCEPT !["cmd"] = x]
  BY WalkedCommand DEF DisableCommand, LeaseInv, PublishIntent, Reconcile,
     Stopping, EffectLease, Effect, EffectsApplied, Unproved, CommitConfig, Walked
<1>1. pc'["boot"] = pc["boot"] /\ lease # "boot"
  BY <1>0, ThreadsAre DEF TypeInv, TypeOK
<1>2. open'["boot"] = open["boot"]
  <2>1. CASE Stopping \/ EffectsApplied
    <3>1. \E p : open' = open \/ open' = [open EXCEPT !["cmd"] = [open["cmd"] EXCEPT !.phase = p]]
      BY <2>1, Advancing DEF Stopping, EffectsApplied
    <3>2. QED
      BY <3>1, ThreadsAre DEF TypeInv, Kinds
  <2>2. CASE ~(Stopping \/ EffectsApplied)
    BY <2>2 DEF DisableCommand, PublishIntent, Reconcile, EffectLease, Effect, Unproved, CommitConfig
  <2>3. QED
    BY <2>1, <2>2
<1>3. CASE PublishIntent
  <2> DEFINE r == open["cmd"]
             b == open["boot"]
  <2>1. /\ UNCHANGED image /\ pc["cmd"] = "publish"
        /\ dfence' = dfence \/ dfence' = DisableFence(r)
    BY <1>3 DEF PublishIntent
  <2>2. CASE dfence' = dfence
    BY <1>1, <1>2, <2>1, <2>2, LateFrame
  <2>3. CASE dfence' = DisableFence(r) /\ pc["boot"] \in Late
    <3>1. r \in DisableReceipts /\ b \in DisableReceipts
      BY <2>1, <2>3, StepOpen, ThreadsAre DEF Late, DisableSteps
    <3>2. b.op < r.op /\ b.op \in Nat
      BY <2>1, <3>1, DisableFields, BoundsAssumption DEF Fresh, Ops
    <3>3. DisableFence(b) # dfence'
      BY <2>3, <3>1, <3>2, SameFence
    <3>4. QED
      BY <1>2, <3>3 DEF BootLate, Over
  <2>4. CASE pc["boot"] \notin Late
    BY <1>1, <2>4 DEF BootLate, Late
  <2>5. QED
    BY <2>1, <2>2, <2>3, <2>4
<1>4. CASE CommitConfig
  <2> DEFINE r == open["cmd"]
  <2>1. pc["cmd"] = "commit" /\ dfence' = dfence /\ (image' = image \/ image' = r.after)
    BY <1>4 DEF CommitConfig
  <2>2. CASE image' = image
    BY <1>1, <1>2, <2>1, <2>2, LateFrame
  <2>3. CASE image' = r.after /\ pc["boot"] \in Late
    <3>1. WellFormed(r) /\ dfence = DisableFence(r) /\ open["boot"] \in DisableReceipts
      BY <2>1, <2>3, StepOpen, ThreadsAre DEF Late, DisableSteps, Section, Over, Forward
    <3>2. r.before # r.after /\ r \in DisableReceipts
      BY <3>1, Sides DEF WellFormed
    <3>3. DisableFence(open["boot"]) = dfence => open["boot"].before = r.before
      BY <3>1, <3>2, SameFence
    <3>4. QED
      BY <1>2, <2>1, <2>3, <3>2, <3>3 DEF BootLate, Over
  <2>4. CASE pc["boot"] \notin Late
    BY <1>1, <2>4 DEF BootLate, Late
  <2>5. QED
    BY <2>1, <2>2, <2>3, <2>4
<1>5. CASE ~PublishIntent /\ ~CommitConfig
  <2>1. dfence' # None => dfence' = dfence /\ image' = image
    BY <1>5, QuieterCommand DEF Quieter, DisableCommand
  <2>2. QED
    BY <1>1, <1>2, <2>1, LateFrame
<1>6. QED
  BY <1>3, <1>4, <1>5

LEMMA LateOfBoot == ASSUME TypeInv, LeaseInv, BootLate, DisableBoot PROVE BootLate'
<1>0. {"read", "idle", "image", "replay", "project", "restore", "fail"} \cap Late = {}
  BY DEF Late
<1>1. CASE BootOrphanFence \/ BootRead
  <2>1. \E x \in {"read", "idle", "image"} : pc' = [pc EXCEPT !["boot"] = x]
    BY <1>1 DEF BootOrphanFence, BootRead, Finish, Goto
  <2>2. QED
    BY <1>0, <2>1, BootApart DEF BootLate, Late
<1>2. CASE BootImage
  <2> DEFINE r == open["boot"]
  <2>1. WellFormed(r) /\ UNCHANGED <<image, dfence, open>>
    BY <1>2, StepOpen, ThreadsAre DEF BootImage, DisableSteps, DiskKept
  <2>2. r.before # r.after
    BY <2>1, Sides
  <2>3. Over("boot") => \E x \in {"replay", "fail"} : pc' = [pc EXCEPT !["boot"] = x]
    BY <1>2, <2>2 DEF BootImage, Goto, Over
  <2>4. Over("boot") => pc'["boot"] \in {"replay", "fail"}
    BY <2>3, BootApart
  <2>5. QED
    BY <1>0, <2>1, <2>4 DEF BootLate, Over
<1>3. CASE BootReplay
  BY <1>3 DEF BootReplay, BootLate
<1>4. QED
  BY <1>1, <1>2, <1>3 DEF DisableBoot

LEMMA LateNext ==
  ASSUME TypeInv, ExclInv, LeaseInv, Fresh, BootLate, \A t \in Threads : Section(t), [Next]_vars
  PROVE  BootLate'
<1>1. ASSUME MutationCommand PROVE BootLate'
  <2>1. /\ UNCHANGED <<dfence, open>> /\ (dfence # None => image' = image)
    BY <1>1, OutsideMutation
  <2>2. pc'["boot"] = pc["boot"] /\ lease = "cmd"
    BY <1>1, MutationMoves DEF LeaseInv, MutationSteps
  <2>3. QED
    BY <2>1, <2>2, LateFrame
<1>2. ASSUME MutationBoot PROVE BootLate'
  BY <1>2, MutationBootMoves DEF BootLate
<1>3. ASSUME PlanDisable \/ PlanMutation PROVE BootLate'
  <2>1. /\ dfence' = dfence /\ image' = image
    BY <1>3, QuieterElsewhere
  <2>2. /\ lease = "none" /\ \E x : pc' = [pc EXCEPT !["cmd"] = x]
        /\ open' = open \/ \E r : open' = [open EXCEPT !["cmd"] = r]
    BY <1>3 DEF PlanDisable, PlanMutation, Goto
  <2>3. pc'["boot"] = pc["boot"] /\ open'["boot"] = open["boot"]
    BY <2>2, ThreadsAre DEF TypeInv, TypeOK, Kinds
  <2>4. QED
    BY <2>1, <2>2, <2>3, LateFrame
<1>4. ASSUME \/ UNCHANGED vars \/ PlainWrite \/ OneClickJournal
             \/ \E c \in Components : ComponentChanges(c)
      PROVE  BootLate'
  <2>1. dfence' = dfence /\ (dfence # None => image' = image)
    BY <1>4, OutsideElsewhere
  <2>2. UNCHANGED <<pc, open, lease>>
    BY <1>4 DEF vars, threads, PlainWrite, OneClickJournal, ComponentChanges
  <2>3. QED
    BY <2>1, <2>2, LateFrame
<1>5. ASSUME BootLoad \/ Crash PROVE BootLate'
  <2>1. pc'["boot"] \in {"b_receipts", "idle"}
    BY <1>5, BootApart, ThreadsAre DEF BootLoad, Goto, Crash
  <2>2. QED
    BY <2>1 DEF BootLate
<1>6. QED
  BY <1>1, <1>2, <1>3, <1>4, <1>5, LateOfEither, LateOfCommand, LateOfBoot, ThreadsAre
  DEF Next, Command, Boot

\* No step but the error of an operation without inverse authority takes the boot decision
\* to the mark, and no other thread moves it or its receipt.
LEMMA MarkingFrame ==
  ASSUME Marking, pc'["boot"] # "retain" \/ (pc'["boot"] = pc["boot"] /\ open'["boot"] = open["boot"])
  PROVE  Marking'
BY DEF Marking

LEMMA MarkingAdvance ==
  ASSUME TypeInv, NEW phase, NEW then, NEW else, Advance("boot", phase, then, else),
         then # "retain", else # "retain"
  PROVE  pc'["boot"] # "retain"
<1>1. \/ pc' = [pc EXCEPT !["boot"] = then] \/ pc' = [pc EXCEPT !["boot"] = else]
  BY Advancing
<1>2. QED
  BY <1>1, BootApart

LEMMA MarkingOfBoot ==
  ASSUME TypeInv, Marking, DisableBoot \/ DisableEither("boot") PROVE Marking'
<1>1. CASE Fail("boot")
  <2>1. open' = open
    BY <1>1 DEF Fail
  <2>2. CASE InverseProgress(open["boot"].phase)
    <3>1. pc' = [pc EXCEPT !["boot"] = "project"]
      BY <1>1, <2>2 DEF Fail, Goto
    <3>2. pc'["boot"] = "project"
      BY <3>1, BootApart
    <3>3. QED
      BY <3>2, MarkingFrame
  <2>3. CASE ~InverseProgress(open["boot"].phase)
    BY <2>1, <2>3 DEF Marking
  <2>4. QED
    BY <2>2, <2>3
<1>2. CASE Retain("boot") \/ Committed("boot") \/ Restoring("boot")
  BY <1>2, MarkingAdvance, MarkingFrame DEF Retain, Committed, Restoring
<1>3. CASE Restored("boot")
  <2>1. CASE Advance("boot", Phase("Restored", "none", stopped["boot"]), "clear", "project")
    BY <2>1, MarkingAdvance, MarkingFrame
  <2>2. CASE Goto("boot", "project")
    BY <2>2, BootApart, MarkingFrame DEF Goto
  <2>3. QED
    BY <1>3, <2>1, <2>2 DEF Restored
<1>4. ASSUME NEW x \in {"project", "idle", "fail", "unfence", "restoring", "gateway", "verify", "read",
                       "image", "clear", "committed", "replay", "restore"},
             pc' = [pc EXCEPT !["boot"] = x]
      PROVE  Marking'
  BY <1>4, BootApart, MarkingFrame
<1>5. CASE Project("boot") \/ ClearReceipt("boot") \/ ClearFence("boot")
  BY <1>4, <1>5 DEF Project, ClearReceipt, ClearFence, Finish, Goto
<1>6. CASE RestoreCheck("boot") \/ RestoreScience("boot") \/ RestoreGateway("boot")
  BY <1>4, <1>6 DEF RestoreCheck, RestoreScience, RestoreGateway, Restart, Goto
<1>7. CASE BootOrphanFence \/ BootRead
  BY <1>4, <1>7 DEF BootOrphanFence, BootRead, Finish, Goto
<1>8. CASE BootImage \/ BootReplay
  BY <1>4, <1>8 DEF BootImage, BootReplay, Goto
<1>9. QED
  BY <1>1, <1>2, <1>3, <1>5, <1>6, <1>7, <1>8 DEF DisableBoot, DisableEither

LEMMA MarkingNext == ASSUME TypeInv, ExclInv, LeaseInv, Marking, [Next]_vars PROVE Marking'
<1>1. CASE DisableBoot \/ DisableEither("boot")
  BY <1>1, MarkingOfBoot
<1>2. CASE DisableEither("cmd")
  <2>1. PICK x : /\ LeaseStep("cmd", x) /\ \A u \in Threads \ {"cmd"} : open'[u] = open[u]
    BY <1>2, ThreadsAre, LeaseEither
  <2>2. pc'["boot"] = pc["boot"] /\ open'["boot"] = open["boot"]
    BY <2>1, ThreadsAre DEF LeaseStep, TypeInv, TypeOK
  <2>3. QED
    BY <2>2, MarkingFrame
<1>3. CASE DisableCommand
  <2>1. pc'["boot"] = pc["boot"]
    <3>1. \E x : pc' = [pc EXCEPT !["cmd"] = x]
      BY <1>3, WalkedCommand DEF Walked
    <3>2. QED
      BY <3>1, ThreadsAre DEF TypeInv, TypeOK
  <2>2. open'["boot"] = open["boot"]
    <3>1. CASE Stopping \/ EffectsApplied
      <4>1. \E p : open' = open \/ open' = [open EXCEPT !["cmd"] = [open["cmd"] EXCEPT !.phase = p]]
        BY <3>1, Advancing DEF Stopping, EffectsApplied
      <4>2. QED
        BY <4>1, ThreadsAre DEF TypeInv, Kinds
    <3>2. CASE ~(Stopping \/ EffectsApplied)
      BY <1>3, <3>2 DEF DisableCommand, PublishIntent, Reconcile, EffectLease, Effect, Unproved, CommitConfig
    <3>3. QED
      BY <3>1, <3>2
  <2>3. QED
    BY <2>1, <2>2, MarkingFrame
<1>4. CASE MutationCommand
  <2>1. open' = open
    BY <1>4, OutsideMutation
  <2>2. pc'["boot"] = pc["boot"]
    BY <1>4, MutationMoves
  <2>3. QED
    BY <2>1, <2>2, MarkingFrame
<1>5. CASE MutationBoot
  BY <1>5, MutationBootMoves, MarkingFrame
<1>6. CASE PlanDisable \/ PlanMutation
  <2>1. /\ \E x : pc' = [pc EXCEPT !["cmd"] = x]
        /\ open' = open \/ \E r : open' = [open EXCEPT !["cmd"] = r]
    BY <1>6 DEF PlanDisable, PlanMutation, Goto
  <2>2. QED
    BY <2>1, MarkingFrame, ThreadsAre DEF TypeInv, TypeOK, Kinds
<1>7. CASE \/ UNCHANGED vars \/ PlainWrite \/ OneClickJournal
           \/ \E c \in Components : ComponentChanges(c)
  <2>1. UNCHANGED <<pc, open>>
    BY <1>7 DEF vars, threads, PlainWrite, OneClickJournal, ComponentChanges
  <2>2. QED
    BY <2>1, MarkingFrame
<1>8. CASE BootLoad \/ Crash
  <2>1. pc'["boot"] \in {"b_receipts", "idle"}
    BY <1>8, BootApart, ThreadsAre DEF BootLoad, Goto, Crash
  <2>2. QED
    BY <2>1, MarkingFrame
<1>9. QED
  BY <1>1, <1>2, <1>3, <1>4, <1>5, <1>6, <1>7, <1>8, ThreadsAre DEF Next, Command, Boot

\* A thread at none of the steps its section speaks of.
LEMMA SectionFree ==
  ASSUME NEW t, pc'[t] \notin Forward \cup Backward \cup {"restore", "restoring", "clear"}
  PROVE  Section(t)'
BY DEF Section, Backward

LEMMA CommandFree ==
  ASSUME pc'["cmd"] \notin Forward \cup {"publish", "reconcile", "unstarted"}
  PROVE  CommandSection'
BY DEF CommandSection, Forward

\* The boot decision has no section without the lease.
LEMMA BootFree == ASSUME LeaseInv', lease' # "boot" PROVE Section("boot")'
BY DEF LeaseInv, Section, Backward

\* A step of something else leaves a thread its section.
LEMMA SectionFrame ==
  ASSUME TypeInv, NEW t \in Threads, Section(t), pc'[t] = pc[t], open'[t] = open[t], stopped'[t] = stopped[t],
         UNCHANGED <<did, owed>>, dfence # None => image' = image,
         pc[t] \in Forward \cup Backward => dfence' = dfence,
         t = "boot" \/ pc[t] \in Backward => DisableRecord' = DisableRecord,
         pc[t] \in Forward => DisableRecord' = DisableRecord \/ Marked'
  PROVE  Section(t)'
<1>1. pc[t] \in Forward \cup Backward => DisableFence(open[t]) # None
  BY StepOpen, FenceFields DEF Forward, Backward, DisableSteps
<1>2. /\ (pc[t] \in Forward \cup Backward => Over(t))'
      /\ (pc[t] \in Forward => DisableRecord = open[t] \/ Marked)'
      /\ (pc[t] \in Backward => DisableRecord = open[t])'
  BY <1>1 DEF Section, Over, Marked
<1>3. (pc[t] \in {"restore", "restoring"} /\ (t = "cmd" \/ DisableRecord = open[t]) => Stood(t))'
  BY ThreadsAre DEF Section, Stood
<1>4. (pc[t] = "clear" /\ open[t].phase.kind # "ConfigCommitted"
         /\ (t = "cmd" \/ DisableRecord = open[t]) => owed = {})'
  BY ThreadsAre DEF Section
<1>5. /\ (pc[t] \in Backward =>
           /\ open[t].phase.kind = "Restoring" /\ open[t].phase.stopped = stopped[t]
           /\ stopped[t] \subseteq did)'
      /\ (pc[t] = "science" => owed \subseteq stopped[t])'
      /\ (pc[t] = "gateway" => owed \subseteq stopped[t] \ {"Science"})'
      /\ (pc[t] = "verify" => owed = {})'
  BY DEF Section
<1>6. QED
  BY <1>2, <1>3, <1>4, <1>5 DEF Section

LEMMA CommandFrame ==
  ASSUME TypeInv, CommandSection, pc'["cmd"] = pc["cmd"], open'["cmd"] = open["cmd"],
         stopped'["cmd"] = stopped["cmd"], UNCHANGED <<did, owed>>, dfence # None => image' = image,
         dfence' \in {None, dfence}
  PROVE  CommandSection'
<1>1. pc["cmd"] \in {"publish", "reconcile"} => DisableFence(open["cmd"]) # None
  BY StepOpen, FenceFields, ThreadsAre DEF DisableSteps
<1>2. QED
  BY <1>1 DEF CommandSection, Stood

\* The receipt advances, and the step after it finds it over the before-image.
LEMMA AdvancedSection ==
  ASSUME TypeInv, NEW t \in Threads, pc[t] \in DisableSteps, Apart,
         NEW k \in {"Stopping", "EffectsApplied", "Restoring", "Restored", "ConfigCommitted", "Attention"},
         NEW c \in Targets, NEW S \in SUBSET Components, NEW then, NEW else,
         Advance(t, Phase(k, c, S), then, else)
  PROVE  /\ UNCHANGED <<comp, did, owed, stopped, dfence, image>>
         /\ \/ /\ pc' = [pc EXCEPT ![t] = then] /\ DisableRecord = open[t]
               /\ DisableRecord' = open'[t] /\ DisableRecord' # None
               /\ k \in {"Stopping", "EffectsApplied", "Restoring", "Restored"} => Over(t) /\ Over(t)'
               /\ open'[t].phase.kind = k /\ open'[t].phase.target = c
               /\ open'[t].phase.stopped = S /\ open'[t].plan = open[t].plan
            \/ pc' = [pc EXCEPT ![t] = else] /\ open' = open
<1> DEFINE p == Phase(k, c, S)
           next == [open[t] EXCEPT !.phase = p]
<1>1. p \in Phases /\ p.kind = k /\ p.target = c /\ p.stopped = S /\ Advance(t, p, then, else)
  BY PhaseMade
<1> HIDE DEF p
<1>2. /\ next.phase = p /\ next.plan = open[t].plan /\ next.before = open[t].before
      /\ DisableFence(next) = DisableFence(open[t]) /\ next \in DisableReceipts
  BY <1>1, StepOpen, Phased
<1>3. /\ UNCHANGED <<comp, did, owed, stopped, dfence, image>>
      /\ \/ /\ DisableRecord = open[t] /\ dfence = DisableFence(open[t]) /\ dfence # None
            /\ k # "Attention" => image = DisableImage(next)
            /\ DisableRecord' = next /\ open' = [open EXCEPT ![t] = next]
            /\ pc' = [pc EXCEPT ![t] = then]
         \/ open' = open /\ pc' = [pc EXCEPT ![t] = else]
  BY <1>1, AdvancedRecord
<1>4. k # "ConfigCommitted" => DisableImage(next) = open[t].before
  BY <1>1, <1>2 DEF DisableImage
<1>5. next # None
  BY <1>2, DisableFields
<1> HIDE DEF next
<1>6. CASE /\ DisableRecord = open[t] /\ dfence = DisableFence(open[t]) /\ dfence # None
           /\ k # "Attention" => image = DisableImage(next)
           /\ DisableRecord' = next /\ open' = [open EXCEPT ![t] = next]
           /\ pc' = [pc EXCEPT ![t] = then]
  <2>1. open'[t] = next
    BY <1>6 DEF TypeInv, Kinds
  <2>2. k \in {"Stopping", "EffectsApplied", "Restoring", "Restored"} => Over(t) /\ Over(t)'
    BY <1>2, <1>3, <1>4, <1>6, <2>1 DEF Over
  <2>3. QED
    BY <1>1, <1>2, <1>3, <1>5, <1>6, <2>1, <2>2
<1>7. CASE open' = open /\ pc' = [pc EXCEPT ![t] = else]
  BY <1>3, <1>7
<1>8. QED
  BY <1>3, <1>6, <1>7

LEMMA Moved == ASSUME TypeInv, NEW t \in Threads, NEW x, pc' = [pc EXCEPT ![t] = x] PROVE pc'[t] = x
BY DEF TypeInv, TypeOK

LEMMA SectionRestart ==
  ASSUME TypeInv, NEW t \in Threads, Section(t), RestoreScience(t) \/ RestoreGateway(t)
  PROVE  Section(t)'
<1>0. /\ "project" \notin Forward \cup Backward \cup {"restore", "restoring", "clear"}
      /\ {"gateway", "verify"} \cap Forward = {} /\ Components = {"Science", "Gateway"}
      /\ Backward = {"science", "gateway", "verify"}
  BY DEF Forward, Backward, Components
<1>1. PICK c \in {"Science", "Gateway"}, there \in {"gateway", "verify"} :
        /\ Restart(t, c, pc[t], there)
        /\ \/ pc[t] = "science" /\ c = "Science" /\ there = "gateway"
           \/ pc[t] = "gateway" /\ c = "Gateway" /\ there = "verify"
  BY DEF RestoreScience, RestoreGateway, Restart
<1>2. /\ Over(t) /\ DisableRecord = open[t]
      /\ open[t].phase.kind = "Restoring" /\ open[t].phase.stopped = stopped[t]
      /\ stopped[t] \subseteq did
  BY <1>0, <1>1 DEF Section
<1>3. UNCHANGED <<image, dfence, did, open, stopped>> /\ DisableRecord' = DisableRecord
  BY <1>1, ReadKept DEF Restart, DiskKept
<1>4. \/ pc' = [pc EXCEPT ![t] = "project"]
      \/ pc' = [pc EXCEPT ![t] = there] /\ c \notin stopped[t] /\ owed' = owed
      \/ pc' = [pc EXCEPT ![t] = there] /\ owed' = owed \ {c}
  BY <1>1 DEF Restart, Goto
<1>5. CASE pc' = [pc EXCEPT ![t] = "project"]
  BY <1>0, <1>5, Moved, SectionFree
<1>6. CASE pc' = [pc EXCEPT ![t] = there] /\ (owed' = owed \ {c} \/ (c \notin stopped[t] /\ owed' = owed))
  <2>1. pc'[t] = there
    BY <1>6, Moved
  <2>2. pc[t] = "science" => owed \subseteq stopped[t]
    BY DEF Section
  <2>3. pc[t] = "gateway" => owed \subseteq stopped[t] \ {"Science"}
    BY DEF Section
  <2>4. there = "gateway" => owed' \subseteq stopped[t] \ {"Science"}
    BY <1>1, <1>6, <2>2
  <2>5. stopped[t] \subseteq Components
    BY Kept
  <2>6. there = "verify" => owed' = {}
    BY <1>0, <1>1, <1>6, <2>3, <2>5
  <2>7. Over(t)' /\ DisableRecord' = open'[t]
    BY <1>2, <1>3 DEF Over
  <2>8. QED
    BY <1>0, <1>1, <1>2, <1>3, <2>1, <2>4, <2>6, <2>7 DEF Section
<1>7. QED
  BY <1>4, <1>5, <1>6

LEMMA SectionRestoring ==
  ASSUME TypeInv, NEW t \in Threads, Section(t), Restoring(t) PROVE Section(t)'
<1>0. /\ "none" \in Targets /\ stopped[t] \in SUBSET Components /\ "restoring" \in DisableSteps
      /\ "project" \notin Forward \cup Backward \cup {"restore", "restoring", "clear"}
      /\ "science" \in Backward \ Forward
  BY Kept DEF Targets, DisableSteps, Forward, Backward
<1>1. /\ pc[t] = "restoring" /\ Apart
      /\ Advance(t, Phase("Restoring", "none", stopped[t]), "science", "project")
  BY DEF Restoring
<1>2. /\ UNCHANGED <<comp, did, owed, stopped, dfence, image>>
      /\ \/ /\ pc' = [pc EXCEPT ![t] = "science"] /\ DisableRecord = open[t]
            /\ DisableRecord' = open'[t] /\ Over(t)'
            /\ open'[t].phase.kind = "Restoring" /\ open'[t].phase.stopped = stopped[t]
         \/ pc' = [pc EXCEPT ![t] = "project"]
  BY <1>0, <1>1, AdvancedSection
<1>3. CASE pc' = [pc EXCEPT ![t] = "project"]
  BY <1>0, <1>3, Moved, SectionFree
<1>4. CASE /\ pc' = [pc EXCEPT ![t] = "science"] /\ DisableRecord = open[t]
           /\ DisableRecord' = open'[t] /\ Over(t)'
           /\ open'[t].phase.kind = "Restoring" /\ open'[t].phase.stopped = stopped[t]
  <2>1. Stood(t)
    BY <1>1, <1>4 DEF Section
  <2>2. pc'[t] = "science"
    BY <1>4, Moved
  <2>3. QED
    BY <1>0, <1>2, <1>4, <2>1, <2>2 DEF Section, Stood
<1>5. QED
  BY <1>2, <1>3, <1>4

LEMMA SectionEither ==
  ASSUME TypeInv, NEW t \in Threads, Section(t), DisableEither(t) PROVE Section(t)'
<1>0. /\ "none" \in Targets /\ stopped[t] \in SUBSET Components /\ {} \in SUBSET Components
      /\ {"retain", "committed", "restoring", "verify"} \subseteq DisableSteps
      /\ {"project", "idle", "fail", "retain", "unfence"}
           \cap (Forward \cup Backward \cup {"restore", "restoring", "clear"}) = {}
      /\ {"clear", "restoring"} \cap (Forward \cup Backward) = {}
  BY Kept DEF Targets, DisableSteps, Forward, Backward
<1>1. ASSUME NEW x \in {"project", "idle", "fail", "retain", "unfence"}, pc' = [pc EXCEPT ![t] = x]
      PROVE  Section(t)'
  BY <1>0, <1>1, Moved, SectionFree
<1>2. CASE Fail(t) \/ Project(t) \/ ClearReceipt(t) \/ ClearFence(t)
  BY <1>1, <1>2 DEF Fail, Project, ClearReceipt, ClearFence, Finish, Goto
<1>3. CASE Retain(t)
  BY <1>1, <1>3, Advancing DEF Retain
<1>4. CASE Committed(t)
  <2> DEFINE else == IF t = "cmd" THEN "retain" ELSE "fail"
  <2>1. \/ pc' = [pc EXCEPT ![t] = "clear"] /\ open'[t].phase.kind = "ConfigCommitted"
        \/ pc' = [pc EXCEPT ![t] = else]
    BY <1>0, <1>4, AdvancedSection DEF Committed
  <2>2. CASE pc' = [pc EXCEPT ![t] = else]
    BY <1>1, <2>2
  <2>3. CASE pc' = [pc EXCEPT ![t] = "clear"] /\ open'[t].phase.kind = "ConfigCommitted"
    BY <1>0, <2>3, Moved DEF Section, Backward
  <2>4. QED
    BY <2>1, <2>2, <2>3
<1>5. CASE RestoreCheck(t)
  <2>1. /\ pc[t] = "restore" /\ UNCHANGED <<dfence, image, did, owed, open, stopped>>
        /\ DisableRecord' = DisableRecord
        /\ pc' = [pc EXCEPT ![t] = "restoring"] \/ pc' = [pc EXCEPT ![t] = "project"]
    BY <1>5, ReadKept DEF RestoreCheck, DiskKept, WorldKept, Goto
  <2>2. CASE pc' = [pc EXCEPT ![t] = "restoring"]
    <3>1. pc'[t] = "restoring"
      BY <2>2, Moved
    <3>2. QED
      BY <1>0, <2>1, <3>1 DEF Section, Stood, Backward
  <2>3. QED
    BY <1>1, <2>1, <2>2
<1>6. CASE Restored(t)
  <2>1. pc[t] = "verify" /\ Apart /\ owed = {}
    BY <1>6 DEF Restored, Section
  <2>2. CASE Advance(t, Phase("Restored", "none", stopped[t]), "clear", "project")
    <3>1. /\ owed' = owed
          /\ pc' = [pc EXCEPT ![t] = "clear"] \/ pc' = [pc EXCEPT ![t] = "project"]
      BY <1>0, <2>1, <2>2, AdvancedSection
    <3>2. CASE pc' = [pc EXCEPT ![t] = "clear"]
      <4>1. pc'[t] = "clear"
        BY <3>2, Moved
      <4>2. QED
        BY <1>0, <2>1, <3>1, <4>1 DEF Section, Backward
    <3>3. QED
      BY <1>1, <3>1, <3>2
  <2>3. CASE Goto(t, "project")
    BY <1>1, <2>3 DEF Goto
  <2>4. QED
    BY <1>6, <2>2, <2>3 DEF Restored
<1>7. QED
  BY <1>2, <1>3, <1>4, <1>5, <1>6, SectionRestart, SectionRestoring DEF DisableEither

LEMMA CommandEither == ASSUME TypeInv, DisableEither("cmd") PROVE CommandSection'
<1> DEFINE X == {"idle", "project", "retain", "fail", "clear", "unfence", "restoring",
                "science", "gateway", "verify"}
<1>0. X \cap (Forward \cup {"publish", "reconcile", "unstarted"}) = {}
  BY DEF Forward
<1>1. \E x \in X : pc' = [pc EXCEPT !["cmd"] = x]
  <2>1. CASE Fail("cmd") \/ Project("cmd") \/ RestoreCheck("cmd")
    BY <2>1 DEF Fail, Project, RestoreCheck, Finish, Goto
  <2>2. CASE ClearReceipt("cmd") \/ ClearFence("cmd")
    BY <2>2 DEF ClearReceipt, ClearFence, Finish, Goto
  <2>3. CASE RestoreScience("cmd") \/ RestoreGateway("cmd")
    BY <2>3 DEF RestoreScience, RestoreGateway, Restart, Goto
  <2>4. CASE Retain("cmd") \/ Committed("cmd") \/ Restoring("cmd")
    <3>1. \E p : \/ Advance("cmd", p, "project", "project") \/ Advance("cmd", p, "clear", "retain")
                 \/ Advance("cmd", p, "science", "project")
      BY <2>4 DEF Retain, Committed, Restoring
    <3>2. QED
      BY <3>1, Advancing
  <2>5. CASE Restored("cmd")
    BY <2>5, Advancing DEF Restored, Goto
  <2>6. QED
    BY <2>1, <2>2, <2>3, <2>4, <2>5 DEF DisableEither
<1> HIDE DEF X
<1>2. pc'["cmd"] \in X
  BY <1>1, Moved, ThreadsAre
<1>3. QED
  BY <1>0, <1>2, CommandFree

\* Where a command goes when it gives up on an effect, and what it must have then.
LEMMA SectionBack ==
  ASSUME TypeInv, NEW x \in {"restore", "unstarted", "retain", "fail"}, pc' = [pc EXCEPT !["cmd"] = x],
         x \in {"restore", "unstarted"} => Stood("cmd")'
  PROVE  Section("cmd")' /\ CommandSection'
<1>1. pc'["cmd"] = x
  BY Moved, ThreadsAre
<1>2. x \notin Forward \cup Backward \cup {"restoring", "clear", "science", "gateway", "verify",
                                           "publish", "reconcile"}
  BY DEF Forward, Backward
<1>3. Section("cmd")'
  BY <1>1, <1>2 DEF Section
<1>4. CommandSection'
  BY <1>1, <1>2 DEF CommandSection, Forward
<1>5. QED
  BY <1>3, <1>4

\* And at a step that goes forward.
LEMMA SectionAhead ==
  ASSUME TypeInv, NEW x \in Forward, pc' = [pc EXCEPT !["cmd"] = x], Over("cmd")',
         DisableRecord' = open'["cmd"] \/ Marked',
         x # "unproved" => Stood("cmd")',
         x = "stopping" => open'["cmd"].plan \ stopped'["cmd"] # {},
         x \in {"lease", "effect"} => open'["cmd"].phase.stopped = stopped'["cmd"],
         x \in {"lease", "effect", "unproved"} =>
           open'["cmd"].phase.target \in open'["cmd"].plan \ stopped'["cmd"],
         x = "unproved" => stopped'["cmd"] \subseteq did'
                           /\ owed' \subseteq stopped'["cmd"] \cup {open'["cmd"].phase.target},
         x = "commit" => open'["cmd"].plan \subseteq stopped'["cmd"]
  PROVE  Section("cmd")' /\ CommandSection'
<1>1. pc'["cmd"] = x
  BY Moved, ThreadsAre
<1>2. x \notin Backward \cup {"restore", "restoring", "clear", "science", "gateway", "verify",
                              "publish", "reconcile", "unstarted"}
  BY DEF Forward, Backward
<1>3. Section("cmd")'
  BY <1>1, <1>2 DEF Section
<1>4. CommandSection'
  BY <1>1, <1>2 DEF CommandSection, Forward
<1>5. QED
  BY <1>3, <1>4

LEMMA SectionPublish ==
  ASSUME TypeInv, CommandSection, PublishIntent PROVE Section("cmd")' /\ CommandSection'
<1> DEFINE r == open["cmd"]
<1>1. /\ pc["cmd"] = "publish" /\ pc' = [pc EXCEPT !["cmd"] = "reconcile"]
      /\ UNCHANGED <<image, open, stopped, did, owed>>
      /\ dfence' = dfence \/ image = r.before
  BY DEF PublishIntent, Goto, WorldKept
<1>2. pc'["cmd"] = "reconcile"
  BY <1>1, Moved, ThreadsAre
<1>3. Section("cmd")'
  BY <1>2, SectionFree DEF Forward, Backward
<1>4. CommandSection'
  BY <1>1, <1>2 DEF CommandSection
<1>5. QED
  BY <1>3, <1>4

LEMMA SectionReconcile ==
  ASSUME TypeInv, CommandSection, Reconcile PROVE Section("cmd")' /\ CommandSection'
<1> DEFINE r == open["cmd"]
<1>1. /\ pc["cmd"] = "reconcile" /\ UNCHANGED <<image, open, stopped, did, owed, dfence>>
      /\ DisableRecord' = DisableRecord
  BY ReadKept DEF Reconcile, WorldKept, DisableRecord
<1>2. CASE DisableRecord = r /\ dfence = DisableFence(r) /\ Goto("cmd", "stopping")
  <2>1. Over("cmd")' /\ Stood("cmd")' /\ r.plan \ stopped["cmd"] # {}
    BY <1>1, <1>2 DEF CommandSection, Over, Stood
  <2>2. "stopping" \in Forward
    BY DEF Forward
  <2>3. QED
    BY <1>1, <1>2, <2>1, <2>2, SectionAhead DEF Goto
<1>3. CASE pc' = [pc EXCEPT !["cmd"] = "idle"]
  <2>1. pc'["cmd"] = "idle"
    BY <1>3, Moved, ThreadsAre
  <2>2. QED
    BY <2>1, SectionFree, CommandFree DEF Forward, Backward
<1>4. QED
  BY <1>2, <1>3 DEF Reconcile, Finish, Goto, DisableRecord

LEMMA SectionStopping ==
  ASSUME TypeInv, Section("cmd"), CommandSection, Stopping PROVE Section("cmd")' /\ CommandSection'
<1> DEFINE r == open["cmd"]
           done == stopped["cmd"]
           c == NextTarget(r, done)
           else == IF c = "Science" THEN "retain" ELSE RestoreOr("unstarted")
<1>1. /\ pc["cmd"] = "stopping" /\ Stood("cmd") /\ r.plan \ done # {}
      /\ Apart /\ Advance("cmd", Phase("Stopping", c, done), "lease", else)
  BY DEF Stopping, CommandSection
<1>2. c \in r.plan \ done /\ c \in Targets
  <2>1. r.plan \subseteq Components
    BY <1>1, StepOpen, ThreadsAre, DisableFields DEF DisableSteps
  <2>2. QED
    BY <1>1, <2>1 DEF NextTarget, Components, Targets
<1>3. done \in SUBSET Components /\ "cmd" \in Threads /\ "stopping" \in DisableSteps
      /\ "lease" \in Forward
  BY Kept, ThreadsAre DEF DisableSteps, Forward
<1>4. else \in {"retain", "restore", "unstarted"}
  BY DEF RestoreOr
<1> HIDE DEF c, else
<1>5. /\ UNCHANGED <<comp, did, owed, stopped, dfence, image>>
      /\ \/ /\ pc' = [pc EXCEPT !["cmd"] = "lease"]
            /\ DisableRecord' = open'["cmd"] /\ Over("cmd")'
            /\ open'["cmd"].phase.target = c
            /\ open'["cmd"].phase.stopped = done /\ open'["cmd"].plan = r.plan
         \/ pc' = [pc EXCEPT !["cmd"] = else]
  BY <1>1, <1>2, <1>3, AdvancedSection
<1>6. Stood("cmd")'
  BY <1>1, <1>5 DEF Stood
<1>7. CASE pc' = [pc EXCEPT !["cmd"] = else]
  BY <1>4, <1>6, <1>7, SectionBack
<1>8. CASE /\ pc' = [pc EXCEPT !["cmd"] = "lease"]
           /\ DisableRecord' = open'["cmd"] /\ Over("cmd")'
           /\ open'["cmd"].phase.target = c
           /\ open'["cmd"].phase.stopped = done /\ open'["cmd"].plan = r.plan
  BY <1>2, <1>3, <1>5, <1>6, <1>8, SectionAhead
<1>9. QED
  BY <1>5, <1>7, <1>8

LEMMA SectionEffectLease ==
  ASSUME TypeInv, Section("cmd"), CommandSection, EffectLease PROVE Section("cmd")' /\ CommandSection'
<1>1. /\ pc["cmd"] = "lease" /\ UNCHANGED <<image, open, stopped, did, owed, dfence>>
      /\ DisableRecord' = DisableRecord
      /\ \E x \in {"effect", "restore", "retain"} : pc' = [pc EXCEPT !["cmd"] = x]
  BY ReadKept DEF EffectLease, DiskKept, WorldKept, Goto, RestoreOr
<1>2. {"lease", "effect"} \subseteq Forward
  BY DEF Forward
<1>3. /\ Over("cmd") /\ (DisableRecord = open["cmd"] \/ Marked) /\ Stood("cmd")
      /\ open["cmd"].phase.stopped = stopped["cmd"]
      /\ open["cmd"].phase.target \in open["cmd"].plan \ stopped["cmd"]
  BY <1>1, <1>2 DEF Section, CommandSection
<1>4. Over("cmd")' /\ Stood("cmd")' /\ (DisableRecord' = open'["cmd"] \/ Marked')
  BY <1>1, <1>3 DEF Over, Stood, Marked
<1>5. CASE pc' = [pc EXCEPT !["cmd"] = "effect"]
  BY <1>1, <1>2, <1>3, <1>4, <1>5, SectionAhead
<1>6. QED
  BY <1>1, <1>4, <1>5, SectionBack

LEMMA SectionEffect ==
  ASSUME TypeInv, Section("cmd"), CommandSection, Effect PROVE Section("cmd")' /\ CommandSection'
<1> DEFINE r == open["cmd"]
           done == stopped["cmd"]
           c == r.phase.target
<1>0. {"effect", "applied", "unproved"} \subseteq Forward /\ stopped \in [Threads -> SUBSET Components]
      /\ "cmd" \in Threads
  BY Kept, ThreadsAre DEF Forward
<1>1. /\ pc["cmd"] = "effect" /\ UNCHANGED <<image, open, dfence>> /\ DisableRecord' = DisableRecord
      /\ owed' \in {owed, owed \cup {c}}
      /\ \/ pc' = [pc EXCEPT !["cmd"] = "applied"] /\ did' = did \cup {c}
            /\ stopped' = [stopped EXCEPT !["cmd"] = done \cup {c}]
         \/ pc' = [pc EXCEPT !["cmd"] = "unproved"] /\ UNCHANGED <<did, stopped>>
  BY ReadKept DEF Effect, DiskKept, Goto
<1>2. /\ Over("cmd") /\ (DisableRecord = r \/ Marked) /\ Stood("cmd") /\ c \in r.plan \ done
  BY <1>0, <1>1 DEF Section, CommandSection
<1>3. Over("cmd")' /\ (DisableRecord' = open'["cmd"] \/ Marked')
  BY <1>1, <1>2 DEF Over, Marked
<1>4. CASE /\ pc' = [pc EXCEPT !["cmd"] = "applied"] /\ did' = did \cup {c}
           /\ stopped' = [stopped EXCEPT !["cmd"] = done \cup {c}]
  <2>1. stopped'["cmd"] = done \cup {c}
    BY <1>0, <1>4
  <2>2. Stood("cmd")'
    BY <1>1, <1>2, <1>4, <2>1 DEF Stood
  <2>3. QED
    BY <1>0, <1>3, <1>4, <2>2, SectionAhead
<1>5. CASE pc' = [pc EXCEPT !["cmd"] = "unproved"] /\ UNCHANGED <<did, stopped>>
  <2>1. stopped'["cmd"] \subseteq did' /\ owed' \subseteq stopped'["cmd"] \cup {c}
    BY <1>1, <1>2, <1>5 DEF Stood
  <2>2. QED
    BY <1>0, <1>1, <1>2, <1>3, <1>5, <2>1, SectionAhead
<1>6. QED
  BY <1>1, <1>4, <1>5

LEMMA SectionApplied ==
  ASSUME TypeInv, Section("cmd"), CommandSection, EffectsApplied PROVE Section("cmd")' /\ CommandSection'
<1> DEFINE r == open["cmd"]
           done == stopped["cmd"]
           then == IF r.plan \subseteq done THEN "commit" ELSE "stopping"
<1>1. /\ pc["cmd"] = "applied" /\ Stood("cmd")
      /\ Apart /\ Advance("cmd", Phase("EffectsApplied", "none", done), then, "restore")
  BY DEF EffectsApplied, CommandSection
<1>2. done \in SUBSET Components /\ "cmd" \in Threads /\ "applied" \in DisableSteps
      /\ {"commit", "stopping"} \subseteq Forward /\ "none" \in Targets
  BY Kept, ThreadsAre DEF DisableSteps, Forward, Targets
<1>3. /\ then \in {"commit", "stopping"}
      /\ then = "commit" => r.plan \subseteq done
      /\ then = "stopping" => r.plan \ done # {}
  OBVIOUS
<1> HIDE DEF then
<1>4. /\ UNCHANGED <<comp, did, owed, stopped, dfence, image>>
      /\ \/ /\ pc' = [pc EXCEPT !["cmd"] = then]
            /\ DisableRecord' = open'["cmd"] /\ Over("cmd")'
            /\ open'["cmd"].plan = r.plan
         \/ pc' = [pc EXCEPT !["cmd"] = "restore"]
  BY <1>1, <1>2, AdvancedSection
<1>5. Stood("cmd")'
  BY <1>1, <1>4 DEF Stood
<1>6. CASE pc' = [pc EXCEPT !["cmd"] = "restore"]
  BY <1>5, <1>6, SectionBack
<1>7. CASE /\ pc' = [pc EXCEPT !["cmd"] = then]
           /\ DisableRecord' = open'["cmd"] /\ Over("cmd")'
           /\ open'["cmd"].plan = r.plan
  BY <1>2, <1>3, <1>4, <1>5, <1>7, SectionAhead
<1>8. QED
  BY <1>4, <1>6, <1>7

LEMMA SectionUnproved ==
  ASSUME TypeInv, OwedDown, Section("cmd"), CommandSection, Unproved
  PROVE  Section("cmd")' /\ CommandSection'
<1> DEFINE done == stopped["cmd"]
           c == open["cmd"].phase.target
<1>1. /\ pc["cmd"] \in {"unproved", "unstarted"} /\ UNCHANGED <<open, stopped, did, owed>>
      /\ \/ Unrecorded("cmd") /\ pc' = [pc EXCEPT !["cmd"] = RestoreOr("clear")]
         \/ \E x \in {"fail", "retain"} : pc' = [pc EXCEPT !["cmd"] = x]
  BY DEF Unproved, WorldKept, Goto
<1>2. ASSUME Unrecorded("cmd") PROVE Stood("cmd")
  <2>1. CASE pc["cmd"] = "unstarted"
    BY <2>1 DEF CommandSection
  <2>2. CASE pc["cmd"] = "unproved"
    <3>1. done \subseteq did /\ owed \subseteq done \cup {c} /\ c \in open["cmd"].plan \ done
      BY <2>2 DEF CommandSection
    <3>2. comp[c] = "original"
      BY <1>2, <3>1 DEF Unrecorded
    <3>3. c \notin owed
      BY <3>2 DEF OwedDown
    <3>4. QED
      BY <3>1, <3>3 DEF Stood
  <2>3. QED
    BY <1>1, <2>1, <2>2
<1>3. CASE \E x \in {"fail", "retain"} : pc' = [pc EXCEPT !["cmd"] = x]
  BY <1>3, SectionBack
<1>4. CASE Unrecorded("cmd") /\ pc' = [pc EXCEPT !["cmd"] = RestoreOr("clear")]
  <2>1. Stood("cmd")'
    BY <1>1, <1>2, <1>4 DEF Stood
  <2>2. CASE RestoreOr("clear") = "restore"
    BY <1>4, <2>1, <2>2, SectionBack
  <2>3. CASE RestoreOr("clear") = "clear" /\ done = {}
    <3>1. owed' = {} /\ pc'["cmd"] = "clear"
      BY <1>1, <1>4, <2>1, <2>3, Moved, ThreadsAre DEF Stood
    <3>2. QED
      BY <3>1, CommandFree DEF Section, Forward, Backward
  <2>4. QED
    BY <2>2, <2>3 DEF RestoreOr
<1>5. QED
  BY <1>1, <1>3, <1>4

LEMMA SectionCommit ==
  ASSUME TypeInv, CommandSection, CommitConfig PROVE Section("cmd")' /\ CommandSection'
<1>1. /\ pc["cmd"] = "commit" /\ UNCHANGED <<stopped, did, owed>>
      /\ \E x \in {"committed", "restore"} : pc' = [pc EXCEPT !["cmd"] = x]
  BY DEF CommitConfig, WorldKept, Goto
<1>2. Stood("cmd")'
  BY <1>1 DEF CommandSection, Stood
<1>3. CASE pc' = [pc EXCEPT !["cmd"] = "committed"]
  <2>1. pc'["cmd"] = "committed"
    BY <1>3, Moved, ThreadsAre
  <2>2. QED
    BY <2>1, SectionFree, CommandFree DEF Forward, Backward
<1>4. QED
  BY <1>1, <1>2, <1>3, SectionBack

LEMMA SectionCommand ==
  ASSUME TypeInv, OwedDown, Section("cmd"), CommandSection, DisableCommand
  PROVE  Section("cmd")' /\ CommandSection'
BY SectionPublish, SectionReconcile, SectionStopping, SectionEffectLease, SectionEffect,
   SectionApplied, SectionUnproved, SectionCommit DEF DisableCommand

\* The boot replay decides from the record, and the record tells the truth.
LEMMA ReplayDecides ==
  ASSUME TypeInv, RecordTold, OwedDown, NEW r, WellFormed(r), DisableRecord = r,
         Decision(r.phase, r.plan) # "attention"
  PROVE  owed \subseteq r.phase.stopped /\ r.phase.stopped \subseteq did
<1>0. r # None /\ r.phase \in Phases
  BY DisableFields DEF WellFormed
<1>1. /\ r.phase.kind \notin {"Attention", "ConfigCommitted"}
      /\ r.phase.kind = "Stopping" => comp[r.phase.target] = "original"
  BY DEF Decision
<1>2. r.phase.stopped \subseteq did /\ owed \subseteq r.phase.stopped \cup {r.phase.target}
  BY <1>0, <1>1, PhaseFields DEF RecordTold, Told
<1>3. CASE r.phase.kind = "Stopping"
  BY <1>1, <1>2, <1>3 DEF OwedDown
<1>4. CASE r.phase.kind # "Stopping"
  <2>1. r.phase.target = "none"
    BY <1>4 DEF WellFormed
  <2>2. "none" \notin owed
    BY DEF TypeInv, TypeOK, Components
  <2>3. QED
    BY <1>2, <2>1, <2>2
<1>5. QED
  BY <1>3, <1>4

LEMMA SectionBoot ==
  ASSUME TypeInv, WorldInv, LeaseInv, DisableBoot PROVE Section("boot")'
<1>0. "boot" \in Threads
  BY ThreadsAre
<1>1. CASE BootOrphanFence \/ BootRead
  <2>1. \E x \in {"read", "idle", "image"} : pc' = [pc EXCEPT !["boot"] = x]
    BY <1>1 DEF BootOrphanFence, BootRead, Finish, Goto
  <2>2. QED
    BY <1>0, <2>1, Moved, SectionFree DEF Forward, Backward
<1>2. CASE BootImage
  <2>1. open' = open /\ \E x \in {"fail", "committed", "clear", "replay"} :
          /\ pc' = [pc EXCEPT !["boot"] = x]
          /\ x = "clear" => open["boot"].phase.kind = "ConfigCommitted"
    BY <1>2 DEF BootImage, Goto
  <2>2. pc'["boot"] \in {"fail", "committed", "clear", "replay"}
        /\ (pc'["boot"] = "clear" => open'["boot"].phase.kind = "ConfigCommitted")
    BY <1>0, <2>1, Moved
  <2>3. QED
    BY <2>2 DEF Section, Forward, Backward
<1>3. CASE BootReplay
  <2> DEFINE r == open["boot"]
             d == Decision(r.phase, r.plan)
  <2>1. /\ UNCHANGED <<open, did, owed>> /\ DisableRecord' = DisableRecord
        /\ stopped' = [stopped EXCEPT !["boot"] = r.phase.stopped]
        /\ \E x \in {"project", "fail", "clear", "restore"} :
             /\ pc' = [pc EXCEPT !["boot"] = x]
             /\ x \in {"clear", "restore"} => d # "attention"
             /\ x = "clear" => r.phase.stopped = {}
    BY <1>3, ReadKept DEF BootReplay, DiskKept, WorldKept, Goto, Decision
  <2>2. WellFormed(r) /\ stopped'["boot"] = r.phase.stopped
    BY <1>0, <1>3, <2>1, StepOpen, Kept DEF BootReplay, DisableSteps
  <2>3. /\ pc'["boot"] \in {"project", "fail", "clear", "restore"}
        /\ pc'["boot"] \in {"clear", "restore"} => d # "attention"
        /\ pc'["boot"] = "clear" => r.phase.stopped = {}
    BY <1>0, <2>1, Moved
  <2>4. DisableRecord = r /\ d # "attention" =>
          owed \subseteq r.phase.stopped /\ r.phase.stopped \subseteq did
    BY <2>2, ReplayDecides DEF WorldInv
  <2> HIDE DEF d
  <2>5. QED
    BY <2>1, <2>2, <2>3, <2>4 DEF Section, Stood, Forward, Backward
<1>4. QED
  BY <1>1, <1>2, <1>3 DEF DisableBoot

\* Without the lease the boot decision leaves the record and the fence of an operation
\* that is still over its before-image, but for the mark.
LEMMA BootLeaves ==
  ASSUME TypeInv, LeaseInv, BootLate, Marking, lease # "boot", DisableBoot \/ DisableEither("boot"),
         NEW r \in DisableReceipts, DisableRecord = r, dfence = DisableFence(r), image = r.before
  PROVE  /\ DisableRecord' = DisableRecord \/ (Marked' /\ ~InverseProgress(r.phase))
         /\ dfence' = dfence
<1>0. r # None /\ "boot" \in Threads /\ "none" \in Targets /\ {} \in SUBSET Components
      /\ {"retain", "committed", "clear", "unfence"} \subseteq DisableSteps
  BY DisableFields, ThreadsAre DEF Targets, DisableSteps
<1>1. pc["boot"] \notin Backward \cup {"restore", "restoring"}
  BY DEF LeaseInv
<1>2. pc["boot"] \in Late => open["boot"] # r
  BY DEF BootLate, Late, Over
<1>3. CASE Fail("boot") \/ Project("boot") \/ BootImage \/ BootReplay
  BY <1>3, ReadKept DEF Fail, Project, BootImage, BootReplay, DiskKept
<1>4. CASE Committed("boot")
  <2>1. /\ pc["boot"] \in Late \cap DisableSteps /\ Apart
        /\ \E then, else : Advance("boot", Phase("ConfigCommitted", "none", {}), then, else)
    BY <1>0, <1>4 DEF Committed, Late
  <2>2. Phase("ConfigCommitted", "none", {}) \in Phases
    BY <1>0, PhaseMade
  <2>3. dfence' = dfence /\ (DisableRecord' = DisableRecord \/ DisableRecord = open["boot"])
    BY <1>0, <2>1, <2>2, AdvancedRecord
  <2>4. QED
    BY <1>2, <2>1, <2>3
<1>10. CASE Retain("boot")
  <2> DEFINE p == Phase("Attention", "none", {})
             next == [open["boot"] EXCEPT !.phase = p]
  <2>1. /\ pc["boot"] = "retain" /\ Apart
        /\ \E then, else : Advance("boot", p, then, else)
    BY <1>10 DEF Retain
  <2>2. p \in Phases /\ p.kind = "Attention"
    BY <1>0, PhaseMade
  <2> HIDE DEF p
  <2>3. /\ dfence' = dfence
        /\ DisableRecord' = DisableRecord \/ (DisableRecord = open["boot"] /\ DisableRecord' = next)
    BY <1>0, <2>1, <2>2, AdvancedRecord
  <2>4. next.phase = p /\ DisableFence(next) = DisableFence(open["boot"]) /\ next \in DisableReceipts
    BY <1>0, <2>1, <2>2, StepOpen, Phased
  <2>5. next # None
    BY <2>4, DisableFields
  <2>6. QED
    BY <2>1, <2>2, <2>3, <2>4, <2>5 DEF Marked, Marking
<1>5. CASE ClearReceipt("boot")
  <2>1. pc["boot"] \in Late /\ dfence' = dfence
        /\ (UNCHANGED <<dreceipt, dclearing>> \/ CanClear(open["boot"]))
    BY <1>5 DEF ClearReceipt, Late
  <2>2. CanClear(open["boot"]) => DisableRecord = open["boot"]
    BY DEF CanClear, DisableRecord, Read
  <2>3. QED
    BY <1>2, <2>1, <2>2, ReadKept
<1>6. CASE ClearFence("boot") \/ BootOrphanFence
  <2>1. dreceipt' = DisableRecord /\ dclearing' = None
        /\ (dfence' = dfence \/ DisableRecord = None)
    BY <1>6 DEF ClearFence, BootOrphanFence, DisableRecord
  <2>2. QED
    BY <1>0, <2>1, ReadKept
<1>7. CASE BootRead
  BY <1>7, ReadKept DEF BootRead, DisableRecord
<1>8. CASE RestoreCheck("boot") \/ Restoring("boot") \/ RestoreScience("boot") \/ RestoreGateway("boot")
           \/ Restored("boot")
  BY <1>1, <1>8 DEF RestoreCheck, Restoring, RestoreScience, RestoreGateway, Restart, Restored, Backward
<1>9. QED
  BY <1>3, <1>4, <1>5, <1>6, <1>7, <1>8, <1>10 DEF DisableBoot, DisableEither

\* What the boot decision leaves alone without the lease.
LEMMA BootKeeps ==
  ASSUME TypeInv, LeaseInv, lease # "boot", DisableBoot \/ DisableEither("boot")
  PROVE  UNCHANGED <<image, comp, did, owed>> /\ dfence' \in {None, dfence}
         /\ stopped'["cmd"] = stopped["cmd"] /\ open'["cmd"] = open["cmd"] /\ pc'["cmd"] = pc["cmd"]
<1>0. "boot" \in Threads /\ "cmd" \in Threads \ {"boot"} /\ stopped \in [Threads -> SUBSET Components]
  BY ThreadsAre, Kept
<1>1. pc["boot"] \notin Backward \cup {"restore", "restoring"}
  BY DEF LeaseInv
<1>2. image' = image /\ dfence' \in {None, dfence}
  BY <1>0, QuieterBoot, QuieterEither DEF Quieter
<1>3. pc'["cmd"] = pc["cmd"] /\ open'["cmd"] = open["cmd"]
  <2>1. CASE DisableEither("boot")
    BY <1>0, <2>1, LeaseEither, BootApart DEF LeaseStep
  <2>2. CASE DisableBoot
    <3>1. /\ open' = open \/ \E r : open' = [open EXCEPT !["boot"] = r]
          /\ \E x : pc' = [pc EXCEPT !["boot"] = x]
      BY <2>2, WalkedBoot DEF DisableBoot, BootOrphanFence, BootRead, BootImage, BootReplay, Walked
    <3>2. QED
      BY <1>0, <3>1, BootApart DEF TypeInv, Kinds
  <2>3. QED
    BY <2>1, <2>2
<1>4. UNCHANGED <<comp, did, owed>> /\ stopped'["cmd"] = stopped["cmd"]
  <2>1. CASE DisableBoot
    BY <1>0, <2>1 DEF DisableBoot, BootOrphanFence, BootRead, BootImage, BootReplay, WorldKept
  <2>2. CASE Fail("boot") \/ Project("boot") \/ ClearReceipt("boot") \/ ClearFence("boot")
    BY <2>2 DEF Fail, Project, ClearReceipt, ClearFence, WorldKept
  <2>3. CASE Retain("boot") \/ Committed("boot")
    BY <2>3, Advancing DEF Retain, Committed
  <2>4. CASE RestoreCheck("boot") \/ Restoring("boot") \/ RestoreScience("boot") \/ RestoreGateway("boot")
             \/ Restored("boot")
    BY <1>1, <2>4 DEF RestoreCheck, Restoring, RestoreScience, RestoreGateway, Restart, Restored, Backward
  <2>5. QED
    BY <2>1, <2>2, <2>3, <2>4 DEF DisableEither
<1>5. QED
  BY <1>2, <1>3, <1>4

LEMMA CommandBeside ==
  ASSUME TypeInv, LeaseInv, BootLate, Marking, Section("cmd"), CommandSection,
         DisableBoot \/ DisableEither("boot")
  PROVE  Section("cmd")' /\ CommandSection'
<1>0. "cmd" \in Threads
  BY ThreadsAre
<1>1. CASE lease = "boot"
  <2>1. pc["cmd"] = "idle"
    BY <1>1 DEF LeaseInv
  <2>2. pc'["cmd"] = "idle"
    <3>1. \E x : pc' = [pc EXCEPT !["boot"] = x]
      BY WalkedBoot, WalkedEither, ThreadsAre DEF Walked
    <3>2. QED
      BY <2>1, <3>1, BootApart
  <2>3. QED
    BY <2>2, SectionFree, CommandFree DEF Forward, Backward
<1>2. CASE lease # "boot"
  <2>1. UNCHANGED <<image, comp, did, owed>> /\ dfence' \in {None, dfence}
        /\ stopped'["cmd"] = stopped["cmd"] /\ open'["cmd"] = open["cmd"] /\ pc'["cmd"] = pc["cmd"]
    BY <1>2, BootKeeps
  <2>2. ASSUME pc["cmd"] \in Forward \cup Backward
        PROVE  /\ dfence' = dfence
               /\ DisableRecord' = DisableRecord \/ (Marked' /\ pc["cmd"] \notin Backward)
    <3> DEFINE r == DisableRecord
    <3>1. open["cmd"] \in DisableReceipts
      BY <1>0, <2>2, StepOpen DEF Forward, Backward, DisableSteps
    <3>2. /\ dfence = DisableFence(open["cmd"]) /\ image = open["cmd"].before
          /\ r = open["cmd"] \/ (Marked /\ pc["cmd"] \notin Backward)
      BY <2>2 DEF Section, Over, Forward, Backward
    <3>3. r \in DisableReceipts
      BY <3>1, <3>2 DEF Marked, TypeInv, Kinds, WellFormed
    <3>4. r.before = open["cmd"].before /\ dfence = DisableFence(r)
      BY <3>1, <3>2, <3>3, SameFence DEF Marked
    <3>5. pc["cmd"] \in Backward => InverseProgress(r.phase)
      BY <3>2 DEF Section, InverseProgress
    <3>6. QED
      BY <1>2, <3>2, <3>3, <3>4, <3>5, BootLeaves
  <2>3. Section("cmd")'
    BY <1>0, <2>1, <2>2, SectionFrame
  <2>4. CommandSection'
    BY <2>1, CommandFrame
  <2>5. QED
    BY <2>3, <2>4
<1>3. QED
  BY <1>1, <1>2

Sections == (\A t \in Threads : Section(t)) /\ CommandSection

LEMMA SectionsOutside ==
  ASSUME TypeInv, LeaseInv, LeaseInv', Sections,
         DisableRecord' = DisableRecord, UNCHANGED <<dfence, did, owed, open, stopped>>,
         dfence # None => image' = image,
         \/ UNCHANGED pc
         \/ /\ pc'["cmd"] = pc["cmd"]
            /\ pc'["boot"] \in {"idle", "orphan", "b_orphan", "b_clear", "b_mutation", "b_receipts"}
         \/ pc'["boot"] = pc["boot"] /\ pc'["cmd"] \in MPlain \cup {"idle", "m_begin"}
  PROVE  Sections'
<1>1. Section("boot")'
  <2>1. CASE pc'["boot"] = pc["boot"]
    BY <2>1, SectionFrame, ThreadsAre DEF Sections
  <2>2. CASE pc'["boot"] \in {"idle", "orphan", "b_orphan", "b_clear", "b_mutation", "b_receipts"}
    BY <2>2, SectionFree DEF Forward, Backward
  <2>3. QED
    BY <2>1, <2>2
<1>2. Section("cmd")' /\ CommandSection'
  <2>1. CASE pc'["cmd"] = pc["cmd"]
    BY <2>1, SectionFrame, CommandFrame, ThreadsAre DEF Sections
  <2>2. CASE pc'["cmd"] \in MPlain \cup {"idle", "m_begin"}
    BY <2>2, SectionFree, CommandFree DEF Forward, Backward, MPlain
  <2>3. QED
    BY <2>1, <2>2
<1>3. QED
  BY <1>1, <1>2, ThreadsAre DEF Sections

LEMMA SectionsNext ==
  ASSUME TypeInv, ExclInv, WorldInv, LeaseInv, LeaseInv', BootLate, Marking, Sections,
         [Next]_vars
  PROVE  Sections'
<1>0. "cmd" \in Threads /\ "boot" \in Threads
  BY ThreadsAre
<1>1. ASSUME DisableCommand \/ DisableEither("cmd") PROVE Sections'
  <2>1. lease = "cmd"
    <3>1. pc["cmd"] # "idle"
      BY <1>0, <1>1, LeaseEither
         DEF DisableCommand, PublishIntent, Reconcile,
             Stopping, EffectLease, Effect, EffectsApplied, Unproved, CommitConfig
    <3>2. QED
      BY <3>1 DEF LeaseInv
  <2>2. lease' # "boot"
    <3>1. CASE DisableCommand
      <4>1. lease' = lease \/ lease' = "none"
        BY <3>1, <2>1, Advancing DEF DisableCommand, PublishIntent, Reconcile,
           Stopping, EffectLease, Effect, EffectsApplied, Unproved, CommitConfig, ThreadKept, Finish
      <4>2. QED
        BY <2>1, <4>1
    <3>2. CASE DisableEither("cmd")
      BY <1>0, <2>1, <3>2, LeaseEither DEF LeaseStep
    <3>3. QED
      BY <1>1, <3>1, <3>2
  <2>3. Section("boot")'
    BY <2>2, BootFree
  <2>4. Section("cmd")' /\ CommandSection'
    BY <1>0, <1>1, SectionCommand, SectionEither, CommandEither DEF Sections, WorldInv
  <2>5. QED
    BY <2>3, <2>4, ThreadsAre DEF Sections
<1>2. ASSUME DisableBoot \/ DisableEither("boot") PROVE Sections'
  <2>1. Section("boot")'
    BY <1>0, <1>2, SectionBoot, SectionEither DEF Sections
  <2>2. Section("cmd")' /\ CommandSection'
    BY <1>0, <1>2, CommandBeside DEF Sections
  <2>3. QED
    BY <2>1, <2>2, ThreadsAre DEF Sections
<1>3. ASSUME MutationCommand \/ MutationBoot PROVE Sections'
  <2>1. DisableRecord' = DisableRecord /\ UNCHANGED <<dfence, did, owed, open, stopped>>
        /\ (dfence # None => image' = image)
    BY <1>3, OutsideMutation
  <2>2. \/ pc'["cmd"] = pc["cmd"] /\ pc'["boot"] \in {"idle", "orphan", "b_orphan", "b_clear", "b_mutation"}
        \/ pc'["boot"] = pc["boot"] /\ pc'["cmd"] \in MPlain \cup {"idle"}
    BY <1>3, MutationMoves, MutationBootMoves
  <2>3. QED
    BY <2>1, <2>2, SectionsOutside
<1>4. ASSUME PlanDisable PROVE Sections'
  <2>1. lease' = "cmd" /\ pc' = [pc EXCEPT !["cmd"] = "publish"] /\ owed' = {}
    BY <1>4 DEF PlanDisable, Goto
  <2>2. dfence' = None
    BY <1>4, QuieterElsewhere, Opened DEF PlanDisable
  <2>3. pc'["cmd"] = "publish" /\ stopped'["cmd"] = {}
    BY <1>0, <1>4, <2>1, Moved, Kept DEF PlanDisable
  <2>4. open'["cmd"].phase = Phase("Intent", "none", {}) /\ open'["cmd"].plan # {}
        /\ DisableFence(open'["cmd"]) # None
    <3>1. TypeInv'
      BY <1>4, TypePlanDisable
    <3>2. open'["cmd"] \in DisableReceipts
      BY <1>0, <2>3, <3>1 DEF TypeInv, Kinds, DisableSteps, WellFormed
    <3>3. open'["cmd"].phase = Phase("Intent", "none", {}) /\ open'["cmd"].plan # {}
      BY <1>0, <1>4 DEF PlanDisable, TypeInv, Kinds
    <3>4. QED
      BY <3>2, <3>3, FenceFields
  <2>5. open'["cmd"].phase.kind = "Intent"
    BY <2>4 DEF Phase
  <2>6. Section("cmd")' /\ CommandSection'
    BY <2>1, <2>2, <2>3, <2>4, <2>5, SectionFree DEF CommandSection, Forward, Backward
  <2>7. Section("boot")'
    BY <2>1, BootFree
  <2>8. QED
    BY <2>6, <2>7, ThreadsAre DEF Sections
<1>5. ASSUME \/ BootLoad \/ UNCHANGED vars \/ PlainWrite \/ OneClickJournal \/ PlanMutation
             \/ \E c \in Components : ComponentChanges(c)
      PROVE  Sections'
  <2>1. DisableRecord' = DisableRecord /\ UNCHANGED <<dfence, did, owed>> /\ (dfence # None => image' = image)
    BY <1>5, OutsideElsewhere
  <2>2. UNCHANGED <<open, stopped>>
        /\ \/ UNCHANGED pc \/ pc' = [pc EXCEPT !["cmd"] = "m_begin"]
           \/ pc' = [pc EXCEPT !["boot"] = "b_receipts"]
    BY <1>5 DEF BootLoad, Goto, vars, threads, PlainWrite, OneClickJournal, ComponentChanges, PlanMutation
  <2>3. \/ UNCHANGED pc
        \/ pc'["cmd"] = pc["cmd"] /\ pc'["boot"] = "b_receipts"
        \/ pc'["boot"] = pc["boot"] /\ pc'["cmd"] = "m_begin"
    BY <1>0, <2>2 DEF TypeInv, TypeOK
  <2>4. QED
    BY <2>1, <2>2, <2>3, SectionsOutside
<1>6. ASSUME Crash PROVE Sections'
  <2>1. \A t \in Threads : pc'[t] = "idle"
    BY <1>6 DEF Crash
  <2>2. QED
    BY <1>0, <2>1, SectionFree, CommandFree DEF Sections, Forward, Backward
<1>7. QED
  BY <1>1, <1>2, <1>3, <1>4, <1>5, <1>6, ThreadsAre DEF Next, Command, Boot

LEMMA DisableInit == Init => WorldInv /\ Fresh /\ BootLate /\ Marking /\ Sections
<1> SUFFICES ASSUME Init PROVE WorldInv /\ Fresh /\ BootLate /\ Marking /\ Sections
  OBVIOUS
<1>1. /\ DisableRecord = None /\ dfence = None /\ owed = {} /\ open["boot"] = None
      /\ \A t \in Threads : pc[t] = "idle"
  BY ThreadsAre DEF Init, DisableRecord, Read
<1>2. pc["cmd"] = "idle" /\ pc["boot"] = "idle"
  BY <1>1, ThreadsAre
<1>3. WorldInv
  BY <1>1 DEF WorldInv, RecordTold, Anchored, Orphaned, OwedDown
<1>4. Fresh /\ BootLate /\ Marking
  BY <1>1, <1>2 DEF Fresh, BootLate, Marking
<1>5. Sections
  BY <1>1, <1>2 DEF Sections, Section, CommandSection, Forward, Backward
<1>6. QED
  BY <1>3, <1>4, <1>5

\* The inductive invariant of the disable ledger, under those already proved.
DisableInv == WorldInv /\ Fresh /\ BootLate /\ Marking /\ Sections

LEMMA DisableNext ==
  ASSUME TypeInv, ExclInv, LeaseInv, DisableInv, [Next]_vars PROVE DisableInv'
<1>1. LeaseInv'
  BY LeaseNext
<1>2. WorldInv'
  BY WorldNext DEF DisableInv, Sections
<1>3. Fresh'
  BY FreshNext DEF DisableInv
<1>4. BootLate'
  BY LateNext DEF DisableInv, Sections
<1>5. Marking'
  BY MarkingNext DEF DisableInv
<1>6. Sections'
  BY <1>1, SectionsNext DEF DisableInv
<1>7. QED
  BY <1>2, <1>3, <1>4, <1>5, <1>6 DEF DisableInv

LEMMA DisableAlways == Spec => []DisableInv
<1>1. Init => DisableInv
  BY DisableInit DEF DisableInv
<1>2. TypeInv /\ ExclInv /\ LeaseInv /\ DisableInv /\ [Next]_vars => DisableInv'
  BY DisableNext
<1>3. QED
  BY <1>1, <1>2, TypeAlways, ExclAlways, LeaseAlways, PTL DEF Spec

-----------------------------------------------------------------------------
(* What the configuration ledgers promise.                                     *)

(* Whatever a crash, an error or the other ledger leaves behind, a record lies    *)
(* beside a fence of its own operation, or is a disable record before its first   *)
(* effect, and the configuration is an image that fence names: the boot never      *)
(* finds a receipt it cannot hold against config.json.                            *)
THEOREM RecordsStayAnchored == Spec => []RecordsAnchored
<1>1. ASSUME ExclInv, MutationInv, DisableInv PROVE RecordsAnchored
  <2>1. MAnchored /\ Anchored /\ Imaged
    BY <1>1 DEF ExclInv, MutationInv, DisableInv, WorldInv
  <2>2. QED
    BY <2>1 DEF MAnchored, Anchored, Imaged, RecordsAnchored
<1>2. QED
  BY <1>1, ExclAlways, MutationAlways, DisableAlways, PTL

(* At every instant at which the application can die the receipts tell the truth  *)
(* about effects: no stop is recorded that was not confirmed, none happened that    *)
(* is neither recorded nor announced, and no mutation effect ran before its         *)
(* checkpoint or is recorded as done without having happened.                       *)
THEOREM ReceiptsAreTrue == Spec => []ReceiptTruth
<1>1. ASSUME MutationInv, DisableInv PROVE ReceiptTruth
  <2>1. RecordTold /\ MRecordTold
    BY <1>1 DEF MutationInv, DisableInv, WorldInv
  <2>2. QED
    BY <2>1 DEF RecordTold, Told, MRecordTold, Truthful, ReceiptTruth
<1>2. QED
  BY <1>1, MutationAlways, DisableAlways, PTL

\* The fence of a disable operation is only given up beside no record.
LEMMA UnfencedAlone ==
  ASSUME TypeInv, ExclInv, [Next]_vars, dfence # None, dfence' = None PROVE DisableRecord = None
<1>1. CASE \E t \in Threads : DisableEither(t)
  <2>1. PICK t \in Threads : DisableEither(t)
    BY <1>1
  <2>2. CASE ClearFence(t)
    BY <2>2 DEF ClearFence, DisableRecord
  <2>3. CASE ClearReceipt(t)
    BY <2>3 DEF ClearReceipt
  <2>4. CASE Retain(t) \/ Committed(t) \/ Restoring(t)
    BY <2>4, Advancing DEF Retain, Committed, Restoring
  <2>5. CASE Restored(t)
    BY <2>5, Advancing DEF Restored, DiskKept
  <2>6. CASE Fail(t) \/ Project(t) \/ RestoreCheck(t) \/ RestoreScience(t) \/ RestoreGateway(t)
    BY <2>6 DEF Fail, Project, RestoreCheck, RestoreScience, RestoreGateway, Restart, DiskKept
  <2>7. QED
    BY <2>1, <2>2, <2>3, <2>4, <2>5, <2>6 DEF DisableEither
<1>2. CASE DisableCommand
  <2>1. CASE PublishIntent
    <3>1. DisableFence(open["cmd"]) # None
      BY <2>1, StepOpen, FenceFields, ThreadsAre DEF PublishIntent, DisableSteps
    <3>2. QED
      BY <2>1, <3>1 DEF PublishIntent
  <2>2. CASE Stopping \/ EffectsApplied
    BY <2>2, Advancing DEF Stopping, EffectsApplied
  <2>3. QED
    BY <1>2, <2>1, <2>2 DEF DisableCommand, Reconcile, EffectLease, Effect, Unproved, CommitConfig, DiskKept
<1>3. CASE DisableBoot
  BY <1>3 DEF DisableBoot, BootOrphanFence, BootRead, BootImage, BootReplay, DiskKept, DisableRecord
<1>4. CASE MutationCommand \/ MutationBoot
  BY <1>4, OutsideMutation
<1>5. CASE PlanDisable
  BY <1>5 DEF PlanDisable, config
<1>6. QED
  BY <1>1, <1>2, <1>3, <1>4, <1>5, OutsideElsewhere, ThreadsAre DEF Next, Command, Boot

\* The fence of a mutation is given up after all of its effects or before any.
LEMMA ClearedSettled ==
  ASSUME TypeInv, MutationInv, NEW r \in MutationReceipts, r.terminal.state = "completed",
         NEW left, ClearMutation(TerminalFence(r), r, left), mfence # None, mfence' = None
  PROVE  /\ image = mfence.after /\ mfence.phase = "terminal"
         /\ mdone = DOMAIN mfence.receipt.plan
<1>1. mfence = TerminalFence(r) /\ image = FenceImage(mfence)
  BY DEF ClearMutation
<1>2. mfence.phase = "terminal" /\ mfence.receipt = r
  BY <1>1, TerminalFields
<1>3. mfence.config = "after" /\ mdone = DOMAIN mfence.receipt.plan
  BY <1>2 DEF MutationInv, MTerminal
<1>4. QED
  BY <1>1, <1>2, <1>3 DEF FenceImage

LEMMA MutationSettled ==
  ASSUME TypeInv, ExclInv, MutationInv, [Next]_vars, mfence # None, mfence' = None
  PROVE  \/ image = mfence.before /\ mdone = {}
         \/ image = mfence.after /\ mfence.phase = "terminal"
            /\ mdone = DOMAIN mfence.receipt.plan
<1>1. CASE FinishClear
  <2>1. pc["cmd"] = "m_clear" /\ \E left : ClearMutation(TerminalFence(mopen), mopen, left)
    BY <1>1 DEF FinishClear
  <2>2. mopen \in MutationReceipts /\ mopen.terminal.state = "completed"
    BY <2>1 DEF TypeInv, Kinds, MutationSteps, Shaped, MutationInv, MSection
  <2>3. QED
    BY <2>1, <2>2, ClearedSettled
<1>2. CASE BootClear
  <2>1. pc["boot"] = "b_clear" /\ \E left : ClearMutation(seen.mfence, seen.receipt, left)
    BY <1>2 DEF BootClear
  <2>2. /\ seen.receipt \in MutationReceipts /\ seen.mfence = TerminalFence(seen.receipt)
        /\ seen.receipt.terminal.state = "completed"
    BY <2>1 DEF TypeInv, TypeOK, MutationInv, MSection
  <2>3. QED
    BY <2>1, <2>2, ClearedSettled
<1>3. CASE BootOrphanMutation
  <2>1. MutationRecord = None /\ image = FenceImage(mfence)
    BY <1>3 DEF BootOrphanMutation, MutationRecord
  <2>2. CASE mfence.phase = "terminal"
    <3>1. mfence.receipt.terminal.state = "completed"
      BY <2>1, <2>2 DEF MutationInv, MOrphaned
    <3>2. mfence.config = "after" /\ mdone = DOMAIN mfence.receipt.plan
      BY <2>2, <3>1 DEF MutationInv, MTerminal
    <3>3. QED
      BY <2>1, <2>2, <3>2 DEF FenceImage
  <2>3. CASE mfence.phase # "terminal"
    BY <2>1, <2>3 DEF MutationInv, MOrphaned
  <2>4. QED
    BY <2>2, <2>3
<1>4. CASE DisableCommand \/ DisableBoot \/ \E t \in Threads : DisableEither(t)
  <2>1. CASE PublishIntent
    BY <2>1 DEF PublishIntent
  <2>2. CASE CommitConfig
    BY <2>2 DEF CommitConfig, Apart
  <2>3. QED
    BY <1>4, <2>1, <2>2, QuieterCommand, QuieterBoot, QuieterEither DEF Quieter, DisableCommand
<1>5. CASE BeginMutation \/ FinishFence
  <2>1. mopen \in MutationReceipts
    BY <1>5, MOpen DEF BeginMutation, FinishFence, MutationSteps, Shaped
  <2>2. BeginFence(mopen) # None /\ TerminalFence(mopen) # None
    BY <2>1, BeginFields, TerminalFields
  <2>3. QED
    BY <1>5, <2>2 DEF BeginMutation, FinishFence
<1>6. CASE OpenEffect \/ RecordEffect \/ RecordUncertain \/ FinishReceipt
  BY <1>6, Checking DEF OpenEffect, RecordEffect, RecordUncertain, FinishReceipt
<1>7. CASE MutationEffect \/ MutationAttention \/ BootDisableReceipt \/ BootReceipts
  BY <1>7 DEF MutationEffect, MutationAttention, BootDisableReceipt, BootReceipts, config
<1>8. CASE PlainWrite \/ OneClickJournal
  BY <1>8 DEF PlainWrite, OneClickJournal
<1>9. CASE \/ PlanDisable \/ PlanMutation \/ BootLoad \/ Crash \/ UNCHANGED vars
           \/ \E c \in Components : ComponentChanges(c)
  BY <1>9, QuieterElsewhere
<1>10. QED
  BY <1>1, <1>2, <1>3, <1>4, <1>5, <1>6, <1>7, <1>8, <1>9, ThreadsAre
  DEF Next, Command, Boot, MutationCommand, MutationBoot

(* A fence is given up only when nothing is left to decide, by whichever of the    *)
(* two threads does it: a disable fence over its before-image with every stopped    *)
(* component back, a mutation fence before any of its effects or after all.         *)
THEOREM FencesClearSettled == Spec => FenceClearedIsSettled
<1> DEFINE A == /\ dfence # None /\ dfence' = None /\ image = dfence.before => owed = {}
                /\ mfence # None /\ mfence' = None =>
                     \/ image = mfence.before /\ mdone = {}
                     \/ image = mfence.after /\ mfence.phase = "terminal"
                        /\ mdone = DOMAIN mfence.receipt.plan
<1>1. ASSUME TypeInv, ExclInv, MutationInv, DisableInv, [Next]_vars PROVE A
  <2>1. dfence # None /\ dfence' = None /\ image = dfence.before => owed = {}
    BY <1>1, UnfencedAlone DEF DisableInv, WorldInv, Orphaned
  <2>2. QED
    BY <1>1, <2>1, MutationSettled
<1>2. TypeInv /\ ExclInv /\ MutationInv /\ DisableInv /\ [Next]_vars => [A]_vars
  BY <1>1
<1>3. Spec => [][A]_vars
  BY <1>2, TypeAlways, ExclAlways, MutationAlways, DisableAlways, PTL DEF Spec
<1>4. QED
  BY <1>3 DEF FenceClearedIsSettled

\* A component is restored by a restart of a thread, and of nothing else.
LEMMA RestoredBy ==
  ASSUME TypeInv, ExclInv, [Next]_vars, NEW c \in Components, comp[c] # "restored", comp'[c] = "restored"
  PROVE  \E t \in Threads : c \in stopped[t] /\ (RestoreScience(t) \/ RestoreGateway(t))
<1>0. comp \in [Components -> {"original", "absent", "restored", "foreign"}]
  BY DEF TypeInv, TypeOK
<1>1. CASE \E t \in Threads : DisableEither(t)
  <2>1. PICK t \in Threads : DisableEither(t)
    BY <1>1
  <2>2. comp' # comp
    OBVIOUS
  <2>3. CASE RestoreScience(t) \/ RestoreGateway(t)
    <3>1. PICK k \in {"Science", "Gateway"} : \E there : Restart(t, k, pc[t], there)
      BY <2>3 DEF RestoreScience, RestoreGateway, Restart
    <3>2. k \in stopped[t] /\ \E s : comp' = [comp EXCEPT ![k] = s]
      BY <2>2, <3>1 DEF Restart
    <3>3. k = c
      BY <1>0, <3>2
    <3>4. QED
      BY <2>3, <3>2, <3>3
  <2>4. CASE Retain(t) \/ Committed(t) \/ Restoring(t)
    BY <2>2, <2>4, Advancing DEF Retain, Committed, Restoring
  <2>5. CASE Restored(t)
    BY <2>2, <2>5, Advancing DEF Restored, WorldKept
  <2>6. CASE Fail(t) \/ Project(t) \/ RestoreCheck(t) \/ ClearReceipt(t) \/ ClearFence(t)
    BY <2>2, <2>6 DEF Fail, Project, RestoreCheck, ClearReceipt, ClearFence, WorldKept
  <2>7. QED
    BY <2>1, <2>3, <2>4, <2>5, <2>6 DEF DisableEither
<1>2. CASE DisableCommand
  <2>1. CASE Effect
    <3>1. comp' = comp \/ \E k : comp' = [comp EXCEPT ![k] = "absent"]
      BY <2>1 DEF Effect
    <3>2. QED
      BY <1>0, <3>1
  <2>2. CASE Stopping \/ EffectsApplied
    BY <2>2, Advancing DEF Stopping, EffectsApplied
  <2>3. QED
    BY <1>2, <2>1, <2>2
       DEF DisableCommand, PublishIntent, Reconcile, EffectLease, Unproved, CommitConfig, WorldKept
<1>3. CASE DisableBoot
  BY <1>3 DEF DisableBoot, BootOrphanFence, BootRead, BootImage, BootReplay, WorldKept
<1>4. CASE MutationCommand \/ MutationBoot
  BY <1>4, OutsideMutation
<1>5. CASE PlanDisable
  BY <1>5 DEF PlanDisable
<1>6. QED
  BY <1>1, <1>2, <1>3, <1>4, <1>5, OutsideElsewhere, ThreadsAre DEF Next, Command, Boot

(* A component is started again only by the operation that stopped it and under     *)
(* the receipt that says so; the boot cannot tell an exit or a kill by something     *)
(* else from its own stop in any other way.                                        *)
THEOREM RestartsAreAuthorised == Spec => RestoreAuthority
<1> DEFINE A == \A c \in Components :
                  comp[c] # "restored" /\ comp'[c] = "restored" =>
                    /\ c \in did
                    /\ DisableRecord # None /\ dfence = DisableFence(DisableRecord)
                    /\ DisableRecord.phase.kind = "Restoring" /\ c \in DisableRecord.phase.stopped
<1>1. ASSUME TypeInv, ExclInv, DisableInv, [Next]_vars PROVE A
  <2> SUFFICES ASSUME NEW c \in Components, comp[c] # "restored", comp'[c] = "restored"
               PROVE  /\ c \in did
                      /\ DisableRecord # None /\ dfence = DisableFence(DisableRecord)
                      /\ DisableRecord.phase.kind = "Restoring" /\ c \in DisableRecord.phase.stopped
    OBVIOUS
  <2>1. PICK t \in Threads : c \in stopped[t] /\ (RestoreScience(t) \/ RestoreGateway(t))
    BY <1>1, RestoredBy
  <2>2. pc[t] \in Backward /\ Section(t)
    BY <1>1, <2>1 DEF RestoreScience, RestoreGateway, Restart, Backward, DisableInv, Sections
  <2>3. open[t] # None
    BY <1>1, <2>2, StepOpen, DisableFields DEF Backward, DisableSteps
  <2>4. QED
    BY <2>1, <2>2, <2>3 DEF Section, Over
<1>2. TypeInv /\ ExclInv /\ DisableInv /\ [Next]_vars => [A]_vars
  BY <1>1
<1>3. Spec => [][A]_vars
  BY <1>2, TypeAlways, ExclAlways, DisableAlways, PTL DEF Spec
<1>4. QED
  BY <1>3 DEF RestoreAuthority

\* Who reports a plain failure of the command.
LEMMA FailedBy ==
  ASSUME TypeInv, [Next]_vars, outcome["cmd"] # "failed", outcome'["cmd"] = "failed", pc["cmd"] # "m_begin"
  PROVE  \/ Reconcile /\ DisableRecord = None /\ dfence = None
         \/ ClearFence("cmd") /\ open["cmd"].phase.kind # "ConfigCommitted"
            /\ DisableRecord = None /\ dfence = DisableFence(open["cmd"])
            /\ image = DisableImage(open["cmd"]) /\ dfence' = None
<1>0. outcome' # outcome /\ outcome \in [Threads -> {"none", "ok", "failed", "attention"}]
      /\ "cmd" \in Threads
  BY Kept, ThreadsAre
<1>1. ASSUME NEW x \in {"none", "ok", "attention"}, outcome' = [outcome EXCEPT !["cmd"] = x] PROVE FALSE
  BY <1>0, <1>1
<1>2. ASSUME NEW x, outcome' = [outcome EXCEPT !["boot"] = x] PROVE FALSE
  BY <1>0, <1>2
<1>3. ASSUME NEW t \in Threads, DisableEither(t), ~ClearFence(t) PROVE FALSE
  <2>1. CASE Project(t)
    BY <1>1, <1>2, <2>1, ThreadsAre DEF Project, Finish
  <2>2. CASE Retain(t) \/ Committed(t) \/ Restoring(t)
    BY <1>0, <2>2, Advancing DEF Retain, Committed, Restoring
  <2>3. CASE Restored(t)
    BY <1>0, <2>3, Advancing DEF Restored, ThreadKept
  <2>4. CASE Fail(t) \/ ClearReceipt(t) \/ RestoreCheck(t) \/ RestoreScience(t) \/ RestoreGateway(t)
    BY <1>0, <2>4 DEF Fail, ClearReceipt, RestoreCheck, RestoreScience, RestoreGateway, Restart, ThreadKept
  <2>5. QED
    BY <1>3, <2>1, <2>2, <2>3, <2>4 DEF DisableEither
<1>4. ASSUME ClearFence("boot") PROVE FALSE
  BY <1>0, <1>2, <1>4 DEF ClearFence, Finish, ThreadKept
<1>5. CASE ClearFence("cmd")
  <2>1. /\ outcome' = [outcome EXCEPT !["cmd"] = ClearedResult("cmd")]
        /\ DisableRecord = None /\ dfence = DisableFence(open["cmd"])
        /\ image = DisableImage(open["cmd"]) /\ dfence' = None
    BY <1>0, <1>5 DEF ClearFence, Finish, ThreadKept, DisableRecord
  <2>2. open["cmd"].phase.kind # "ConfigCommitted"
    BY <1>1, <2>1 DEF ClearedResult
  <2>3. QED
    BY <1>5, <2>1, <2>2
<1>6. CASE Reconcile
  BY <1>0, <1>1, <1>6 DEF Reconcile, Finish, ThreadKept, DisableRecord
<1>7. ASSUME DisableCommand, ~Reconcile PROVE FALSE
  <2>1. CASE Stopping \/ EffectsApplied
    BY <1>0, <2>1, Advancing DEF Stopping, EffectsApplied
  <2>2. QED
    BY <1>0, <1>7, <2>1 DEF DisableCommand, PublishIntent, EffectLease, Effect, Unproved, CommitConfig, ThreadKept
<1>8. ASSUME DisableBoot \/ MutationBoot \/ BootLoad PROVE FALSE
  <2>1. outcome' = outcome \/ \E x : outcome' = [outcome EXCEPT !["boot"] = x]
    BY <1>8 DEF DisableBoot, BootOrphanFence, BootRead, BootImage, BootReplay, ThreadKept, Finish,
                MutationBoot, BootDisableReceipt, BootReceipts, BootClear, BootOrphanMutation,
                Unreported, BootLoad
  <2>2. QED
    BY <1>0, <1>2, <2>1
<1>9. ASSUME MutationCommand PROVE FALSE
  <2>1. ~BeginMutation
    BY DEF BeginMutation
  <2>2. outcome' = outcome \/ \E x \in {"ok", "attention"} : outcome' = [outcome EXCEPT !["cmd"] = x]
    BY <1>9, <2>1 DEF MutationCommand, OpenEffect, MutationEffect, RecordEffect, RecordUncertain,
       FinishReceipt, FinishFence, FinishClear, MutationAttention, Unreported, Finish
  <2>3. QED
    BY <1>0, <1>1, <2>2
<1>10. ASSUME \/ PlanDisable \/ PlanMutation \/ Crash \/ UNCHANGED vars \/ PlainWrite
              \/ OneClickJournal \/ \E c \in Components : ComponentChanges(c)
       PROVE  FALSE
  <2>1. CASE PlanDisable \/ PlanMutation
    BY <1>1, <2>1 DEF PlanDisable, PlanMutation
  <2>2. CASE Crash
    BY <1>0, <2>2 DEF Crash
  <2>3. QED
    BY <1>0, <1>10, <2>1, <2>2 DEF vars, threads, PlainWrite, OneClickJournal, ComponentChanges
<1>11. QED
  BY <1>3, <1>4, <1>5, <1>6, <1>7, <1>8, <1>9, <1>10, ThreadsAre DEF Next, Command, Boot

(* A disable that answers with a plain, repeatable failure leaves no receipt, no     *)
(* fence, and every component it stopped running again.                             *)
THEOREM FailuresAreHonest == Spec => HonestFailure
<1> DEFINE A == outcome["cmd"] # "failed" /\ outcome'["cmd"] = "failed" /\ pc["cmd"] # "m_begin" =>
                  DisableRecord' = None /\ dfence' = None /\ owed' = {}
<1>1. ASSUME TypeInv, DisableInv, [Next]_vars,
             outcome["cmd"] # "failed", outcome'["cmd"] = "failed", pc["cmd"] # "m_begin"
      PROVE  DisableRecord' = None /\ dfence' = None /\ owed' = {}
  <2>1. CASE Reconcile /\ DisableRecord = None /\ dfence = None
    <3>1. /\ pc["cmd"] = "reconcile" /\ UNCHANGED <<dfence, owed>> /\ DisableRecord' = DisableRecord
      BY <2>1, ReadKept DEF Reconcile, WorldKept, DisableRecord
    <3>2. owed = {}
      BY <1>1, <3>1 DEF DisableInv, Sections, CommandSection
    <3>3. QED
      BY <2>1, <3>1, <3>2
  <2>2. CASE ClearFence("cmd") /\ open["cmd"].phase.kind # "ConfigCommitted"
             /\ DisableRecord = None /\ dfence = DisableFence(open["cmd"])
             /\ image = DisableImage(open["cmd"]) /\ dfence' = None
    <3>1. /\ pc["cmd"] = "unfence" /\ UNCHANGED owed /\ DisableRecord' = DisableRecord
      BY <2>2, ReadKept DEF ClearFence, WorldKept, DisableRecord
    <3>2. dfence # None /\ dfence.before = open["cmd"].before
      BY <1>1, <2>2, <3>1, StepOpen, FenceFields, ThreadsAre DEF DisableSteps
    <3>3. owed = {}
      BY <1>1, <2>2, <3>2 DEF DisableInv, WorldInv, Orphaned, DisableImage
    <3>4. QED
      BY <2>2, <3>1, <3>3
  <2>3. QED
    BY <1>1, <2>1, <2>2, FailedBy
<1>2. TypeInv /\ DisableInv /\ [Next]_vars => [A]_vars
  BY <1>1
<1>3. Spec => [][A]_vars
  BY <1>2, TypeAlways, DisableAlways, PTL DEF Spec
<1>4. QED
  BY <1>3 DEF HonestFailure

=============================================================================
