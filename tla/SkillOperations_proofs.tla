----------------------- MODULE SkillOperations_proofs -----------------------
(* Proofs about SkillOperations, for every finite set of installs and removals,  *)
(* every bound on plans and every number of faults.                             *)
EXTENDS SkillOperations, FiniteSetTheorems, TLAPS

-----------------------------------------------------------------------------
(* The ledger's single steps, field by field.                                  *)

LEMMA EffectFields ==
  ASSUME NEW e \in Effects
  PROVE  e.state \in EffectStates /\ e.intent \in BOOLEAN
BY DEF Effects

LEMMA UntouchedFields ==
  /\ Untouched \in Effects /\ Untouched.state = "not_started" /\ ~Untouched.intent
BY DEF Untouched, Effects, EffectStates

LEMMA LedgerFields ==
  ASSUME NEW l \in Ledgers
  PROVE  /\ l.consumed \in BOOLEAN /\ l.leaf \in Leaves
         /\ \A i \in 1..2 : l.eff[i] \in Effects
BY DEF Ledgers

LEMMA BegunFields ==
  ASSUME NEW l \in Ledgers, NEW i \in 1..2
  PROVE  /\ Begun(l, i) \in Ledgers
         /\ (Begun(l, i).consumed <=> (l.consumed \/ i = 1))
         /\ Begun(l, i).leaf = l.leaf
         /\ Begun(l, i).eff[i].state = l.eff[i].state
         /\ Begun(l, i).eff[i].intent
         /\ \A j \in 1..2 : j # i => Begun(l, i).eff[j] = l.eff[j]
BY LedgerFields DEF Begun, Ledgers, Effects

LEMMA ClosedFields ==
  ASSUME NEW l \in Ledgers, NEW i \in 1..2, NEW s \in EffectStates
  PROVE  /\ Closed(l, i, s) \in Ledgers
         /\ (Closed(l, i, s).consumed <=> l.consumed)
         /\ Closed(l, i, s).leaf = l.leaf
         /\ Closed(l, i, s).eff[i].state = s
         /\ (Closed(l, i, s).eff[i].intent <=> (s = "uncertain"))
         /\ \A j \in 1..2 : j # i => Closed(l, i, s).eff[j] = l.eff[j]
BY DEF Closed, Ledgers, Effects

LEMMA ClosedVerified ==
  ASSUME NEW l \in Ledgers, NEW i \in 1..2
  PROVE  Verified(Closed(l, i, "verified"), i)
<1>1. Closed(l, i, "verified").eff[i] = [state |-> "verified", intent |-> "verified" = "uncertain"]
  BY DEF Closed, Ledgers
<1>2. ("verified" = "uncertain") = FALSE
  OBVIOUS
<1>3. QED
  BY <1>1, <1>2 DEF Verified

LEMMA FreshFields ==
  ASSUME NEW x \in Leaves
  PROVE  /\ Fresh(x) \in Ledgers /\ ~Fresh(x).consumed /\ Fresh(x).leaf = x
         /\ \A i \in 1..2 : Fresh(x).eff[i] = Untouched
BY UntouchedFields DEF Fresh, Ledgers

(* What every ledger the host writes satisfies: nothing is begun before the     *)
(* confirmation is consumed, the second effect is begun after the first is       *)
(* verified, and an open intent belongs to an effect that is not settled.        *)
Ordered(l) ==
  /\ ~l.consumed => l.eff[1] = Untouched
  /\ l.eff[2] # Untouched => Verified(l, 1)
  /\ \A i \in 1..2 : l.eff[i].intent => l.eff[i].state \in {"not_started", "uncertain"}

LEMMA FreshOrdered ==
  ASSUME NEW x \in Leaves
  PROVE  Ordered(Fresh(x))
BY FreshFields, UntouchedFields DEF Ordered

LEMMA LegalType ==
  ASSUME NEW l \in Ledgers, NEW m, Legal(l, m)
  PROVE  m \in Ledgers /\ m.leaf = l.leaf
<1>1. PICK i \in 1..2 : \/ m = Begun(l, i)
                        \/ \E s \in {"verified", "failed", "uncertain"} : m = Closed(l, i, s)
  BY DEF Legal
<1>2. CASE m = Begun(l, i)
  BY <1>2, BegunFields
<1>3. CASE \E s \in {"verified", "failed", "uncertain"} : m = Closed(l, i, s)
  BY <1>3, ClosedFields DEF EffectStates
<1>4. QED
  BY <1>1, <1>2, <1>3

LEMMA LegalOpen ==
  ASSUME NEW l \in Ledgers, NEW m, Legal(l, m)
  PROVE  ~Settled(l)
<1>1. PICK i \in 1..2 : l.eff[i] = Untouched \/ l.eff[i].intent
  BY DEF Legal
<1>2. QED
  BY <1>1, UntouchedFields DEF Settled

LEMMA LegalOrdered ==
  ASSUME NEW l \in Ledgers, NEW m, Legal(l, m), Ordered(l)
  PROVE  /\ Ordered(m)
         /\ \A i \in 1..2 : m.eff[i] = Untouched => l.eff[i] = Untouched
<1> 1 \in 1..2 /\ 2 \in 1..2
  OBVIOUS
<1>1. PICK i \in 1..2 :
        \/ l.eff[i] = Untouched /\ m = Begun(l, i) /\ (\A j \in 1..(i - 1) : Verified(l, j))
        \/ /\ l.eff[i].intent /\ l.eff[i].state \in {"not_started", "uncertain"}
           /\ \E s \in {"verified", "failed", "uncertain"} : m = Closed(l, i, s)
  BY DEF Legal
<1>a. i = 1 \/ i = 2
  OBVIOUS
<1>2. CASE l.eff[i] = Untouched /\ m = Begun(l, i) /\ (\A j \in 1..(i - 1) : Verified(l, j))
  <2>1. /\ m.consumed <=> (l.consumed \/ i = 1)
        /\ m.eff[i].state = "not_started" /\ m.eff[i].intent
        /\ \A j \in 1..2 : j # i => m.eff[j] = l.eff[j]
    BY <1>2, BegunFields, UntouchedFields
  <2>2. CASE i = 1
    BY <2>1, <2>2, <1>2, UntouchedFields DEF Ordered, Verified
  <2>3. CASE i = 2
    <3>1. Verified(l, 1)
      BY <1>2, <2>3
    <3>2. l.consumed
      BY <3>1, UntouchedFields DEF Ordered, Verified
    <3>3. QED
      BY <2>1, <2>3, <3>1, <3>2, <1>2, UntouchedFields DEF Ordered, Verified
  <2>4. QED
    BY <1>a, <2>2, <2>3
<1>3. CASE /\ l.eff[i].intent /\ l.eff[i].state \in {"not_started", "uncertain"}
           /\ \E s \in {"verified", "failed", "uncertain"} : m = Closed(l, i, s)
  <2>1. PICK s \in {"verified", "failed", "uncertain"} : m = Closed(l, i, s)
    BY <1>3
  <2>2. /\ m.consumed <=> l.consumed
        /\ m.eff[i].state = s /\ (m.eff[i].intent <=> (s = "uncertain"))
        /\ \A j \in 1..2 : j # i => m.eff[j] = l.eff[j]
    BY <2>1, ClosedFields DEF EffectStates
  <2>3. l.eff[i] # Untouched /\ ~Verified(l, i)
    BY <1>3, UntouchedFields DEF Verified
  <2>4. CASE i = 1
    <3>1. l.eff[2] = Untouched /\ l.consumed
      BY <2>3, <2>4, LedgerFields DEF Ordered
    <3>2. QED
      BY <2>2, <2>3, <2>4, <3>1, UntouchedFields DEF Ordered
  <2>5. CASE i = 2
    <3>1. Verified(l, 1)
      BY <2>3, <2>5 DEF Ordered
    <3>2. m.eff[1] = l.eff[1]
      BY <2>2, <2>5
    <3>3. QED
      BY <2>2, <2>3, <2>5, <3>1, <3>2, UntouchedFields DEF Ordered, Verified
  <2>6. QED
    BY <1>a, <2>4, <2>5
<1>4. QED
  BY <1>1, <1>2, <1>3

-----------------------------------------------------------------------------
(* Writing a successor, and promoting one.                                     *)

FilesTyped ==
  /\ ledger \in [Ids -> Ledgers \cup {None, Torn}]
  /\ pend \in [Ids -> Ledgers \cup {None, Torn}]
  /\ faults \in 0..MaxFaults

Others(o) == \A q \in Ids \ {o} : ledger'[q] = ledger[q] /\ pend'[q] = pend[q]

Stays(o)      == ledger'[o] = ledger[o] /\ pend'[o] = pend[o]
Becomes(o, m) == Writable(o, m) /\ ledger'[o] = m /\ pend'[o] = None
Pends(o, m)   == Writable(o, m) /\ ledger'[o] = ledger[o] /\ pend'[o] \in {Torn, m}
Takes(o)      == /\ ledger[o] \in Ledgers /\ pend[o] \in Ledgers /\ Legal(ledger[o], pend[o])
                 /\ ledger'[o] = pend[o] /\ pend'[o] = None

LEMMA FaultType ==
  ASSUME faults \in 0..MaxFaults, Fault
  PROVE  faults' \in 0..MaxFaults
BY SkillConstants DEF Fault

LEMMA WritableType ==
  ASSUME NEW o \in Ids, NEW m, Writable(o, m)
  PROVE  /\ ledger[o] \in Ledgers /\ pend[o] = None /\ Legal(ledger[o], m)
         /\ m \in Ledgers /\ m.leaf = ledger[o].leaf /\ ~Settled(ledger[o])
BY LegalType, LegalOpen DEF Writable

LEMMA PersistShape ==
  ASSUME NEW o \in Ids, NEW m, NEW ok \in BOOLEAN, FilesTyped, Persist(o, m, ok)
  PROVE  /\ FilesTyped' /\ Others(o)
         /\ Stays(o) \/ Becomes(o, m) \/ Pends(o, m)
         /\ ok => Becomes(o, m)
<1> USE DEF FilesTyped, Others, Stays, Becomes, Pends
<1>1. CASE /\ ok /\ Writable(o, m) /\ ledger' = [ledger EXCEPT ![o] = m]
           /\ UNCHANGED <<pend, faults>>
  BY <1>1, WritableType
<1>2. CASE ~ok /\ UNCHANGED <<ledger, pend, faults>>
  BY <1>2
<1>3. CASE /\ ~ok /\ Writable(o, m) /\ Fault
           /\ \/ UNCHANGED <<ledger, pend>>
              \/ UNCHANGED ledger /\ pend' = [pend EXCEPT ![o] = Torn]
              \/ UNCHANGED ledger /\ pend' = [pend EXCEPT ![o] = m]
              \/ UNCHANGED pend /\ ledger' = [ledger EXCEPT ![o] = m]
  <2>1. faults' \in 0..MaxFaults
    BY <1>3, FaultType
  <2>2. m \in Ledgers /\ pend[o] = None
    BY <1>3, WritableType
  <2>3. CASE UNCHANGED <<ledger, pend>>
    BY <1>3, <2>1, <2>3
  <2>4. CASE UNCHANGED ledger /\ pend' = [pend EXCEPT ![o] = Torn]
    BY <1>3, <2>1, <2>4
  <2>5. CASE UNCHANGED ledger /\ pend' = [pend EXCEPT ![o] = m]
    BY <1>3, <2>1, <2>2, <2>5
  <2>6. CASE UNCHANGED pend /\ ledger' = [ledger EXCEPT ![o] = m]
    BY <1>3, <2>1, <2>2, <2>6
  <2>7. QED
    BY <1>3, <2>3, <2>4, <2>5, <2>6
<1>4. QED
  BY <1>1, <1>2, <1>3 DEF Persist

LEMMA LoadedShape ==
  ASSUME NEW o \in Ids, FilesTyped
  PROVE  \/ pend[o] = None /\ Loaded(o) = ledger[o]
         \/ pend[o] # None /\ Loaded(o) = Torn
         \/ /\ pend[o] \in Ledgers /\ ledger[o] \in Ledgers /\ Legal(ledger[o], pend[o])
            /\ Loaded(o) = pend[o]
BY DEF FilesTyped, Loaded

LEMMA PromoteShape ==
  ASSUME NEW o \in Ids, FilesTyped, Promote(o), faults' \in 0..MaxFaults
  PROVE  /\ FilesTyped' /\ Others(o)
         /\ Stays(o) \/ Takes(o)
         /\ Loaded(o) # Torn => ledger'[o] = Loaded(o) /\ pend'[o] = None
<1> USE LoadedShape, NoLedger, SkillConstants DEF FilesTyped, Others, Stays, Takes, Promote
<1>1. CASE pend[o] = None /\ Loaded(o) = ledger[o]
  BY <1>1
<1>2. CASE pend[o] # None /\ Loaded(o) = Torn
  BY <1>2
<1>3. CASE /\ pend[o] \in Ledgers /\ ledger[o] \in Ledgers /\ Legal(ledger[o], pend[o])
           /\ Loaded(o) = pend[o]
  BY <1>3
<1>4. QED
  BY <1>1, <1>2, <1>3

-----------------------------------------------------------------------------
(* Types, and where a section stands.                                          *)

PlanPCs == {"idle", "reserve", "download", "prepare", "inspect", "release", "seal", "write",
            "drop", "plan"}
WorkPCs == {"begin", "effect", "record", "again", "next"}
Proofs  == {"verified", "failed", "uncertain"}
Runs    == [at : PlanPCs, mode : {"none"}, idx : {0}, to : {"none"}]
             \cup [at : WorkPCs, mode : {"apply", "continue", "reconcile"}, idx : 1..2,
                   to : {"none"} \cup Proofs]

TypeInv ==
  /\ TypeOK
  /\ run \in [Ids -> Runs]
  /\ issued \in [Ids -> SUBSET (1..2)] /\ done \in [Ids -> SUBSET (1..2)]

\* What a section has made durable when it reaches a step.
SectionAt(o) ==
  /\ At(o, "plan") => o \in Removals
  /\ run[o].at \in PlanPCs \ {"idle", "plan"} => o \in Installs
  /\ run[o].at # "idle" => o \in asked
  /\ run[o].at \in PlanPCs \ {"idle", "download"} => lifecycle = o
  /\ run[o].at \in PlanPCs \ {"idle", "drop"} => ledger[o] = None /\ issued[o] = {}
  /\ run[o].at \in {"reserve", "download", "prepare"} => stage[o] = "none"
  /\ run[o].at = "inspect" => stage[o] = "partial"
  /\ run[o].at \in {"inspect", "release", "seal", "write"} => resv[o] # None
  /\ run[o].at \in {"reserve", "download", "prepare", "inspect", "release", "seal"} => resv[o] # "staged"
  /\ run[o].at = "drop" => ledger[o] \in Ledgers
  /\ o \notin asked => ledger[o] = None /\ resv[o] = None /\ stage[o] = "none" /\ issued[o] = {}
  /\ o \in told => run[o].at \notin PlanPCs \ {"idle"} /\ (ledger[o] = None => stage[o] = "none")

\* A pending successor stands beside a ledger that is not settled.
PendingOpen(o) == pend[o] # None => ledger[o] \in Ledgers /\ ~Settled(ledger[o])

Base == TypeInv /\ \A o \in Ids : SectionAt(o) /\ PendingOpen(o)

LEMMA RunFields ==
  ASSUME NEW r \in Runs
  PROVE  /\ r.at \in PlanPCs \cup WorkPCs /\ r.mode \in Modes /\ r.idx \in 0..2
         /\ r.mode = "none" <=> r.at \in PlanPCs
         /\ r.at \in WorkPCs => r.idx \in 1..2 /\ r.to \in {"none"} \cup Proofs
         /\ r.at = "idle" <=> r = Idle
BY DEF Runs, PlanPCs, WorkPCs, Modes, Idle, Run

LEMMA RunTypes ==
  /\ \A at \in PlanPCs : Run(at, "none", 0, "none") \in Runs
  /\ \A at \in WorkPCs, mode \in {"apply", "continue", "reconcile"}, i \in 1..2,
        to \in {"none"} \cup Proofs : Run(at, mode, i, to) \in Runs
  /\ Idle \in Runs
BY DEF Runs, PlanPCs, WorkPCs, Idle, Run

LEMMA RunParts ==
  ASSUME NEW at, NEW mode, NEW i, NEW to
  PROVE  /\ Run(at, mode, i, to).at = at /\ Run(at, mode, i, to).mode = mode
         /\ Run(at, mode, i, to).idx = i /\ Run(at, mode, i, to).to = to
BY DEF Run

LEMMA AnswerTypes ==
  /\ {Planned, Unplanned, Refused, Failure} \subseteq Answers
  /\ \A l : Project(l) \in Answers
  /\ \A l, i, s : s \in Says => Observed(l, i, s) \in Answers
<1>1. {Planned, Unplanned, Refused, Failure} \subseteq Answers
  BY DEF Planned, Unplanned, Refused, Failure, Answer, Answers, Says
<1>2. \A e : Said(e) \in Says
  BY DEF Said, Says
<1>3. \A l : Project(l) \in Answers
  BY <1>2 DEF Project, Answers
<1>4. \A l, i, s : s \in Says => Observed(l, i, s) \in Answers
  BY <1>3 DEF Observed, Answers
<1>5. QED
  BY <1>1, <1>3, <1>4

-----------------------------------------------------------------------------
(* The planning sections keep the base invariant.                              *)

LEMMA Distinct ==
  /\ None # Torn /\ None \notin Ids /\ Torn \notin Ids /\ None \notin Ledgers /\ Torn \notin Ledgers
  /\ None # "reserved" /\ None # "staged" /\ None # "ledger" /\ None # "reservation"
  /\ Torn # "reserved" /\ Torn # "staged" /\ Torn # "ledger" /\ Torn # "reservation"
BY SkillConstants, LifecycleConstants, NoLedger DEF Ids

LEMMA BaseInit == Init => Base
BY SkillConstants, EnvAssumption, NoLedger, RunTypes, RunFields
DEF Init, Base, TypeInv, TypeOK, SectionAt, PendingOpen, At, Leaves, PlanPCs, Idle, Run

LEMMA BasePlanInstall ==
  ASSUME Base, NEW o \in Ids, PlanInstall(o)
  PROVE  Base'
<1> USE DEF PlanInstall, Goto, Leave, Reply, Quiet, files, world, At, Idle
<1>1. TypeInv'
  BY SkillConstants, LifecycleConstants, NoLedger, RunTypes, RunFields, RunParts, AnswerTypes, FaultType
  DEF Base, TypeInv, TypeOK, SectionAt, PendingOpen, PlanPCs, Unused
<1>2. \A q \in Ids : SectionAt(q)'
  BY Distinct, SkillConstants, LifecycleConstants, NoLedger, RunTypes, RunFields, RunParts
  DEF Base, TypeInv, TypeOK, SectionAt, PlanPCs, Unused
<1>3. \A q \in Ids : PendingOpen(q)'
  BY NoLedger DEF Base, TypeInv, TypeOK, SectionAt, PendingOpen, PlanPCs
<1>4. QED
  BY <1>1, <1>2, <1>3 DEF Base

LEMMA BaseReserve ==
  ASSUME Base, NEW o \in Ids, Reserve(o)
  PROVE  Base'
<1> USE DEF Reserve, Goto, Leave, Reply, Quiet, files, world, At, Idle
<1>1. TypeInv'
  <2>1. o \in Installs
    BY DEF Base, SectionAt, PlanPCs
  <2>2. CASE Leave(o, Unplanned) /\ UNCHANGED <<resv, faults>>
    BY <2>2, SkillConstants, LifecycleConstants, NoLedger, RunTypes, RunFields, RunParts, AnswerTypes, FaultType
    DEF Base, TypeInv, TypeOK, SectionAt, PendingOpen, PlanPCs, Unused
  <2>3. CASE /\ resv' = [resv EXCEPT ![o] = "reserved"] /\ Quiet /\ UNCHANGED faults
             /\ Goto(o, "download") /\ lifecycle' = None
    BY <2>1, <2>3, SkillConstants, LifecycleConstants, NoLedger, RunTypes, RunFields, RunParts, AnswerTypes, FaultType
    DEF Base, TypeInv, TypeOK, SectionAt, PendingOpen, PlanPCs, Unused
  <2>4. CASE /\ Fault /\ Leave(o, Unplanned)
             /\ \E r \in {Torn, "reserved"} : resv' = [resv EXCEPT ![o] = r]
    BY <2>1, <2>4, SkillConstants, LifecycleConstants, NoLedger, RunTypes, RunFields, RunParts, AnswerTypes, FaultType
    DEF Base, TypeInv, TypeOK, SectionAt, PendingOpen, PlanPCs, Unused
  <2>5. QED
    BY <2>2, <2>3, <2>4
<1>2. \A q \in Ids : SectionAt(q)'
  BY SkillConstants, LifecycleConstants, NoLedger, RunTypes, RunFields, RunParts
  DEF Base, TypeInv, TypeOK, SectionAt, PlanPCs, Unused
<1>3. \A q \in Ids : PendingOpen(q)'
  BY NoLedger DEF Base, TypeInv, TypeOK, SectionAt, PendingOpen, PlanPCs
<1>4. QED
  BY <1>1, <1>2, <1>3 DEF Base

LEMMA BaseDownloadFails ==
  ASSUME Base, NEW o \in Ids, DownloadFails(o)
  PROVE  Base'
<1> USE DEF DownloadFails, Release, Goto, Leave, Reply, Quiet, files, world, At, Idle
<1>1. TypeInv'
  BY SkillConstants, LifecycleConstants, NoLedger, RunTypes, RunFields, RunParts, AnswerTypes, FaultType
  DEF Base, TypeInv, TypeOK, SectionAt, PendingOpen, PlanPCs, Unused
<1>2. \A q \in Ids : SectionAt(q)'
  BY SkillConstants, LifecycleConstants, NoLedger, RunTypes, RunFields, RunParts
  DEF Base, TypeInv, TypeOK, SectionAt, PlanPCs, Unused
<1>3. \A q \in Ids : PendingOpen(q)'
  BY NoLedger DEF Base, TypeInv, TypeOK, SectionAt, PendingOpen, PlanPCs
<1>4. QED
  BY <1>1, <1>2, <1>3 DEF Base

LEMMA BasePrepare ==
  ASSUME Base, NEW o \in Ids, Prepare(o)
  PROVE  Base'
<1> USE DEF Prepare, Goto, Leave, Reply, Quiet, files, world, At, Idle
<1>1. TypeInv'
  BY SkillConstants, LifecycleConstants, NoLedger, RunTypes, RunFields, RunParts, AnswerTypes, FaultType
  DEF Base, TypeInv, TypeOK, SectionAt, PendingOpen, PlanPCs, Unused
<1>2. \A q \in Ids : SectionAt(q)'
  BY SkillConstants, LifecycleConstants, NoLedger, RunTypes, RunFields, RunParts
  DEF Base, TypeInv, TypeOK, SectionAt, PlanPCs, Unused
<1>3. \A q \in Ids : PendingOpen(q)'
  BY NoLedger DEF Base, TypeInv, TypeOK, SectionAt, PendingOpen, PlanPCs
<1>4. QED
  BY <1>1, <1>2, <1>3 DEF Base

LEMMA BaseStageArchive ==
  ASSUME Base, NEW o \in Ids, StageArchive(o)
  PROVE  Base'
<1> USE DEF StageArchive, Goto, Leave, Reply, Quiet, files, world, At, Idle
<1>1. TypeInv'
  <2>1. o \in Installs /\ stage' \in [Ids -> Children \cup {"none"}]
    BY DEF Base, TypeInv, TypeOK, SectionAt, PlanPCs, Children
  <2>2. run' \in [Ids -> Runs] /\ answer' \in [of : Ids, says : Answers] \cup {None}
    BY RunTypes, AnswerTypes DEF Base, TypeInv, PlanPCs
  <2>3. \A q \in Ids : run'[q].mode \in Modes /\ run'[q].idx \in 0..2
    BY <2>2, RunFields
  <2>4. lifecycle' \in Ids \cup {None} /\ \A q \in Removals : stage'[q] = stage[q]
    <3>1. \A q \in Removals : q # o /\ q \in Ids
      BY <2>1, SkillConstants DEF Ids
    <3>2. lifecycle' \in {lifecycle, None} /\ stage \in [Ids -> Children \cup {"none"}]
      BY DEF Base, TypeInv, TypeOK
    <3>3. \A q \in Ids \ {o} : stage'[q] = stage[q]
      BY <3>2
    <3>4. QED
      BY <3>1, <3>2, <3>3 DEF Base, TypeInv, TypeOK
  <2>5. QED
    BY <2>1, <2>2, <2>3, <2>4 DEF Base, TypeInv, TypeOK
<1>2. \A q \in Ids : SectionAt(q)'
  BY SkillConstants, LifecycleConstants, NoLedger, RunTypes, RunFields, RunParts
  DEF Base, TypeInv, TypeOK, SectionAt, PlanPCs, Unused
<1>3. \A q \in Ids : PendingOpen(q)'
  BY NoLedger DEF Base, TypeInv, TypeOK, SectionAt, PendingOpen, PlanPCs
<1>4. QED
  BY <1>1, <1>2, <1>3 DEF Base

LEMMA BaseRejectArchive ==
  ASSUME Base, NEW o \in Ids, RejectArchive(o)
  PROVE  Base'
<1> USE DEF RejectArchive, Children, Goto, Leave, Reply, Quiet, files, world, At, Idle
<1>1. TypeInv'
  BY SkillConstants, LifecycleConstants, NoLedger, RunTypes, RunFields, RunParts, AnswerTypes, FaultType
  DEF Base, TypeInv, TypeOK, SectionAt, PendingOpen, PlanPCs, Unused
<1>2. \A q \in Ids : SectionAt(q)'
  BY SkillConstants, LifecycleConstants, NoLedger, RunTypes, RunFields, RunParts
  DEF Base, TypeInv, TypeOK, SectionAt, PlanPCs, Unused
<1>3. \A q \in Ids : PendingOpen(q)'
  BY NoLedger DEF Base, TypeInv, TypeOK, SectionAt, PendingOpen, PlanPCs
<1>4. QED
  BY <1>1, <1>2, <1>3 DEF Base

LEMMA BaseReleaseReservation ==
  ASSUME Base, NEW o \in Ids, ReleaseReservation(o)
  PROVE  Base'
<1> USE DEF ReleaseReservation, Release, Goto, Leave, Reply, Quiet, files, world, At, Idle
<1>1. TypeInv'
  <2>1. o \in Installs /\ resv' \in [Ids -> {None, Torn, "reserved", "staged"}] /\ faults' \in 0..MaxFaults
    BY FaultType DEF Base, TypeInv, TypeOK, SectionAt, PlanPCs
  <2>2. run' \in [Ids -> Runs] /\ answer' \in [of : Ids, says : Answers] \cup {None}
    BY RunTypes, AnswerTypes DEF Base, TypeInv, PlanPCs
  <2>3. \A q \in Ids : run'[q].mode \in Modes /\ run'[q].idx \in 0..2
    BY <2>2, RunFields
  <2>4. lifecycle' \in Ids \cup {None} /\ \A q \in Removals : q \in Ids /\ resv'[q] = resv[q]
    <3>1. \A q \in Removals : q # o /\ q \in Ids
      BY <2>1, SkillConstants DEF Ids
    <3>2. lifecycle' \in {lifecycle, None} /\ resv \in [Ids -> {None, Torn, "reserved", "staged"}]
      BY DEF Base, TypeInv, TypeOK
    <3>3. resv' = resv \/ \E r : resv' = [resv EXCEPT ![o] = r]
      OBVIOUS
    <3>4. QED
      BY <3>1, <3>2, <3>3 DEF Base, TypeInv, TypeOK
  <2>5. QED
    BY <2>1, <2>2, <2>3, <2>4 DEF Base, TypeInv, TypeOK
<1>2. \A q \in Ids : SectionAt(q)'
  BY SkillConstants, LifecycleConstants, NoLedger, RunTypes, RunFields, RunParts
  DEF Base, TypeInv, TypeOK, SectionAt, PlanPCs, Unused
<1>3. \A q \in Ids : PendingOpen(q)'
  BY NoLedger DEF Base, TypeInv, TypeOK, SectionAt, PendingOpen, PlanPCs
<1>4. QED
  BY <1>1, <1>2, <1>3 DEF Base

LEMMA BaseSealArchive ==
  ASSUME Base, NEW o \in Ids, SealArchive(o)
  PROVE  Base'
<1> USE DEF SealArchive, Children, Goto, Leave, Reply, Quiet, files, world, At, Idle
<1>1. TypeInv'
  BY SkillConstants, LifecycleConstants, NoLedger, RunTypes, RunFields, RunParts, AnswerTypes, FaultType
  DEF Base, TypeInv, TypeOK, SectionAt, PendingOpen, PlanPCs, Unused
<1>2. \A q \in Ids : SectionAt(q)'
  BY SkillConstants, LifecycleConstants, NoLedger, RunTypes, RunFields, RunParts
  DEF Base, TypeInv, TypeOK, SectionAt, PlanPCs, Unused
<1>3. \A q \in Ids : PendingOpen(q)'
  BY NoLedger DEF Base, TypeInv, TypeOK, SectionAt, PendingOpen, PlanPCs
<1>4. QED
  BY <1>1, <1>2, <1>3 DEF Base

LEMMA BaseRecordStaged ==
  ASSUME Base, NEW o \in Ids, RecordStaged(o)
  PROVE  Base'
<1> USE DEF RecordStaged, Goto, Leave, Reply, Quiet, files, world, At, Idle
<1>1. TypeInv'
  <2>1. o \in Installs /\ resv' \in [Ids -> {None, Torn, "reserved", "staged"}] /\ faults' \in 0..MaxFaults
    BY FaultType DEF Base, TypeInv, TypeOK, SectionAt, PlanPCs
  <2>2. run' \in [Ids -> Runs] /\ answer' \in [of : Ids, says : Answers] \cup {None}
    BY RunTypes, AnswerTypes DEF Base, TypeInv, PlanPCs
  <2>3. \A q \in Ids : run'[q].mode \in Modes /\ run'[q].idx \in 0..2
    BY <2>2, RunFields
  <2>4. lifecycle' \in Ids \cup {None} /\ \A q \in Removals : q \in Ids /\ resv'[q] = resv[q]
    <3>1. \A q \in Removals : q # o /\ q \in Ids
      BY <2>1, SkillConstants DEF Ids
    <3>2. lifecycle' \in {lifecycle, None} /\ resv \in [Ids -> {None, Torn, "reserved", "staged"}]
      BY DEF Base, TypeInv, TypeOK
    <3>3. resv' = resv \/ \E r : resv' = [resv EXCEPT ![o] = r]
      OBVIOUS
    <3>4. QED
      BY <3>1, <3>2, <3>3 DEF Base, TypeInv, TypeOK
  <2>5. QED
    BY <2>1, <2>2, <2>3, <2>4 DEF Base, TypeInv, TypeOK
<1>2. \A q \in Ids : SectionAt(q)'
  <2> SUFFICES ASSUME NEW q \in Ids PROVE SectionAt(q)'
    OBVIOUS
  <2>1. /\ SectionAt(q) /\ SectionAt(o) /\ run \in [Ids -> Runs] /\ resv \in [Ids -> {None, Torn, "reserved", "staged"}]
        /\ None # "reserved" /\ None # "staged"
    BY LifecycleConstants DEF Base, TypeInv, TypeOK
  <2>2. /\ UNCHANGED <<ledger, stage, asked, issued>>
        /\ q # o => resv'[q] = resv[q] /\ run'[q] = run[q]
        /\ resv'[o] # None /\ (run'[o].at = "idle" \/ (run'[o].at = "write" /\ lifecycle' = lifecycle))
        /\ lifecycle = o
    <3>1. lifecycle = o
      BY <2>1 DEF SectionAt, PlanPCs
    <3>2. CASE resv' = [resv EXCEPT ![o] = "staged"] /\ Goto(o, "write")
               /\ Quiet /\ UNCHANGED <<faults, lifecycle>>
      BY <2>1, <3>1, <3>2, RunParts
    <3>3. CASE Leave(o, Unplanned) /\ \E r \in {"reserved", "staged"} : resv' = [resv EXCEPT ![o] = r]
      BY <2>1, <3>1, <3>3, RunParts
    <3>4. QED
      BY <3>2, <3>3
  <2>3. CASE q = o
    BY <2>1, <2>2, <2>3 DEF SectionAt, PlanPCs
  <2>4. CASE q # o
    BY <2>1, <2>2, <2>4, SkillConstants DEF SectionAt, PlanPCs
  <2>5. QED
    BY <2>3, <2>4
<1>3. \A q \in Ids : PendingOpen(q)'
  BY NoLedger DEF Base, TypeInv, TypeOK, SectionAt, PendingOpen, PlanPCs
<1>4. QED
  BY <1>1, <1>2, <1>3 DEF Base

LEMMA BaseRefusePlan ==
  ASSUME Base, NEW o \in Ids, RefusePlan(o)
  PROVE  Base'
<1> USE DEF RefusePlan, Goto, Leave, Reply, Quiet, files, world, At, Idle
<1>1. TypeInv'
  BY SkillConstants, LifecycleConstants, NoLedger, RunTypes, RunFields, RunParts, AnswerTypes, FaultType
  DEF Base, TypeInv, TypeOK, SectionAt, PendingOpen, PlanPCs, Unused
<1>2. \A q \in Ids : SectionAt(q)'
  BY SkillConstants, LifecycleConstants, NoLedger, RunTypes, RunFields, RunParts
  DEF Base, TypeInv, TypeOK, SectionAt, PlanPCs, Unused
<1>3. \A q \in Ids : PendingOpen(q)'
  BY NoLedger DEF Base, TypeInv, TypeOK, SectionAt, PendingOpen, PlanPCs
<1>4. QED
  BY <1>1, <1>2, <1>3 DEF Base

LEMMA BaseWriteLedger ==
  ASSUME Base, NEW o \in Ids, WriteLedger(o)
  PROVE  Base'
<1> USE DEF WriteLedger, Goto, Leave, Reply, Quiet, files, world, At, Idle
<1>1. TypeInv'
  <2>1. Fresh(o) \in Ledgers /\ ledger[o] = None
    BY FreshFields DEF Base, SectionAt, PlanPCs, Leaves
  <2>2. CASE /\ ledger' = [ledger EXCEPT ![o] = Fresh(o)] /\ Goto(o, "drop")
             /\ Quiet /\ UNCHANGED <<faults, lifecycle>>
    BY <2>1, <2>2, SkillConstants, LifecycleConstants, NoLedger, RunTypes, RunFields, RunParts, AnswerTypes, FaultType
    DEF Base, TypeInv, TypeOK, SectionAt, PendingOpen, PlanPCs, Unused
  <2>3. CASE Fault /\ Leave(o, Unplanned) /\ \E l \in {Torn, Fresh(o)} : ledger' = [ledger EXCEPT ![o] = l]
    BY <2>1, <2>3, SkillConstants, LifecycleConstants, NoLedger, RunTypes, RunFields, RunParts, AnswerTypes, FaultType
    DEF Base, TypeInv, TypeOK, SectionAt, PendingOpen, PlanPCs, Unused
  <2>4. QED
    BY <2>2, <2>3
<1>2. \A q \in Ids : SectionAt(q)'
  <2>1. Fresh(o) \in Ledgers /\ ledger[o] = None
    BY FreshFields DEF Base, SectionAt, PlanPCs, Leaves
  <2>2. CASE /\ ledger' = [ledger EXCEPT ![o] = Fresh(o)] /\ Goto(o, "drop")
             /\ Quiet /\ UNCHANGED <<faults, lifecycle>>
    BY <2>1, <2>2, SkillConstants, LifecycleConstants, NoLedger, RunTypes, RunFields, RunParts, AnswerTypes, FaultType
    DEF Base, TypeInv, TypeOK, SectionAt, PendingOpen, PlanPCs, Unused
  <2>3. CASE Fault /\ Leave(o, Unplanned) /\ \E l \in {Torn, Fresh(o)} : ledger' = [ledger EXCEPT ![o] = l]
    BY <2>1, <2>3, SkillConstants, LifecycleConstants, NoLedger, RunTypes, RunFields, RunParts, AnswerTypes, FaultType
    DEF Base, TypeInv, TypeOK, SectionAt, PendingOpen, PlanPCs, Unused
  <2>4. QED
    BY <2>2, <2>3
<1>3. \A q \in Ids : PendingOpen(q)'
  BY NoLedger DEF Base, TypeInv, TypeOK, SectionAt, PendingOpen, PlanPCs
<1>4. QED
  BY <1>1, <1>2, <1>3 DEF Base

LEMMA BaseDropReservation ==
  ASSUME Base, NEW o \in Ids, DropReservation(o)
  PROVE  Base'
<1> USE DEF DropReservation, Goto, Leave, Reply, Quiet, files, world, At, Idle
<1>1. TypeInv'
  <2>1. o \in Installs /\ o \in asked
    BY DEF Base, SectionAt, PlanPCs
  <2>2. CASE /\ resv' = [resv EXCEPT ![o] = None] /\ told' = told \cup {o}
             /\ Leave(o, Planned) /\ UNCHANGED faults
    BY <2>1, <2>2, SkillConstants, LifecycleConstants, NoLedger, RunTypes, RunFields, RunParts, AnswerTypes, FaultType
    DEF Base, TypeInv, TypeOK, SectionAt, PendingOpen, PlanPCs, Unused
  <2>3. CASE /\ Fault /\ Leave(o, Unplanned) /\ UNCHANGED told
             /\ \E r \in {None, resv[o]} : resv' = [resv EXCEPT ![o] = r]
    BY <2>1, <2>3, SkillConstants, LifecycleConstants, NoLedger, RunTypes, RunFields, RunParts, AnswerTypes, FaultType
    DEF Base, TypeInv, TypeOK, SectionAt, PendingOpen, PlanPCs, Unused
  <2>4. QED
    BY <2>2, <2>3
<1>2. \A q \in Ids : SectionAt(q)'
  BY SkillConstants, LifecycleConstants, NoLedger, RunTypes, RunFields, RunParts
  DEF Base, TypeInv, TypeOK, SectionAt, PlanPCs, Unused
<1>3. \A q \in Ids : PendingOpen(q)'
  BY NoLedger DEF Base, TypeInv, TypeOK, SectionAt, PendingOpen, PlanPCs
<1>4. QED
  BY <1>1, <1>2, <1>3 DEF Base

LEMMA BasePlanRemoval ==
  ASSUME Base, NEW o \in Ids, PlanRemoval(o)
  PROVE  Base'
<1> USE DEF PlanRemoval, Goto, Leave, Reply, Quiet, files, world, At, Idle
<1>1. TypeInv'
  BY SkillConstants, LifecycleConstants, NoLedger, RunTypes, RunFields, RunParts, AnswerTypes, FaultType
  DEF Base, TypeInv, TypeOK, SectionAt, PendingOpen, PlanPCs, Unused
<1>2. \A q \in Ids : SectionAt(q)'
  BY SkillConstants, LifecycleConstants, NoLedger, RunTypes, RunFields, RunParts
  DEF Base, TypeInv, TypeOK, SectionAt, PlanPCs, Unused
<1>3. \A q \in Ids : PendingOpen(q)'
  BY NoLedger DEF Base, TypeInv, TypeOK, SectionAt, PendingOpen, PlanPCs
<1>4. QED
  BY <1>1, <1>2, <1>3 DEF Base

LEMMA BaseWriteRemoval ==
  ASSUME Base, NEW o \in Ids, WriteRemoval(o)
  PROVE  Base'
<1> USE DEF WriteRemoval, Goto, Leave, Reply, Quiet, files, world, At, Idle
<1>1. TypeInv'
  <2>1. o \in asked /\ ledger[o] = None
    BY DEF Base, SectionAt, PlanPCs
  <2>2. CASE Leave(o, Unplanned) /\ UNCHANGED <<ledger, told, faults>>
    BY <2>1, <2>2, SkillConstants, LifecycleConstants, NoLedger, RunTypes, RunFields, RunParts, AnswerTypes, FaultType
    DEF Base, TypeInv, TypeOK, SectionAt, PendingOpen, PlanPCs, Unused
  <2>3. CASE dir \notin {None, "foreign"} /\ ledger' = [ledger EXCEPT ![o] = Fresh(dir)]
             /\ told' = told \cup {o} /\ Leave(o, Planned) /\ UNCHANGED faults
    <3>1. Fresh(dir) \in Ledgers
      BY <2>3, FreshFields DEF Base, TypeInv, TypeOK
    <3>2. QED
      BY <2>1, <2>3, <3>1, SkillConstants, LifecycleConstants, NoLedger, RunTypes, RunFields, RunParts, AnswerTypes, FaultType
      DEF Base, TypeInv, TypeOK, SectionAt, PendingOpen, PlanPCs, Unused
  <2>4. CASE /\ dir \notin {None, "foreign"} /\ Fault /\ Leave(o, Unplanned) /\ UNCHANGED told
             /\ \E l \in {Torn, Fresh(dir)} : ledger' = [ledger EXCEPT ![o] = l]
    <3>1. Fresh(dir) \in Ledgers
      BY <2>4, FreshFields DEF Base, TypeInv, TypeOK
    <3>2. QED
      BY <2>1, <2>4, <3>1, SkillConstants, LifecycleConstants, NoLedger, RunTypes, RunFields, RunParts, AnswerTypes, FaultType
      DEF Base, TypeInv, TypeOK, SectionAt, PendingOpen, PlanPCs, Unused
  <2>5. QED
    BY <2>2, <2>3, <2>4
<1>2. \A q \in Ids : SectionAt(q)'
  BY SkillConstants, LifecycleConstants, NoLedger, RunTypes, RunFields, RunParts
  DEF Base, TypeInv, TypeOK, SectionAt, PlanPCs, Unused
<1>3. \A q \in Ids : PendingOpen(q)'
  BY NoLedger DEF Base, TypeInv, TypeOK, SectionAt, PendingOpen, PlanPCs
<1>4. QED
  BY <1>1, <1>2, <1>3 DEF Base

LEMMA BaseCollect ==
  ASSUME Base, NEW o \in Ids, NEW p \in Ids, Collect(o, p)
  PROVE  Base'
<1> USE DEF Quiet, world, At
<1>0. /\ TypeInv /\ SectionAt(p) /\ PendingOpen(p) /\ run[p] \in Runs
      /\ ~Locked(p) /\ ~Stuck(p)
      /\ UNCHANGED <<pend, expired, lifecycle, asked, told, run, dir, attached, late, issued, done, env>>
      /\ answer' = None
  BY DEF Base, TypeInv, Collect
<1>1. /\ run[p].at \notin {"inspect", "release", "seal", "write", "drop"} \cup WorkPCs
  BY <1>0, RunFields DEF Locked, PlanPCs, WorkPCs
<1>2. TypeInv' /\ SectionAt(p)' /\ PendingOpen(p)' /\ \A q \in Ids \ {p} : /\ ledger'[q] = ledger[q]
                                              /\ resv'[q] = resv[q] /\ stage'[q] = stage[q]
  <2>1. CASE DropRedundant(p)
    BY <1>0, <1>1, <2>1, Distinct DEF DropRedundant, Redundant, TypeInv, TypeOK, SectionAt, PendingOpen, PlanPCs
  <2>2. CASE Bury(p)
    <3>1. tomb' \in [Ids -> {None, Torn, "ledger", "reservation"}] /\ faults' \in 0..MaxFaults
      BY <1>0, <2>2, FaultType DEF Bury, Retires, TypeInv, TypeOK
    <3>2. QED
      BY <1>0, <2>2, <3>1 DEF Bury, TypeInv, TypeOK, SectionAt, PendingOpen
  <2>3. CASE Unstage(p)
    <3>1. stage[p] # "none" /\ stage'[p] \in {"none", "partial"} /\ (p \in Removals => FALSE)
      BY <1>0, <2>3 DEF Unstage, TypeInv, TypeOK
    <3>2. stage' \in [Ids -> Children \cup {"none"}] /\ faults' \in 0..MaxFaults
      BY <1>0, <2>3, FaultType DEF Unstage, Children, TypeInv, TypeOK
    <3>3. UNCHANGED <<ledger, resv, tomb>> /\ \A q \in Ids \ {p} : stage'[q] = stage[q]
      BY <1>0, <2>3 DEF Unstage, TypeInv, TypeOK
    <3>4. TypeInv'
      BY <1>0, <3>1, <3>2, <3>3 DEF TypeInv, TypeOK
    <3>5. SectionAt(p)' /\ PendingOpen(p)'
      BY <1>0, <1>1, <3>1, <3>3 DEF SectionAt, PendingOpen, PlanPCs
    <3>6. QED
      BY <3>3, <3>4, <3>5
  <2>4. CASE Retire(p)
    <3>1. stage[p] = "none" /\ UNCHANGED <<stage, tomb, faults>>
      BY <2>4 DEF Retire
    <3>2. CASE Retires(p) = "ledger" /\ ledger' = [ledger EXCEPT ![p] = None] /\ UNCHANGED resv
      <4>1. Settled(ledger[p]) /\ ledger[p] \in Ledgers
        BY <3>2 DEF Retires, Collectable
      <4>2. pend[p] = None
        BY <1>0, <4>1 DEF PendingOpen
      <4>3. TypeInv'
        BY <1>0, <3>1, <3>2, <4>2 DEF TypeInv, TypeOK
      <4>4. QED
        BY <1>0, <1>1, <3>1, <3>2, <4>2, <4>3 DEF TypeInv, TypeOK, SectionAt, PendingOpen, PlanPCs
    <3>3. CASE resv' = [resv EXCEPT ![p] = None] /\ UNCHANGED ledger
      BY <1>0, <1>1, <3>1, <3>3, Distinct DEF TypeInv, TypeOK, SectionAt, PendingOpen, PlanPCs
    <3>4. QED
      BY <2>4, <3>2, <3>3 DEF Retire
  <2>5. CASE Unbury(p)
    BY <1>0, <1>1, <2>5 DEF Unbury, TypeInv, TypeOK, SectionAt, PendingOpen
  <2>6. QED
    BY <2>1, <2>2, <2>3, <2>4, <2>5 DEF Collect
<1>3. \A q \in Ids : SectionAt(q)' /\ PendingOpen(q)'
  BY <1>0, <1>2 DEF Base, SectionAt, PendingOpen
<1>4. QED
  BY <1>2, <1>3 DEF Base

LEMMA BaseCollectFails ==
  ASSUME Base, NEW o \in Ids, CollectFails(o)
  PROVE  Base'
<1> USE DEF CollectFails, Leave, Reply, files, world, At, Idle
<1>1. TypeInv'
  <2>1. run' \in [Ids -> Runs] /\ answer' \in [of : Ids, says : Answers]
    BY RunTypes, AnswerTypes DEF Base, TypeInv
  <2>2. \A q \in Ids : run'[q].mode \in Modes /\ run'[q].idx \in 0..2
    BY <2>1, RunFields
  <2>3. QED
    BY <2>1, <2>2 DEF Base, TypeInv, TypeOK
<1>2. \A q \in Ids : SectionAt(q)'
  BY SkillConstants, RunTypes, RunFields, RunParts
  DEF Base, TypeInv, SectionAt, PlanPCs, Collecting
<1>3. \A q \in Ids : PendingOpen(q)'
  BY DEF Base, PendingOpen
<1>4. QED
  BY <1>1, <1>2, <1>3 DEF Base

LEMMA BasePlanning ==
  ASSUME Base, NEW o \in Ids, Planning(o)
  PROVE  Base'
BY BasePlanInstall, BaseReserve, BaseDownloadFails, BasePrepare, BaseStageArchive,
   BaseRejectArchive, BaseReleaseReservation, BaseSealArchive, BaseRecordStaged, BaseRefusePlan, BaseWriteLedger,
   BaseDropReservation, BasePlanRemoval, BaseWriteRemoval, BaseCollect, BaseCollectFails
DEF Planning

-----------------------------------------------------------------------------
(* The requests on a ledger keep it too.                                        *)

WorldTyped ==
  /\ dir \in Leaves \cup {None} /\ attached \in BOOLEAN /\ late \in SUBSET Ids
  /\ issued \in [Ids -> SUBSET (1..2)] /\ done \in [Ids -> SUBSET (1..2)] /\ env \in 0..MaxEnv

Writes(o) == Stays(o) \/ Takes(o) \/ \E m : Becomes(o, m) \/ Pends(o, m)

LEMMA BaseTyped == Base => FilesTyped /\ WorldTyped
BY DEF Base, TypeInv, TypeOK, FilesTyped, WorldTyped

\* What any step of a request does is enough.
LEMMA BaseWork ==
  ASSUME Base, NEW o \in asked, UNCHANGED plans, FilesTyped', WorldTyped', Others(o), Writes(o),
         NEW r \in Runs, r.at \in WorkPCs \cup {"idle"}, run' = [run EXCEPT ![o] = r],
         run[o].at \in WorkPCs \cup {"idle"},
         answer' \in [of : Ids, says : Answers] \cup {None},
         \A q \in Ids \ {o} : issued'[q] = issued[q]
  PROVE  Base'
<1> USE DEF plans
<1>1. o \in Ids
  BY DEF Base, TypeInv, TypeOK
<1>2. run' \in [Ids -> Runs] /\ run'[o] = r /\ \A q \in Ids \ {o} : run'[q] = run[q]
  BY <1>1 DEF Base, TypeInv
<1>3. /\ ledger'[o] = ledger[o] \/ (ledger[o] \in Ledgers /\ ledger'[o] \in Ledgers)
      /\ pend'[o] # None => ledger'[o] \in Ledgers /\ ~Settled(ledger'[o])
  BY <1>1, WritableType DEF Base, PendingOpen, Writes, Stays, Takes, Becomes, Pends
<1>4. \A q \in Ids : pend'[q] # None => ledger'[q] \in Ledgers /\ ~Settled(ledger'[q])
  BY <1>3 DEF Base, PendingOpen, Others
<1>5. \A q \in Ids : run'[q].mode \in Modes /\ run'[q].idx \in 0..2
  BY <1>2, RunFields
<1>6. TypeInv'
  BY <1>2, <1>4, <1>5 DEF Base, TypeInv, TypeOK, FilesTyped, WorldTyped
<1>7. \A q \in Ids : SectionAt(q)'
  <2>1. SectionAt(o)'
    BY <1>1, <1>2, <1>3, Distinct DEF Base, SectionAt, At, PlanPCs, WorkPCs
  <2>2. ASSUME NEW q \in Ids \ {o} PROVE SectionAt(q)'
    BY <1>2 DEF Base, SectionAt, At, Others
  <2>3. QED
    BY <2>1, <2>2
<1>8. QED
  BY <1>4, <1>6, <1>7 DEF Base, PendingOpen

LEMMA ReplyShape ==
  ASSUME NEW o \in Ids, NEW a \in Answers, Reply(o, a)
  PROVE  /\ Idle \in Runs /\ Idle.at = "idle" /\ run' = [run EXCEPT ![o] = Idle]
         /\ answer' \in [of : Ids, says : Answers] \cup {None}
BY RunTypes DEF Reply, Idle, Run

LEMMA WorkShape ==
  ASSUME NEW o \in Ids, NEW at \in WorkPCs, NEW mode \in {"apply", "continue", "reconcile"},
         NEW i \in 1..2, NEW to \in {"none"} \cup Proofs, Work1(o, at, mode, i, to), Quiet
  PROVE  /\ Run(at, mode, i, to) \in Runs /\ Run(at, mode, i, to).at \in WorkPCs
         /\ run' = [run EXCEPT ![o] = Run(at, mode, i, to)]
         /\ answer' \in [of : Ids, says : Answers] \cup {None}
BY RunTypes, RunParts DEF Work1, Quiet

\* A request at work has a mode and an effect.
LEMMA WorkFields ==
  ASSUME Base, NEW o \in Ids, run[o].at \in WorkPCs
  PROVE  /\ run[o].mode \in {"apply", "continue", "reconcile"} /\ run[o].idx \in 1..2
         /\ run[o].to \in {"none"} \cup Proofs /\ o \in asked
<1>1. run[o] \in Runs /\ run[o].at # "idle" /\ SectionAt(o)
  BY DEF Base, TypeInv, WorkPCs
<1>2. QED
  BY <1>1 DEF Runs, PlanPCs, WorkPCs, SectionAt

LEMMA BaseReply ==
  ASSUME Base, NEW o \in asked, UNCHANGED plans, FilesTyped', WorldTyped', Others(o), Writes(o),
         run[o].at \in WorkPCs \cup {"idle"}, NEW a \in Answers, Reply(o, a),
         \A q \in Ids \ {o} : issued'[q] = issued[q]
  PROVE  Base'
<1>1. o \in Ids
  BY DEF Base, TypeInv, TypeOK
<1>2. QED
  BY <1>1, ReplyShape, BaseWork

LEMMA BaseGoes ==
  ASSUME Base, NEW o \in asked, UNCHANGED plans, FilesTyped', WorldTyped', Others(o), Writes(o),
         run[o].at \in WorkPCs \cup {"idle"},
         NEW at \in WorkPCs, NEW mode \in {"apply", "continue", "reconcile"},
         NEW i \in 1..2, NEW to \in {"none"} \cup Proofs, Work1(o, at, mode, i, to), Quiet,
         \A q \in Ids \ {o} : issued'[q] = issued[q]
  PROVE  Base'
<1>1. o \in Ids
  BY DEF Base, TypeInv, TypeOK
<1>2. QED
  BY <1>1, WorkShape, BaseWork

LEMMA Unmoved ==
  ASSUME FilesTyped, WorldTyped, NEW o \in Ids
  PROVE  /\ UNCHANGED <<ledger, pend>> => Others(o) /\ Writes(o)
         /\ UNCHANGED <<ledger, pend, faults>> => FilesTyped'
         /\ UNCHANGED world => WorldTyped' /\ \A q \in Ids \ {o} : issued'[q] = issued[q]
BY DEF FilesTyped, WorldTyped, world, Others, Writes, Stays

LEMMA RequestShape ==
  ASSUME Base, NEW o \in Ids, Request(o), faults' \in 0..MaxFaults
  PROVE  /\ o \in asked /\ run[o].at = "idle" /\ UNCHANGED plans /\ UNCHANGED world
         /\ FilesTyped' /\ WorldTyped' /\ Others(o)
         /\ Stays(o) \/ Takes(o)
         /\ Loaded(o) # Torn => ledger'[o] = Loaded(o) /\ pend'[o] = None
<1>1. FilesTyped /\ WorldTyped /\ told \subseteq asked
  BY BaseTyped DEF Base, TypeInv, TypeOK
<1>2. o \in asked /\ run[o].at = "idle" /\ UNCHANGED plans /\ UNCHANGED world /\ Promote(o)
  BY <1>1 DEF Request, Idle, Run
<1>3. WorldTyped'
  BY <1>1, <1>2, Unmoved
<1>4. QED
  BY <1>1, <1>2, <1>3, PromoteShape

LEMMA BaseUnusable ==
  ASSUME Base, NEW o \in Ids, Request(o), faults' \in 0..MaxFaults, Unusable(o)
  PROVE  Base'
<1>1. PICK a \in Answers : Reply(o, a)
  BY AnswerTypes DEF Unusable
<1>2. QED
  BY <1>1, RequestShape, BaseReply DEF Writes, world

LEMMA Usables ==
  ASSUME NEW o \in Ids, Usable(o)
  PROVE  Loaded(o) \in Ledgers /\ Loaded(o) # Torn
BY Distinct DEF Usable

LEMMA BaseApply ==
  ASSUME Base, NEW o \in Ids, Apply(o)
  PROVE  Base'
<1>1. Request(o) /\ faults' \in 0..MaxFaults
  BY BaseTyped DEF Apply, FilesTyped
<1>2. CASE Unusable(o)
  BY <1>1, <1>2, BaseUnusable
<1>3. CASE \E a \in {Refused, Failure} : Reply(o, a)
  BY <1>1, <1>3, RequestShape, BaseReply, AnswerTypes DEF Writes, world
<1>4. CASE Admit(o, "apply", 1)
  BY <1>1, <1>4, RequestShape, BaseGoes DEF Writes, world, Admit, WorkPCs
<1>5. QED
  BY <1>2, <1>3, <1>4 DEF Apply

LEMMA BaseContinue ==
  ASSUME Base, NEW o \in Ids, Continue(o)
  PROVE  Base'
<1>1. Request(o) /\ faults' \in 0..MaxFaults
  BY BaseTyped DEF Continue, FilesTyped
<1>2. CASE Unusable(o)
  BY <1>1, <1>2, BaseUnusable
<1>3. CASE \E a \in {Refused, Failure} : Reply(o, a)
  BY <1>1, <1>3, RequestShape, BaseReply, AnswerTypes DEF Writes, world
<1>4. CASE Admit(o, "continue", 2)
  BY <1>1, <1>4, RequestShape, BaseGoes DEF Writes, world, Admit, WorkPCs
<1>5. QED
  BY <1>2, <1>3, <1>4 DEF Continue

LEMMA ReadbackType ==
  ASSUME NEW o, NEW i, NEW leaf
  PROVE  Readback(o, i, leaf) \in Proofs
BY DEF Readback, Proofs

LEMMA BaseReconcile ==
  ASSUME Base, NEW o \in Ids, Reconcile(o)
  PROVE  Base'
<1>1. Request(o) /\ faults' \in 0..MaxFaults
  BY BaseTyped, FaultType DEF Reconcile, FilesTyped
<1>2. CASE Unusable(o)
  BY <1>1, <1>2, BaseUnusable
<1>3. CASE Reply(o, Refused)
  BY <1>1, <1>3, RequestShape, BaseReply, AnswerTypes DEF Writes, world
<1>4. CASE Quiet /\ \E i \in 1..2, s \in Proofs : Work1(o, "record", "reconcile", i, s)
  BY <1>1, <1>4, RequestShape, BaseGoes DEF Writes, world, WorkPCs
<1>5. QED
  BY <1>2, <1>3, <1>4, ReadbackType DEF Reconcile, Proofs

LEMMA PersistWrites ==
  ASSUME Base, NEW o \in Ids, NEW m, NEW ok \in BOOLEAN, Persist(o, m, ok), UNCHANGED world
  PROVE  FilesTyped' /\ WorldTyped' /\ Others(o) /\ Writes(o)
         /\ \A q \in Ids \ {o} : issued'[q] = issued[q]
BY BaseTyped, PersistShape, Unmoved DEF Writes

LEMMA BaseBegin ==
  ASSUME Base, NEW o \in Ids, Begin(o)
  PROVE  Base'
<1>1. run[o].at \in WorkPCs /\ UNCHANGED plans /\ UNCHANGED world
  BY DEF Begin, At, WorkPCs
<1>2. CASE Persist(o, Begun(ledger[o], run[o].idx), TRUE) /\ Step(o, "effect", "none") /\ Quiet
  BY <1>1, <1>2, WorkFields, PersistWrites, BaseGoes DEF Step, WorkPCs
<1>3. CASE Persist(o, Begun(ledger[o], run[o].idx), FALSE) /\ Reply(o, Failure)
  BY <1>1, <1>3, WorkFields, PersistWrites, BaseReply, AnswerTypes
<1>4. QED
  BY <1>2, <1>3 DEF Begin

LEMMA BaseRecord ==
  ASSUME Base, NEW o \in Ids, Record(o)
  PROVE  Base'
<1> DEFINE next == Closed(ledger[o], run[o].idx, run[o].to)
<1>1. run[o].at \in WorkPCs /\ UNCHANGED plans /\ UNCHANGED world
  BY DEF Record, At, WorkPCs
<1>2. PICK ok \in BOOLEAN : Persist(o, next, ok)
  BY DEF Record
<1>3. FilesTyped' /\ WorldTyped' /\ Others(o) /\ Writes(o) /\ \A q \in Ids \ {o} : issued'[q] = issued[q]
  BY <1>1, <1>2, PersistWrites
<1>4. CASE \E a \in Answers : Reply(o, a)
  BY <1>1, <1>3, <1>4, WorkFields, BaseReply
<1>5. CASE Quiet /\ \E at \in {"next", "again"}, to \in {"none", "uncertain"} : Step(o, at, to)
  BY <1>1, <1>3, <1>5, WorkFields, BaseGoes DEF Step, WorkPCs, Proofs
<1>6. QED
  BY <1>4, <1>5, AnswerTypes DEF Record

LEMMA BaseNext2 ==
  ASSUME Base, NEW o \in Ids, Next2(o)
  PROVE  Base'
<1>1. /\ run[o].at \in WorkPCs /\ UNCHANGED plans /\ UNCHANGED world
      /\ FilesTyped' /\ WorldTyped' /\ Others(o) /\ Writes(o)
      /\ \A q \in Ids \ {o} : issued'[q] = issued[q]
  BY BaseTyped, Unmoved DEF Next2, At, WorkPCs
<1>2. CASE Work1(o, "begin", "apply", 2, "none") /\ Quiet
  BY <1>1, <1>2, WorkFields, BaseGoes DEF WorkPCs
<1>3. CASE Reply(o, Refused)
  BY <1>1, <1>3, WorkFields, BaseReply, AnswerTypes
<1>4. QED
  BY <1>2, <1>3 DEF Next2

LEMMA BaseRecordAgain ==
  ASSUME Base, NEW o \in Ids, RecordAgain(o)
  PROVE  Base'
<1> DEFINE doubt == Closed(ledger[o], run[o].idx, "uncertain")
<1>1. run[o].at \in WorkPCs /\ UNCHANGED plans /\ UNCHANGED world
  BY DEF RecordAgain, At, WorkPCs
<1>2. PICK ok \in BOOLEAN : Persist(o, doubt, ok)
  BY DEF RecordAgain
<1>3. \E s \in {"true", "false", "unknown"} : Reply(o, Observed(doubt, run[o].idx, s))
  BY DEF RecordAgain
<1>4. \E a \in Answers : Reply(o, a)
  BY <1>3, AnswerTypes DEF Says
<1>5. QED
  BY <1>1, <1>2, <1>4, WorkFields, PersistWrites, BaseReply

\* What the effects have in common.
EffectStep(o, i) ==
  /\ Effecting(o, i)
  /\ dir' \in {dir, None} \/ (dir' = o /\ o \in Installs /\ i = 1 /\ Happens(o, i))
  /\ attached' \in BOOLEAN
  /\ late' = late \/ (late' = late \cup {o} /\ ~OnDisk(o, i))
  /\ done' = done \/ Happens(o, i)
  /\ faults' \in 0..MaxFaults
  /\ \E at \in {"record", "again"}, to \in Proofs :
       /\ Step(o, at, to)
       /\ (at = "record" /\ to = "verified" /\ OnDisk(o, i)) => Happens(o, i)
       /\ to = "failed" => UNCHANGED <<dir, done, late>>

LEMMA CommitStep ==
  ASSUME Base, NEW o \in Ids, Commit(o)
  PROVE  EffectStep(o, 1)
<1>1. Effecting(o, 1) /\ o \in Installs /\ UNCHANGED <<attached, late>> /\ attached \in BOOLEAN
  BY BaseTyped DEF Commit, Install, WorldTyped
<1>2. CASE /\ dir' = o /\ Happens(o, 1)
           /\ \/ Result(o, "verified") /\ UNCHANGED faults
              \/ Uncertainly(o) /\ Fault
  BY <1>1, <1>2, BaseTyped, FaultType DEF EffectStep, FilesTyped, Result, Uncertainly, Proofs
<1>3. CASE /\ Result(o, "failed") /\ UNCHANGED <<dir, done>>
           /\ Fault \/ (dir # None /\ UNCHANGED faults)
  BY <1>1, <1>3, BaseTyped, FaultType DEF EffectStep, FilesTyped, Result, Proofs
<1>4. QED
  BY <1>2, <1>3 DEF Commit

LEMMA BindStep ==
  ASSUME Base, NEW o \in Ids, NEW i, ~OnDisk(o, i), NEW to \in BOOLEAN, Bind(o, i, to)
  PROVE  EffectStep(o, i)
<1>1. /\ Effecting(o, i) /\ UNCHANGED dir /\ attached \in BOOLEAN /\ faults \in 0..MaxFaults
  BY BaseTyped DEF Bind, WorldTyped, FilesTyped
<1>2. CASE attached' = to /\ Happens(o, i) /\ Result(o, "verified") /\ UNCHANGED <<late, faults>>
  BY <1>1, <1>2 DEF EffectStep, Result, Proofs
<1>3. CASE Result(o, "failed") /\ Fault /\ UNCHANGED <<attached, done, late>>
  BY <1>1, <1>3, FaultType DEF EffectStep, Result, Proofs
<1>4. CASE /\ Result(o, "uncertain") /\ Fault
           /\ \/ UNCHANGED <<attached, done, late>>
              \/ attached' = to /\ Happens(o, i) /\ UNCHANGED late
              \/ late' = late \cup {o} /\ UNCHANGED <<attached, done>>
  BY <1>1, <1>4, FaultType DEF EffectStep, Result, Proofs
<1>5. QED
  BY <1>2, <1>3, <1>4 DEF Bind

LEMMA QuarantineStep ==
  ASSUME Base, NEW o \in Ids, Quarantine(o)
  PROVE  EffectStep(o, 2)
<1>1. /\ Effecting(o, 2) /\ UNCHANGED <<attached, late>> /\ attached \in BOOLEAN /\ faults \in 0..MaxFaults
  BY BaseTyped DEF Quarantine, WorldTyped, FilesTyped
<1>2. CASE /\ dir' = None /\ Happens(o, 2)
           /\ \/ Result(o, "verified") /\ UNCHANGED faults
              \/ Uncertainly(o) /\ Fault
  BY <1>1, <1>2, FaultType DEF EffectStep, Result, Uncertainly, Proofs
<1>3. CASE /\ Fault /\ UNCHANGED <<dir, done>>
           /\ Result(o, IF run[o].mode = "apply" THEN "failed" ELSE "uncertain")
  BY <1>1, <1>3, FaultType DEF EffectStep, Result, Proofs
<1>4. CASE Result(o, "uncertain") /\ UNCHANGED <<dir, done, faults>>
  BY <1>1, <1>4 DEF EffectStep, Result, Proofs
<1>5. QED
  BY <1>2, <1>3, <1>4 DEF Quarantine

LEMMA BaseEffect ==
  ASSUME Base, NEW o \in Ids, NEW i \in 1..2, EffectStep(o, i)
  PROVE  Base'
<1>1. /\ run[o].at \in WorkPCs /\ UNCHANGED <<ledger, pend, env>> /\ UNCHANGED plans
      /\ FilesTyped /\ WorldTyped /\ faults' \in 0..MaxFaults
  BY BaseTyped DEF EffectStep, Effecting, At, WorkPCs
<1>2. FilesTyped'
  BY <1>1 DEF FilesTyped
<1>3. issued' \in [Ids -> SUBSET (1..2)] /\ \A q \in Ids \ {o} : issued'[q] = issued[q]
  BY <1>1 DEF EffectStep, Effecting, WorldTyped
<1>4. done' \in [Ids -> SUBSET (1..2)]
  BY <1>1 DEF EffectStep, Happens, WorldTyped
<1>5. WorldTyped'
  BY <1>1, <1>3, <1>4 DEF EffectStep, WorldTyped, Leaves
<1>6. Others(o) /\ Writes(o)
  BY <1>1, Unmoved
<1>7. Quiet
  BY DEF EffectStep, Effecting
<1>8. PICK at \in {"record", "again"}, to \in Proofs : Step(o, at, to)
  BY DEF EffectStep
<1>9. Work1(o, at, run[o].mode, run[o].idx, to) /\ at \in WorkPCs /\ to \in {"none"} \cup Proofs
  BY <1>8 DEF Step, WorkPCs
<1>10. /\ o \in asked /\ run[o].mode \in {"apply", "continue", "reconcile"} /\ run[o].idx \in 1..2
       /\ run[o].at \in WorkPCs \cup {"idle"}
  BY <1>1, WorkFields
<1>11. QED
  BY <1>1, <1>2, <1>3, <1>5, <1>6, <1>7, <1>9, <1>10, BaseGoes

LEMMA BaseEffects ==
  ASSUME Base, NEW o \in Ids, Commit(o) \/ Attach(o) \/ Detach(o) \/ Quarantine(o)
  PROVE  \E i \in 1..2 : EffectStep(o, i)
<1>1. CASE Commit(o)
  BY <1>1, CommitStep
<1>2. CASE Attach(o)
  <2>1. Bind(o, 2, TRUE) /\ Install(o)
    BY <1>2 DEF Attach
  <2>2. ~OnDisk(o, 2)
    BY <2>1 DEF OnDisk, Install
  <2>3. EffectStep(o, 2)
    BY <2>1, <2>2, BindStep
  <2>4. QED
    BY <2>3
<1>3. CASE Detach(o)
  <2>1. Bind(o, 1, FALSE) /\ ~OnDisk(o, 1)
    BY <1>3 DEF Detach, OnDisk, Install
  <2>2. EffectStep(o, 1)
    BY <2>1, BindStep
  <2>3. QED
    BY <2>2
<1>4. CASE Quarantine(o)
  BY <1>4, QuarantineStep
<1>5. QED
  BY <1>1, <1>2, <1>3, <1>4

LEMMA BaseWorking ==
  ASSUME Base, NEW o \in Ids, Working(o)
  PROVE  Base'
BY BaseApply, BaseContinue, BaseReconcile, BaseBegin, BaseEffects, BaseEffect, BaseRecord,
   BaseNext2, BaseRecordAgain DEF Working

LEMMA BaseLateArrives ==
  ASSUME Base, NEW o \in Ids, LateArrives(o)
  PROVE  Base'
<1> USE DEF LateArrives, files
<1>1. done' \in [Ids -> SUBSET (1..2)] /\ attached' \in BOOLEAN /\ late' \in SUBSET Ids
  BY DEF Base, TypeInv, TypeOK, Happens, Install
<1>2. TypeInv'
  BY <1>1 DEF Base, TypeInv, TypeOK, Quiet
<1>3. QED
  BY <1>2 DEF Base, SectionAt, PendingOpen, At

LEMMA BaseExpire ==
  ASSUME Base, NEW o \in Ids, Expire(o)
  PROVE  Base'
<1> USE DEF Expire, files, world
<1>1. TypeInv'
  BY DEF Base, TypeInv, TypeOK, Quiet
<1>2. QED
  BY <1>1 DEF Base, SectionAt, PendingOpen, At

LEMMA BaseOutside ==
  ASSUME Base, Outside
  PROVE  Base'
<1> USE DEF Outside, files
<1>1. dir' \in Leaves \cup {None} /\ attached' \in BOOLEAN /\ env' \in 0..MaxEnv /\ faults' \in 0..MaxFaults
  <2>1. /\ dir \in Leaves \cup {None} /\ attached \in BOOLEAN
        /\ env \in 0..MaxEnv /\ faults \in 0..MaxFaults
    BY DEF Base, TypeInv, TypeOK
  <2>2. env' \in 0..MaxEnv /\ faults' \in 0..MaxFaults
    BY <2>1, EnvAssumption, FaultType
  <2>3. dir' \in Leaves \cup {None} /\ attached' \in BOOLEAN
    BY <2>1 DEF Leaves
  <2>4. QED
    BY <2>2, <2>3
<1>2. TypeInv'
  BY <1>1 DEF Base, TypeInv, TypeOK, Quiet
<1>3. QED
  BY <1>2 DEF Base, SectionAt, PendingOpen, At

LEMMA CrashShape ==
  ASSUME Base, Crash
  PROVE  /\ run' = [o \in Ids |-> Idle] /\ lifecycle' = None /\ answer' = None
         /\ UNCHANGED <<ledger, resv, stage, tomb, expired, asked, told, dir, attached, done, env>>
         /\ faults' \in 0..MaxFaults /\ late' \in SUBSET Ids /\ issued' \in [Ids -> SUBSET (1..2)]
         /\ pend' \in [Ids -> Ledgers \cup {None, Torn}]
         /\ \A q \in Ids : \/ pend'[q] = pend[q]
                           \/ /\ Writing(q) /\ Writable(q, InFlight(q)) /\ pend'[q] \in {Torn, InFlight(q)}
                              /\ pend'[q] # None /\ ledger[q] \in Ledgers /\ ~Settled(ledger[q])
         /\ \A q \in Ids : \/ issued'[q] = issued[q] /\ (q \in late' <=> q \in late)
                           \/ /\ At(q, "effect") /\ issued'[q] = issued[q] \cup {run[q].idx}
                              /\ run[q].idx = (IF Install(q) THEN 2 ELSE 1)
<1>1. FilesTyped /\ WorldTyped
  BY BaseTyped
<1>2. /\ run' = [o \in Ids |-> Idle] /\ lifecycle' = None /\ answer' = None
      /\ UNCHANGED <<ledger, resv, stage, tomb, expired, asked, told, dir, attached, done, env>>
      /\ faults' \in 0..MaxFaults
  BY <1>1, FaultType DEF Crash, Quiet, FilesTyped
<1>3. CASE UNCHANGED <<pend, late, issued>>
  BY <1>1, <1>2, <1>3 DEF FilesTyped, WorldTyped
<1>4. CASE /\ \E o \in Ids : /\ Writing(o) /\ Writable(o, InFlight(o))
                             /\ \E f \in {Torn, InFlight(o)} : pend' = [pend EXCEPT ![o] = f]
           /\ UNCHANGED <<late, issued>>
  <2>1. PICK o \in Ids : /\ Writing(o) /\ Writable(o, InFlight(o))
                         /\ \E f \in {Torn, InFlight(o)} : pend' = [pend EXCEPT ![o] = f]
    BY <1>4
  <2>2. InFlight(o) \in Ledgers /\ ledger[o] \in Ledgers /\ ~Settled(ledger[o])
    BY <2>1, WritableType
  <2>3. pend' \in [Ids -> Ledgers \cup {None, Torn}]
    BY <1>1, <2>1, <2>2 DEF FilesTyped
  <2>4. pend'[o] # None /\ pend'[o] \in {Torn, InFlight(o)} /\ \A q \in Ids \ {o} : pend'[q] = pend[q]
    BY <1>1, <2>1, <2>2, Distinct DEF FilesTyped
  <2>5. QED
    BY <1>1, <1>2, <1>4, <2>1, <2>2, <2>3, <2>4 DEF WorldTyped
<1>5. CASE /\ \E o \in Ids : /\ At(o, "effect") /\ run[o].idx = (IF Install(o) THEN 2 ELSE 1)
                             /\ late' = late \cup {o}
                             /\ issued' = [issued EXCEPT ![o] = @ \cup {run[o].idx}]
           /\ UNCHANGED pend
  <2>1. PICK o \in Ids : /\ At(o, "effect") /\ run[o].idx = (IF Install(o) THEN 2 ELSE 1)
                         /\ late' = late \cup {o}
                         /\ issued' = [issued EXCEPT ![o] = @ \cup {run[o].idx}]
    BY <1>5
  <2>2. issued' \in [Ids -> SUBSET (1..2)] /\ late' \in SUBSET Ids
    BY <1>1, <2>1 DEF WorldTyped
  <2>3. issued'[o] = issued[o] \cup {run[o].idx} /\ \A q \in Ids \ {o} : issued'[q] = issued[q]
    BY <1>1, <2>1 DEF WorldTyped
  <2>4. QED
    BY <1>1, <1>2, <1>5, <2>1, <2>2, <2>3 DEF FilesTyped
<1>6. QED
  BY <1>3, <1>4, <1>5 DEF Crash

LEMMA BaseCrash ==
  ASSUME Base, Crash
  PROVE  Base'
<1>1. \A q \in Ids : run'[q] = Idle /\ Idle.at = "idle" /\ Idle \in Runs
  BY CrashShape, RunTypes DEF Idle, Run
<1>2. \A q \in Ids : PendingOpen(q)'
  BY CrashShape DEF Base, PendingOpen
<1>3. \A q \in Ids : Idle.mode \in Modes /\ Idle.idx \in 0..2
  BY RunTypes, RunFields
<1>4. TypeInv'
  BY CrashShape, <1>1, <1>2, <1>3 DEF Base, TypeInv, TypeOK, PendingOpen
<1>5. \A q \in Ids : SectionAt(q)'
  <2>1. ASSUME NEW q \in Ids PROVE issued'[q] = issued[q] \/ q \in asked
    BY CrashShape, WorkFields DEF At, WorkPCs
  <2>2. QED
    BY CrashShape, <1>1, <2>1 DEF Base, SectionAt, At, PlanPCs
<1>6. QED
  BY <1>2, <1>4, <1>5 DEF Base

LEMMA BaseNext ==
  ASSUME Base, [Next]_vars
  PROVE  Base'
<1>1. CASE Next
  BY <1>1, BasePlanning, BaseWorking, BaseLateArrives, BaseExpire, BaseOutside, BaseCrash DEF Next
<1>2. CASE UNCHANGED vars
  BY <1>2 DEF vars, files, world, Base, TypeInv, TypeOK, SectionAt, PendingOpen, At
<1>3. QED
  BY <1>1, <1>2

(* Every step of a request, of a plan, of the collector and of the world keeps the  *)
(* types, the section a plan is in with what that section has written, and the fact  *)
(* that a pending successor lies beside an open ledger only (operation.rs).          *)
THEOREM BaseInvariant == Spec => []Base
<1>1. Init => Base
  BY BaseInit
<1>2. Base /\ [Next]_vars => Base'
  BY BaseNext
<1>3. QED
  BY <1>1, <1>2, PTL DEF Spec

(* Types: what a reservation, a staged archive, a tombstone and a pending file    *)
(* may be, a removal keeping neither of the first two (operation.rs, collector    *)
(* and plan sections).                                                            *)
THEOREM TypeCorrect == Spec => []TypeOK
<1>1. Base => TypeOK
  BY DEF Base, TypeInv
<1>2. QED
  BY <1>1, BaseInvariant, PTL

-----------------------------------------------------------------------------
(* A ledger goes only through the collector.                                    *)

LEMMA WorkingWrites ==
  ASSUME Base, NEW o \in Ids, Working(o)
  PROVE  UNCHANGED plans /\ Others(o) /\ Writes(o)
<1>1. CASE Apply(o) \/ Continue(o) \/ Reconcile(o)
  <2>1. Request(o) /\ faults' \in 0..MaxFaults
    BY <1>1, BaseTyped, FaultType DEF Apply, Continue, Reconcile, FilesTyped
  <2>2. QED
    BY <2>1, RequestShape DEF Writes
<1>2. CASE Begin(o) \/ Record(o) \/ RecordAgain(o)
  <2>1. UNCHANGED plans /\ UNCHANGED world /\ \E m : \E ok \in BOOLEAN : Persist(o, m, ok)
    <3>1. CASE Begin(o)
      BY <3>1 DEF Begin
    <3>2. CASE Record(o)
      BY <3>2 DEF Record
    <3>3. CASE RecordAgain(o)
      BY <3>3 DEF RecordAgain
    <3>4. QED
      BY <1>2, <3>1, <3>2, <3>3
  <2>2. QED
    BY <2>1, PersistWrites
<1>3. CASE Commit(o) \/ Attach(o) \/ Detach(o) \/ Quarantine(o)
  <2>1. UNCHANGED plans /\ UNCHANGED <<ledger, pend>>
    BY <1>3, BaseEffects DEF EffectStep, Effecting
  <2>2. QED
    BY <2>1, BaseTyped, Unmoved
<1>4. CASE Next2(o)
  BY <1>4, BaseTyped, Unmoved DEF Next2
<1>5. QED
  BY <1>1, <1>2, <1>3, <1>4 DEF Working

LEMMA WritesKeep ==
  ASSUME Base, NEW o \in Ids, Others(o), Writes(o), NEW q \in Ids
  PROVE  /\ ledger[q] \in Ledgers => ledger'[q] \in Ledgers
         /\ ledger'[q] # None => ledger[q] # None
BY WritableType, Distinct DEF Others, Writes, Stays, Takes, Becomes, Pends

LEMMA PlanKeeps ==
  ASSUME Base, NEW o \in Ids, Planning(o), NEW q \in Ids, ledger[q] \in Ledgers
  PROVE  ledger'[q] \in Ledgers \/ Collect(o, q)
<1> USE DEF files, world
<1>0. ledger \in [Ids -> Ledgers \cup {None, Torn}] /\ SectionAt(o)
  BY DEF Base, TypeInv, TypeOK
<1>1. CASE WriteLedger(o) \/ WriteRemoval(o)
  <2>1. ledger[o] = None
    BY <1>0, <1>1 DEF WriteLedger, WriteRemoval, SectionAt, At, PlanPCs
  <2>2. q # o
    BY <2>1, Distinct
  <2>3. ledger' = ledger \/ \E l : ledger' = [ledger EXCEPT ![o] = l]
    BY <1>1 DEF WriteLedger, WriteRemoval
  <2>4. QED
    BY <1>0, <2>2, <2>3
<1>2. CASE \E p \in Ids : Collect(o, p)
  <2>1. PICK p \in Ids : Collect(o, p)
    BY <1>2
  <2>2. ledger' = ledger \/ ledger' = [ledger EXCEPT ![p] = None]
    BY <2>1 DEF Collect, DropRedundant, Bury, Unstage, Retire, Unbury
  <2>3. QED
    BY <1>0, <2>1, <2>2
<1>3. CASE UNCHANGED ledger
  BY <1>3
<1>4. QED
  BY <1>1, <1>2, <1>3
  DEF Planning, PlanInstall, Reserve, DownloadFails, Prepare, StageArchive, RejectArchive,
      ReleaseReservation, SealArchive, RecordStaged, RefusePlan, DropReservation, PlanRemoval, CollectFails

LEMMA StepKeeps ==
  ASSUME Base, [Next]_vars, NEW q \in Ids, ledger[q] \in Ledgers, ledger'[q] \notin Ledgers
  PROVE  \E o \in Ids : Collect(o, q)
<1>1. CASE \E o \in Ids : Planning(o)
  BY <1>1, PlanKeeps
<1>2. CASE \E o \in Ids : Working(o)
  BY <1>2, WorkingWrites, WritesKeep
<1>3. CASE UNCHANGED ledger
  BY <1>3
<1>4. QED
  BY <1>1, <1>2, <1>3 DEF Next, vars, files, LateArrives, Expire, Outside, Crash

\* The record of a sealed archive leaves the state "staged" by the collector alone, or
\* after its ledger was written.
LEMMA StagedKept ==
  ASSUME Base, [Next]_vars, NEW q \in Ids, resv[q] = "staged", resv'[q] # "staged", ledger'[q] = None
  PROVE  q \in expired /\ stage[q] = "none"
<1>0. /\ resv \in [Ids -> {None, Torn, "reserved", "staged"}] /\ SectionAt(q)
      /\ ledger \in [Ids -> Ledgers \cup {None, Torn}]
  BY DEF Base, TypeInv, TypeOK
<1>1. CASE \E o \in Ids, p \in Ids : Collect(o, p)
  <2>1. PICK o \in Ids, p \in Ids : Collect(o, p)
    BY <1>1
  <2>2. CASE DropRedundant(p)
    <3>1. resv' = [resv EXCEPT ![p] = None] /\ ledger' = ledger /\ ledger[p] \in Ledgers
      BY <2>2 DEF DropRedundant, Redundant
    <3>2. q = p
      BY <1>0, <3>1
    <3>3. QED
      BY <3>1, <3>2, Distinct
  <2>3. CASE Retire(p)
    <3>1. CASE Retires(p) = "reservation" /\ resv' = [resv EXCEPT ![p] = None]
      <4>1. q = p
        BY <1>0, <3>1
      <4>2. QED
        BY <2>3, <3>1, <4>1 DEF Retire, Retires
    <3>2. CASE Unsealed(p) /\ resv' = [resv EXCEPT ![p] = None]
      <4>1. q = p
        BY <1>0, <3>2
      <4>2. QED
        BY <3>2, <4>1 DEF Unsealed
    <3>3. CASE UNCHANGED resv
      BY <3>3
    <3>4. QED
      BY <2>3, <3>1, <3>2, <3>3 DEF Retire
  <2>4. CASE UNCHANGED resv
    BY <2>4
  <2>5. QED
    BY <2>1, <2>2, <2>3, <2>4 DEF Collect, Bury, Unstage, Unbury
<1>2. ASSUME NEW o \in Ids, Reserve(o) \/ DownloadFails(o) \/ ReleaseReservation(o) \/ RecordStaged(o)
      PROVE  FALSE
  <2>1. resv' = resv \/ \E r : resv' = [resv EXCEPT ![o] = r]
    BY <1>2 DEF Reserve, DownloadFails, ReleaseReservation, RecordStaged, Release
  <2>2. q = o
    BY <1>0, <2>1
  <2>3. run[o].at \in {"reserve", "download", "release", "seal"}
    BY <1>2 DEF Reserve, DownloadFails, ReleaseReservation, RecordStaged, At
  <2>4. QED
    BY <1>0, <2>2, <2>3 DEF SectionAt
<1>3. ASSUME NEW o \in Ids, DropReservation(o) PROVE FALSE
  <2>1. ledger' = ledger /\ \E r : resv' = [resv EXCEPT ![o] = r]
    BY <1>3 DEF DropReservation
  <2>2. q = o
    BY <1>0, <2>1
  <2>3. QED
    BY <1>0, <1>3, <2>1, <2>2, Distinct DEF DropReservation, SectionAt, At
<1>4. CASE UNCHANGED resv
  BY <1>4
<1>5. CASE \E o \in Ids : Planning(o)
  BY <1>1, <1>2, <1>3, <1>4, <1>5
  DEF Planning, PlanInstall, Prepare, StageArchive, RejectArchive, SealArchive, RefusePlan, WriteLedger,
      PlanRemoval, WriteRemoval, CollectFails, files
<1>6. CASE \E o \in Ids : Working(o)
  BY <1>4, <1>6, WorkingWrites DEF plans
<1>7. QED
  BY <1>4, <1>5, <1>6 DEF Next, vars, files, LateArrives, Expire, Outside, Crash

(* A ledger goes only when it has nothing left to recover or to continue with,    *)
(* nobody is at work on it, no successor waits beside it and its archive and its   *)
(* reservation went before it (gc_eligible_terminal, operation.rs); the record of a *)
(* sealed archive without a ledger goes expired, and after the archive.           *)
THEOREM RecoveryIsKept == Spec => RecoveryKept
<1> DEFINE Kept(o) ==
      /\ (ledger[o] \in Ledgers /\ ledger'[o] \notin Ledgers) =>
           /\ o \in expired /\ run[o].mode = "none" /\ stage[o] = "none" /\ resv[o] = None
           /\ pend[o] = None /\ ~Continuable(ledger[o])
           /\ \A i \in 1..2 : ~InProgress(ledger[o], i)
      /\ (resv[o] = "staged" /\ resv'[o] # "staged" /\ ledger'[o] = None)
           => o \in expired /\ stage[o] = "none"
<1>1. ASSUME Base, [Next]_vars, NEW o \in Ids, ledger[o] \in Ledgers, ledger'[o] \notin Ledgers
      PROVE  /\ o \in expired /\ run[o].mode = "none" /\ stage[o] = "none" /\ resv[o] = None
             /\ pend[o] = None /\ ~Continuable(ledger[o])
             /\ \A i \in 1..2 : ~InProgress(ledger[o], i)
  <2>1. PICK p \in Ids : Collect(p, o)
    BY <1>1, StepKeeps
  <2>2. Retire(o) /\ Retires(o) = "ledger" /\ ~Redundant(o)
    BY <1>1, <2>1 DEF Collect, DropRedundant, Bury, Unstage, Retire, Unbury
  <2>3. ~Locked(o) /\ ~Stuck(o) /\ stage[o] = "none"
    BY <2>1, <2>2 DEF Collect, Retire
  <2>4. o \in expired /\ Settled(ledger[o])
    BY <2>2 DEF Retires, Collectable
  <2>5. resv[o] = None
    BY <1>1, <2>2, <2>3 DEF Stuck, Redundant, Base, TypeInv, TypeOK
  <2>6. pend[o] = None
    BY <1>1, <2>4 DEF Base, PendingOpen
  <2>7. ~Continuable(ledger[o]) /\ \A i \in 1..2 : ~InProgress(ledger[o], i)
    BY <2>4, UntouchedFields DEF Settled, Continuable, InProgress
  <2>8. QED
    BY <2>3, <2>4, <2>5, <2>6, <2>7 DEF Locked
<1>2. Base /\ [Next]_vars => [\A o \in Ids : Kept(o)]_vars
  BY <1>1, StagedKept
<1>3. QED
  BY <1>2, BaseInvariant, PTL DEF Spec, RecoveryKept

-----------------------------------------------------------------------------
(* Capacity.                                                                    *)

Held == {o \in Ids : resv[o] # None \/ ledger[o] # None}

LEMMA IdsFinite == IsFiniteSet(Ids)
BY SkillConstants, FS_Union DEF Ids

\* Reservations and ledgers counted one by one are at least the operations held.
LEMMA UsageBounds == Held \subseteq Ids /\ Cardinality(Held) \in Nat /\ (Usage < Cap => Cardinality(Held) < Cap)
<1> DEFINE R == {o \in Ids : resv[o] # None}
           L == {o \in Ids : ledger[o] # None}
<1>1. IsFiniteSet(R) /\ IsFiniteSet(L)
  BY IdsFinite, FS_Subset
<1>2. Held = R \cup L /\ R \cap L \subseteq R
  BY DEF Held
<1>3. IsFiniteSet(R \cap L)
  BY <1>1, <1>2, FS_Subset
<1>4. Cardinality(R \cup L) = Cardinality(R) + Cardinality(L) - Cardinality(R \cap L)
  BY <1>1, FS_Union
<1>5. Cardinality(R) \in Nat /\ Cardinality(L) \in Nat /\ Cardinality(R \cap L) \in Nat
  BY <1>1, <1>3, FS_CardinalityType
<1>6. IsFiniteSet(R \cup L) /\ Cardinality(R \cup L) \in Nat
  BY <1>1, FS_Union, FS_CardinalityType
<1>7. Usage = Cardinality(R) + Cardinality(L)
  BY DEF Usage
<1>8. Usage < Cap => Cardinality(R \cup L) < Cap
  BY <1>4, <1>5, <1>6, <1>7, LifecycleConstants
<1>9. QED
  BY <1>2, <1>6, <1>8

LEMMA PlanHolds ==
  ASSUME Base, NEW o \in Ids, Planning(o)
  PROVE  Held' \subseteq Held \/ (Usage < Cap /\ Held' \subseteq Held \cup {o})
<1> USE DEF files, world
<1>0. /\ SectionAt(o) /\ ledger \in [Ids -> Ledgers \cup {None, Torn}]
      /\ resv \in [Ids -> {None, Torn, "reserved", "staged"}]
  BY DEF Base, TypeInv, TypeOK
<1>1. CASE Reserve(o) \/ WriteRemoval(o)
  <2>1. CASE UNCHANGED <<resv, ledger>>
    BY <2>1 DEF Held
  <2>2. CASE ~(Usage >= Cap) /\ \E x : \/ UNCHANGED ledger /\ resv' = [resv EXCEPT ![o] = x]
                                       \/ UNCHANGED resv /\ ledger' = [ledger EXCEPT ![o] = x]
    <3>1. Usage < Cap
      <4>1. Usage \in Nat
        BY IdsFinite, FS_Subset, FS_CardinalityType DEF Usage
      <4>2. QED
        BY <2>2, <4>1, LifecycleConstants
    <3>2. Held' \subseteq Held \cup {o}
      BY <1>0, <2>2 DEF Held
    <3>3. QED
      BY <3>1, <3>2
  <2>3. QED
    BY <1>1, <2>1, <2>2 DEF Reserve, WriteRemoval
<1>2. CASE RecordStaged(o) \/ WriteLedger(o) \/ DropReservation(o)
  <2>1. resv[o] # None \/ ledger[o] # None
    BY <1>0, <1>2, Distinct DEF RecordStaged, WriteLedger, DropReservation, SectionAt, At
  <2>2. \A q \in Ids \ {o} : resv'[q] = resv[q] /\ ledger'[q] = ledger[q]
    BY <1>0, <1>2 DEF RecordStaged, WriteLedger, DropReservation
  <2>3. QED
    BY <2>1, <2>2 DEF Held
<1>3. CASE DownloadFails(o) \/ ReleaseReservation(o)
  <2>1. ledger' = ledger /\ (resv' = resv \/ resv' = [resv EXCEPT ![o] = None])
    <3>1. resv[o] = resv[o] /\ resv = [resv EXCEPT ![o] = resv[o]]
      BY <1>0
    <3>2. QED
      BY <1>3, <3>1 DEF DownloadFails, ReleaseReservation, Release
  <2>2. QED
    BY <1>0, <2>1 DEF Held
<1>4. CASE \E p \in Ids : Collect(o, p)
  <2>1. PICK p \in Ids : Collect(o, p)
    BY <1>4
  <2>2. /\ ledger' = ledger \/ ledger' = [ledger EXCEPT ![p] = None]
        /\ resv' = resv \/ resv' = [resv EXCEPT ![p] = None]
    BY <2>1 DEF Collect, DropRedundant, Bury, Unstage, Retire, Unbury
  <2>3. QED
    BY <1>0, <2>2 DEF Held
<1>5. CASE UNCHANGED <<resv, ledger>>
  BY <1>5 DEF Held
<1>6. QED
  BY <1>1, <1>2, <1>3, <1>4, <1>5
  DEF Planning, PlanInstall, Prepare, StageArchive, RejectArchive, SealArchive, RefusePlan, PlanRemoval,
      CollectFails

LEMMA StepHolds ==
  ASSUME Base, [Next]_vars
  PROVE  \/ Held' \subseteq Held
         \/ \E o \in Ids : Usage < Cap /\ Held' \subseteq Held \cup {o}
<1>1. CASE \E o \in Ids : Planning(o)
  BY <1>1, PlanHolds
<1>2. CASE \E o \in Ids : Working(o)
  <2>1. UNCHANGED resv /\ \A q \in Ids : ledger'[q] # None => ledger[q] # None
    BY <1>2, WorkingWrites, WritesKeep DEF plans
  <2>2. QED
    BY <2>1 DEF Held
<1>3. CASE UNCHANGED <<resv, ledger>>
  BY <1>3 DEF Held
<1>4. QED
  BY <1>1, <1>2, <1>3 DEF Next, vars, files, LateArrives, Expire, Outside, Crash

(* Operations that hold a reservation or a ledger never exceed the bound, and the   *)
(* archive of an answered plan never outlives its ledger (lifecycle_usage,         *)
(* consume_exact_reservation, delete_expired_install_after_tombstone).             *)
THEOREM CapacityIsHeld == Spec => []CapacityHolds
<1> DEFINE CapInv == Cardinality(Held) <= Cap
<1>1. Init => CapInv
  <2> SUFFICES ASSUME Init PROVE CapInv
    OBVIOUS
  <2>1. Held = {}
    BY DEF Init, Held
  <2>2. QED
    BY <2>1, FS_EmptySet, LifecycleConstants
<1>2. ASSUME Base, CapInv, [Next]_vars PROVE CapInv'
  <2>1. Cap \in Nat /\ IsFiniteSet(Held) /\ Cardinality(Held) \in Nat
    BY UsageBounds, IdsFinite, FS_Subset, LifecycleConstants
  <2>2. CASE Held' \subseteq Held
    <3>1. Cardinality(Held') <= Cardinality(Held) /\ Cardinality(Held') \in Nat
      BY <2>1, <2>2, FS_Subset, FS_CardinalityType
    <3>2. QED
      BY <1>2, <2>1, <3>1
  <2>3. CASE \E o \in Ids : Usage < Cap /\ Held' \subseteq Held \cup {o}
    <3>1. PICK o \in Ids : Usage < Cap /\ Held' \subseteq Held \cup {o}
      BY <2>3
    <3>2. Cardinality(Held) < Cap
      BY <3>1, UsageBounds
    <3>3. IsFiniteSet(Held \cup {o}) /\ Cardinality(Held \cup {o}) <= Cardinality(Held) + 1
                                     /\ Cardinality(Held \cup {o}) \in Nat
      <4>1. /\ IsFiniteSet(Held \cup {o})
            /\ Cardinality(Held \cup {o}) = IF o \in Held THEN Cardinality(Held) ELSE Cardinality(Held) + 1
        BY <2>1, FS_AddElement
      <4>2. Cardinality(Held \cup {o}) \in Nat
        BY <4>1, FS_CardinalityType
      <4>3. QED
        BY <2>1, <4>1, <4>2
    <3>4. Cardinality(Held') <= Cardinality(Held \cup {o}) /\ Cardinality(Held') \in Nat
      BY <3>1, <3>3, FS_Subset, FS_CardinalityType
    <3>5. QED
      BY <2>1, <3>2, <3>3, <3>4
  <2>4. QED
    BY <1>2, <2>2, <2>3, StepHolds
<1>3. Base /\ CapInv => CapacityHolds
  BY DEF Base, TypeInv, TypeOK, SectionAt, Held, CapacityHolds
<1> HIDE DEF CapInv
<1>4. QED
  BY <1>1, <1>2, <1>3, BaseInvariant, PTL DEF Spec

-----------------------------------------------------------------------------
(* What the ledger records is so, and an effect is requested once.              *)

\* The effect Science is asked for.
Bound(o) == IF Install(o) THEN 2 ELSE 1

\* By the effects D that took place of each operation, effect i of this one, or of an
\* install of the same package, did.
Took(o, i, D) ==
  \E p \in Ids : i \in D[p] /\ (p = o \/ (Install(o) /\ Install(p) /\ Package[p] = Package[o]))

\* What makes a recorded state of an effect true, now and from now on, when D are
\* the effects that took place, x carries the name and L are the late requests.
Fact(o, i, s, D, x, L) ==
  /\ (s = "verified" /\ OnDisk(o, i)) => Took(o, i, D)
  /\ s = "failed" => IF Install(o) /\ i = 1 THEN x # o
                     ELSE i \notin D[o] /\ (~OnDisk(o, i) => o \notin L)
Truth(o, l, D, x, L) == \A i \in 1..2 : Fact(o, i, l.eff[i].state, D, x, L)

FileSound(o) == ledger[o] \in Ledgers =>
  /\ Ordered(ledger[o]) /\ (o \in Installs => ledger[o].leaf = o)
  /\ \A i \in 1..2 : ledger[o].eff[i] = Untouched => i \notin issued[o]
TruthSound(o) == ledger[o] \in Ledgers =>
  /\ Truth(o, ledger[o], done, dir, late)
  /\ pend[o] \in Ledgers => Truth(o, pend[o], done, dir, late)
WorldSound(o) ==
  /\ done[o] \subseteq issued[o]
  /\ o \in late => Bound(o) \in issued[o]
  /\ (o \in Installs /\ dir = o) => 1 \in done[o]
WorkSound(o) ==
  /\ run[o].at \in WorkPCs => ledger[o] \in Ledgers
  /\ run[o].at \in WorkPCs \ {"again"} => pend[o] = None
  /\ run[o].at = "begin" => /\ ledger[o].eff[run[o].idx] = Untouched
                            /\ run[o].idx = 2 => Verified(ledger[o], 1)
  /\ run[o].at = "effect" => InProgress(ledger[o], run[o].idx) /\ run[o].idx \notin issued[o]
  /\ run[o].at = "record" => /\ InProgress(ledger[o], run[o].idx) /\ run[o].to \in Proofs
                             /\ Fact(o, run[o].idx, run[o].to, done, dir, late)
  /\ run[o].at = "next" => Verified(ledger[o], 1) /\ ledger[o].eff[2] = Untouched

SoundAt(o) == FileSound(o) /\ TruthSound(o) /\ WorldSound(o) /\ WorkSound(o)
Sound == \A o \in Ids : SoundAt(o)

LEMMA SoundInit == Init => Sound
BY SkillConstants, Distinct
DEF Init, Sound, SoundAt, FileSound, TruthSound, WorldSound, WorkSound, WorkPCs, Idle, Run, Ids

LEMMA FactFrame ==
  ASSUME NEW q \in Ids, NEW i, NEW s, NEW D, NEW x, NEW L, NEW E, NEW y, NEW M,
         Fact(q, i, s, D, x, L), q \in M => q \in L, y = q => x = q,
         E[q] = D[q], \A p \in Ids : D[p] \subseteq E[p]
  PROVE  Fact(q, i, s, E, y, M)
BY DEF Fact, Took

LEMMA TruthFrame ==
  ASSUME NEW q \in Ids, NEW l, NEW D, NEW x, NEW L, NEW E, NEW y, NEW M,
         Truth(q, l, D, x, L), q \in M => q \in L, y = q => x = q,
         E[q] = D[q], \A p \in Ids : D[p] \subseteq E[p]
  PROVE  Truth(q, l, E, y, M)
BY FactFrame DEF Truth

\* What a step leaves alone stays sound, whatever else it does to the name.
LEMMA SoundFrame ==
  ASSUME NEW q \in Ids, SoundAt(q), ledger'[q] = ledger[q], pend'[q] = pend[q], run'[q] = run[q],
         issued'[q] = issued[q], done'[q] = done[q], q \in late' => q \in late, dir' = q => dir = q,
         \A p \in Ids : done[p] \subseteq done'[p]
  PROVE  SoundAt(q)'
<1>1. FileSound(q)'
  BY DEF SoundAt, FileSound
<1>2. TruthSound(q)'
  BY TruthFrame DEF SoundAt, TruthSound
<1>3. WorldSound(q)'
  BY DEF SoundAt, WorldSound, Bound, Install
<1>4. WorkSound(q)'
  BY FactFrame DEF SoundAt, WorkSound
<1>5. QED
  BY <1>1, <1>2, <1>3, <1>4 DEF SoundAt

\* A planning step brings at most a fresh ledger, or takes one away.
PlanShape(q) ==
  /\ UNCHANGED world /\ pend'[q] = pend[q]
  /\ \/ run'[q] = run[q] /\ ledger'[q] = ledger[q]
     \/ /\ run'[q].at \in PlanPCs
        /\ \/ ledger'[q] = ledger[q]
           \/ ledger'[q] \notin Ledgers
           \/ /\ pend[q] = None /\ issued[q] = {}
              /\ \E x \in Leaves : ledger'[q] = Fresh(x) /\ (q \in Installs => x = q)

LEMMA SoundPlan ==
  ASSUME NEW q \in Ids, SoundAt(q), PlanShape(q)
  PROVE  SoundAt(q)'
<1> USE DEF world
<1>0. UNCHANGED world /\ pend'[q] = pend[q]
  BY DEF PlanShape
<1>1. CASE run'[q] = run[q] /\ ledger'[q] = ledger[q]
  BY <1>0, <1>1, SoundFrame
<1>2. ASSUME run'[q].at \in PlanPCs PROVE WorkSound(q)'
  BY <1>2 DEF WorkSound, PlanPCs, WorkPCs
<1>3. WorldSound(q)'
  BY <1>0 DEF SoundAt, WorldSound, Bound, Install
<1>4. CASE run'[q].at \in PlanPCs /\ ledger'[q] = ledger[q]
  BY <1>0, <1>2, <1>3, <1>4 DEF SoundAt, FileSound, TruthSound
<1>5. CASE run'[q].at \in PlanPCs /\ ledger'[q] \notin Ledgers
  BY <1>0, <1>2, <1>3, <1>5 DEF SoundAt, FileSound, TruthSound
<1>6. CASE /\ run'[q].at \in PlanPCs /\ pend[q] = None /\ issued[q] = {}
           /\ \E x \in Leaves : ledger'[q] = Fresh(x) /\ (q \in Installs => x = q)
  <2>1. PICK x \in Leaves : ledger'[q] = Fresh(x) /\ (q \in Installs => x = q)
    BY <1>6
  <2>2. FileSound(q)'
    BY <1>0, <1>6, <2>1, FreshFields, FreshOrdered DEF FileSound
  <2>3. TruthSound(q)'
    BY <1>0, <1>6, <2>1, FreshFields, UntouchedFields, Distinct DEF TruthSound, Truth, Fact
  <2>4. QED
    BY <1>2, <1>3, <1>6, <2>2, <2>3 DEF SoundAt
<1>7. QED
  BY <1>1, <1>4, <1>5, <1>6 DEF PlanShape

LEMMA PlanShapes ==
  ASSUME Base, NEW o \in Ids, Planning(o), NEW q \in Ids
  PROVE  PlanShape(q)
<1> USE DEF files, world
<1>0. /\ SectionAt(o) /\ PendingOpen(o) /\ ledger \in [Ids -> Ledgers \cup {None, Torn}] /\ run \in [Ids -> Runs]
      /\ dir \in Leaves \cup {None}
  BY DEF Base, TypeInv, TypeOK
<1>1. CASE \E p \in Ids : Collect(o, p)
  <2>1. PICK p \in Ids : Collect(o, p)
    BY <1>1
  <2>2. UNCHANGED world /\ UNCHANGED <<pend, run>> /\ ~Locked(p)
    BY <2>1 DEF Collect
  <2>3. run[p].at \in PlanPCs
    BY <1>0, <2>2, RunFields DEF Locked
  <2>4. ledger' = ledger \/ ledger' = [ledger EXCEPT ![p] = None]
    BY <2>1 DEF Collect, DropRedundant, Bury, Unstage, Retire, Unbury
  <2>5. QED
    BY <1>0, <2>2, <2>3, <2>4, Distinct DEF PlanShape
<1>2. CASE CollectFails(o)
  BY <1>0, <1>2, RunParts DEF CollectFails, Leave, Reply, PlanShape, Idle, PlanPCs
<1>3. CASE WriteLedger(o)
  <2>1. pend[o] = None /\ issued[o] = {} /\ o \in Installs
    BY <1>0, <1>3, Distinct DEF WriteLedger, SectionAt, PendingOpen, At, PlanPCs
  <2>2. UNCHANGED <<pend, dir, attached, late, issued, done, env>>
    BY <1>3 DEF WriteLedger
  <2>3. \E r \in {Run("drop", "none", 0, "none"), Idle} : run' = [run EXCEPT ![o] = r]
    BY <1>3 DEF WriteLedger, Goto, Leave, Reply
  <2>4. run'[o].at \in PlanPCs /\ \A p \in Ids \ {o} : run'[p] = run[p]
    BY <1>0, <2>3, RunParts DEF PlanPCs, Idle
  <2>5. \E l \in {Torn, Fresh(o)} : ledger' = [ledger EXCEPT ![o] = l]
    BY <1>3 DEF WriteLedger
  <2>6. (ledger'[o] = Torn \/ ledger'[o] = Fresh(o)) /\ \A p \in Ids \ {o} : ledger'[p] = ledger[p]
    BY <1>0, <2>5
  <2>7. QED
    BY <2>1, <2>2, <2>4, <2>6, Distinct DEF PlanShape, Leaves
<1>4. CASE WriteRemoval(o)
  <2>1. pend[o] = None /\ issued[o] = {} /\ o \in Removals
    BY <1>0, <1>4, Distinct DEF WriteRemoval, SectionAt, PendingOpen, At, PlanPCs
  <2>2. UNCHANGED <<pend, dir, attached, late, issued, done, env>>
    BY <1>4 DEF WriteRemoval
  <2>3. run' = [run EXCEPT ![o] = Idle]
    BY <1>4 DEF WriteRemoval, Leave, Reply
  <2>4. run'[o].at \in PlanPCs /\ \A p \in Ids \ {o} : run'[p] = run[p]
    BY <1>0, <2>3, RunParts DEF PlanPCs, Idle
  <2>5. ledger' = ledger \/ (dir \in Leaves /\ \E l \in {Torn, Fresh(dir)} : ledger' = [ledger EXCEPT ![o] = l])
    BY <1>0, <1>4 DEF WriteRemoval
  <2>6. /\ \A p \in Ids \ {o} : ledger'[p] = ledger[p]
        /\ ledger'[o] \in {ledger[o], Torn} \/ (dir \in Leaves /\ ledger'[o] = Fresh(dir))
    BY <1>0, <2>5
  <2>7. QED
    BY <2>1, <2>2, <2>4, <2>6, Distinct, SkillConstants DEF PlanShape
<1>5. CASE UNCHANGED <<ledger, pend>> /\ UNCHANGED world
           /\ (run' = run \/ \E at \in PlanPCs : run' = [run EXCEPT ![o] = Run(at, "none", 0, "none")])
  BY <1>0, <1>5, RunParts DEF PlanShape
<1>6. QED
  BY <1>1, <1>2, <1>3, <1>4, <1>5
  DEF Planning, PlanInstall, Reserve, DownloadFails, Prepare, StageArchive, RejectArchive,
      ReleaseReservation, SealArchive, RecordStaged, RefusePlan, DropReservation, PlanRemoval, Leave, Reply,
      Goto, Idle, PlanPCs

\* A write or a promotion of a truthful successor keeps the files sound.
LEMMA SoundFiles ==
  ASSUME Base, NEW o \in Ids, SoundAt(o), UNCHANGED world, NEW m,
         Writable(o, m) => Truth(o, m, done, dir, late),
         Stays(o) \/ Takes(o) \/ Becomes(o, m) \/ Pends(o, m)
  PROVE  FileSound(o)' /\ TruthSound(o)' /\ WorldSound(o)'
<1> USE DEF world
<1>0. FileSound(o) /\ TruthSound(o) /\ WorldSound(o)
  BY DEF SoundAt
<1>1. WorldSound(o)'
  BY <1>0 DEF WorldSound, Bound, Install
<1>2. CASE Stays(o)
  BY <1>0, <1>1, <1>2 DEF Stays, FileSound, TruthSound
<1>3. CASE Takes(o)
  <2>1. /\ ledger[o] \in Ledgers /\ pend[o] \in Ledgers /\ Legal(ledger[o], pend[o])
        /\ ledger'[o] = pend[o] /\ pend'[o] = None
    BY <1>3 DEF Takes
  <2>2. FileSound(o)'
    BY <1>0, <2>1, LegalType, LegalOrdered DEF FileSound
  <2>3. TruthSound(o)'
    BY <1>0, <2>1, Distinct DEF TruthSound
  <2>4. QED
    BY <1>1, <2>2, <2>3
<1>4. CASE Becomes(o, m)
  <2>1. Writable(o, m) /\ ledger'[o] = m /\ pend'[o] = None
    BY <1>4 DEF Becomes
  <2>2. FileSound(o)'
    BY <1>0, <2>1, WritableType, LegalOrdered DEF FileSound
  <2>3. TruthSound(o)'
    BY <2>1, Distinct DEF TruthSound
  <2>4. QED
    BY <1>1, <2>2, <2>3
<1>5. CASE Pends(o, m)
  <2>1. Writable(o, m) /\ ledger'[o] = ledger[o] /\ pend'[o] \in {Torn, m}
    BY <1>5 DEF Pends
  <2>2. FileSound(o)'
    BY <1>0, <2>1 DEF FileSound
  <2>3. TruthSound(o)'
    BY <1>0, <2>1, Distinct DEF TruthSound
  <2>4. QED
    BY <1>1, <2>2, <2>3
<1>6. QED
  BY <1>2, <1>3, <1>4, <1>5

\* The same for every operation, once the request's own work is.
LEMMA SoundStep ==
  ASSUME Base, Sound, NEW o \in Ids, UNCHANGED world, Others(o),
         FileSound(o)' /\ TruthSound(o)' /\ WorldSound(o)' /\ WorkSound(o)',
         \A q \in Ids \ {o} : run'[q] = run[q]
  PROVE  Sound'
<1>1. ASSUME NEW q \in Ids \ {o} PROVE SoundAt(q)'
  BY <1>1, SoundFrame DEF Sound, Others, world
<1>2. SoundAt(o)'
  BY DEF SoundAt
<1>3. QED
  BY <1>1, <1>2 DEF Sound

LEMMA IdleSound ==
  ASSUME Base, NEW o \in Ids, NEW a, Reply(o, a)
  PROVE  WorkSound(o)' /\ \A q \in Ids \ {o} : run'[q] = run[q]
<1>1. run' = [run EXCEPT ![o] = Idle] /\ run \in [Ids -> Runs]
  BY DEF Reply, Base, TypeInv
<1>2. run'[o].at = "idle" /\ \A q \in Ids \ {o} : run'[q] = run[q]
  BY <1>1, RunParts DEF Idle
<1>3. QED
  BY <1>2 DEF WorkSound, WorkPCs

LEMMA Goes ==
  ASSUME Base, NEW o \in Ids, NEW at, NEW mode, NEW i, NEW to, Work1(o, at, mode, i, to)
  PROVE  /\ run'[o].at = at /\ run'[o].mode = mode /\ run'[o].idx = i /\ run'[o].to = to
         /\ \A q \in Ids \ {o} : run'[q] = run[q]
BY RunParts DEF Work1, Base, TypeInv

\* What an admitted request starts from.
LEMMA SoundRequest ==
  ASSUME Base, Sound, NEW o \in Ids, Request(o), faults' \in 0..MaxFaults
  PROVE  /\ UNCHANGED world /\ Others(o)
         /\ FileSound(o)' /\ TruthSound(o)' /\ WorldSound(o)'
         /\ Loaded(o) # Torn => ledger'[o] = Loaded(o) /\ pend'[o] = None
<1>1. /\ UNCHANGED world /\ Others(o) /\ (Stays(o) \/ Takes(o))
      /\ Loaded(o) # Torn => ledger'[o] = Loaded(o) /\ pend'[o] = None
  BY RequestShape
<1>2. ~Writable(o, None)
  BY WritableType, Distinct
<1>3. QED
  BY <1>1, <1>2, SoundFiles DEF Sound

LEMMA SoundApply ==
  ASSUME Base, Sound, NEW o \in Ids, Apply(o)
  PROVE  Sound'
<1>1. Request(o) /\ faults' \in 0..MaxFaults
  BY BaseTyped DEF Apply, FilesTyped
<1>2. CASE \E a : Reply(o, a)
  BY <1>1, <1>2, SoundRequest, IdleSound, SoundStep
<1>3. CASE Usable(o) /\ ~Loaded(o).consumed /\ Admit(o, "apply", 1)
  <2>1. ledger'[o] = Loaded(o) /\ pend'[o] = None /\ ledger'[o] \in Ledgers
    BY <1>1, <1>3, Usables, SoundRequest
  <2>2. ledger'[o].eff[1] = Untouched
    BY <1>1, <1>3, <2>1, SoundRequest DEF FileSound, Ordered
  <2>3. Work1(o, "begin", "apply", 1, "none")
    BY <1>3 DEF Admit
  <2>4. WorkSound(o)' /\ \A q \in Ids \ {o} : run'[q] = run[q]
    BY <2>1, <2>2, <2>3, Goes DEF WorkSound
  <2>5. QED
    BY <1>1, <2>4, SoundRequest, SoundStep
<1>4. QED
  BY <1>2, <1>3 DEF Apply, Unusable

LEMMA SoundContinue ==
  ASSUME Base, Sound, NEW o \in Ids, Continue(o)
  PROVE  Sound'
<1>1. Request(o) /\ faults' \in 0..MaxFaults
  BY BaseTyped DEF Continue, FilesTyped
<1>2. CASE \E a : Reply(o, a)
  BY <1>1, <1>2, SoundRequest, IdleSound, SoundStep
<1>3. CASE Usable(o) /\ Continuable(Loaded(o)) /\ Admit(o, "continue", 2)
  <2>1. ledger'[o] = Loaded(o) /\ pend'[o] = None /\ ledger'[o] \in Ledgers
    BY <1>1, <1>3, Usables, SoundRequest
  <2>2. ledger'[o].eff[2] = Untouched /\ Verified(ledger'[o], 1)
    BY <1>3, <2>1 DEF Continuable
  <2>3. Work1(o, "begin", "continue", 2, "none")
    BY <1>3 DEF Admit
  <2>4. WorkSound(o)' /\ \A q \in Ids \ {o} : run'[q] = run[q]
    BY <2>1, <2>2, <2>3, Goes DEF WorkSound
  <2>5. QED
    BY <1>1, <2>4, SoundRequest, SoundStep
<1>4. QED
  BY <1>2, <1>3 DEF Continue, Unusable

\* A readback records nothing that is not so.
LEMMA ReadbackFact ==
  ASSUME Base, Sound, NEW o \in Ids, NEW i \in 1..2, NEW leaf
  PROVE  Fact(o, i, Readback(o, i, leaf), done, dir, late)
<1>1. i = 1 \/ i = 2
  OBVIOUS
<1>2. CASE Install(o) /\ i = 1
  <2>1. CASE Bears(o, leaf)
    <3>1. dir \in Ids /\ Install(dir) /\ Package[dir] = Package[o]
      BY <1>2, <2>1 DEF Bears, Install, Ids
    <3>2. 1 \in done[dir]
      BY <3>1 DEF Sound, SoundAt, WorldSound, Install
    <3>3. Took(o, 1, done)
      BY <1>2, <3>1, <3>2 DEF Took
    <3>4. QED
      BY <1>2, <2>1, <3>3 DEF Readback, Fact
  <2>2. CASE ~Bears(o, leaf)
    <3>1. dir # o
      BY <1>2, <2>2 DEF Bears, Install
    <3>2. QED
      BY <1>2, <2>2, <3>1 DEF Readback, Fact
  <2>3. QED
    BY <2>1, <2>2
<1>3. CASE Install(o) /\ i = 2
  BY <1>3 DEF Readback, Fact, OnDisk
<1>4. CASE ~Install(o)
  BY <1>1, <1>4 DEF Readback, Fact, OnDisk, Took
<1>5. QED
  BY <1>1, <1>2, <1>3, <1>4

LEMMA SoundReconcile ==
  ASSUME Base, Sound, NEW o \in Ids, Reconcile(o)
  PROVE  Sound'
<1>1. Request(o) /\ faults' \in 0..MaxFaults
  BY BaseTyped, FaultType DEF Reconcile, FilesTyped
<1>2. CASE \E a : Reply(o, a)
  BY <1>1, <1>2, SoundRequest, IdleSound, SoundStep
<1>3. CASE Usable(o) /\ \E i \in 1..2 : /\ InProgress(Loaded(o), i)
             /\ \E s \in {Readback(o, i, Loaded(o).leaf), "uncertain"} : Work1(o, "record", "reconcile", i, s)
  <2>1. ledger'[o] = Loaded(o) /\ pend'[o] = None /\ ledger'[o] \in Ledgers /\ UNCHANGED <<done, dir, late>>
    BY <1>1, <1>3, Usables, SoundRequest DEF world
  <2>3. PICK i \in 1..2 :
          /\ InProgress(Loaded(o), i)
          /\ \E s \in {Readback(o, i, Loaded(o).leaf), "uncertain"} : Work1(o, "record", "reconcile", i, s)
    BY <1>3
  <2>4. PICK s \in {Readback(o, i, Loaded(o).leaf), "uncertain"} : Work1(o, "record", "reconcile", i, s)
    BY <2>3
  <2>5. s \in Proofs /\ Fact(o, i, s, done, dir, late)
    <3>1. CASE s = "uncertain"
      BY <3>1 DEF Proofs, Fact
    <3>2. CASE s = Readback(o, i, Loaded(o).leaf)
      BY <3>2, ReadbackType, ReadbackFact
    <3>3. QED
      BY <3>1, <3>2
  <2>6. WorkSound(o)' /\ \A q \in Ids \ {o} : run'[q] = run[q]
    BY <2>1, <2>3, <2>4, <2>5, Goes DEF WorkSound
  <2>7. QED
    BY <1>1, <2>6, SoundRequest, SoundStep
<1>4. QED
  BY <1>2, <1>3 DEF Reconcile, Unusable

LEMMA ClosedTruth ==
  ASSUME NEW o \in Ids, NEW l \in Ledgers, NEW i \in 1..2, NEW s \in Proofs, NEW D, NEW x, NEW L,
         Truth(o, l, D, x, L), Fact(o, i, s, D, x, L)
  PROVE  Truth(o, Closed(l, i, s), D, x, L)
BY ClosedFields DEF Truth, Proofs, EffectStates

LEMMA BegunTruth ==
  ASSUME NEW o \in Ids, NEW l \in Ledgers, NEW i \in 1..2, NEW D, NEW x, NEW L, Truth(o, l, D, x, L)
  PROVE  Truth(o, Begun(l, i), D, x, L)
BY BegunFields DEF Truth

LEMMA SoundPersist ==
  ASSUME Base, Sound, NEW o \in Ids, UNCHANGED world, NEW m, NEW ok \in BOOLEAN, Persist(o, m, ok),
         Truth(o, m, done, dir, late)
  PROVE  /\ Others(o) /\ FileSound(o)' /\ TruthSound(o)' /\ WorldSound(o)'
         /\ ok => Becomes(o, m)
         /\ ledger[o] \in Ledgers => ledger'[o] \in Ledgers
<1>1. /\ Others(o) /\ (Stays(o) \/ Becomes(o, m) \/ Pends(o, m))
      /\ ok => Becomes(o, m)
  BY BaseTyped, PersistShape
<1>2. ledger[o] \in Ledgers => ledger'[o] \in Ledgers
  BY <1>1, WritableType DEF Stays, Becomes, Pends
<1>3. QED
  BY <1>1, <1>2, SoundFiles DEF Sound

LEMMA SoundBegin ==
  ASSUME Base, Sound, NEW o \in Ids, Begin(o)
  PROVE  Sound'
<1> DEFINE i == run[o].idx
           m == Begun(ledger[o], i)
<1>1. UNCHANGED world /\ i \in 1..2 /\ ledger[o] \in Ledgers /\ run[o].at = "begin" /\ SoundAt(o)
  BY WorkFields DEF Begin, At, WorkPCs, Sound, SoundAt, WorkSound
<1>2. Truth(o, m, done, dir, late)
  BY <1>1, BegunTruth DEF SoundAt, TruthSound
<1>3. CASE Persist(o, m, FALSE) /\ Reply(o, Failure)
  BY <1>1, <1>2, <1>3, SoundPersist, IdleSound, SoundStep
<1>4. CASE Persist(o, m, TRUE) /\ Step(o, "effect", "none")
  <2>1. ledger'[o] = m /\ pend'[o] = None /\ m \in Ledgers
    BY <1>1, <1>2, <1>4, SoundPersist, BegunFields DEF Becomes
  <2>2. InProgress(m, i) /\ i \notin issued'[o]
    BY <1>1, BegunFields DEF InProgress, SoundAt, FileSound, WorkSound, world
  <2>3. Work1(o, "effect", run[o].mode, i, "none")
    BY <1>4 DEF Step
  <2>4. WorkSound(o)' /\ \A q \in Ids \ {o} : run'[q] = run[q]
    BY <2>1, <2>2, <2>3, Goes DEF WorkSound
  <2>5. QED
    BY <1>1, <1>2, <1>4, <2>4, SoundPersist, SoundStep
<1>5. QED
  BY <1>3, <1>4 DEF Begin

LEMMA SoundRecord ==
  ASSUME Base, Sound, NEW o \in Ids, Record(o)
  PROVE  Sound'
<1> DEFINE i == run[o].idx
           to == run[o].to
           m == Closed(ledger[o], i, to)
<1>1. UNCHANGED world /\ i \in 1..2 /\ ledger[o] \in Ledgers /\ run[o].at = "record" /\ SoundAt(o)
  BY WorkFields DEF Record, At, WorkPCs, Sound, SoundAt, WorkSound
<1>2. to \in Proofs /\ InProgress(ledger[o], i) /\ Truth(o, m, done, dir, late)
  BY <1>1, ClosedTruth DEF SoundAt, TruthSound, WorkSound
<1>3. PICK ok \in BOOLEAN : Persist(o, m, ok)
  BY DEF Record
<1>4. /\ Others(o) /\ FileSound(o)' /\ TruthSound(o)' /\ WorldSound(o)' /\ ledger'[o] \in Ledgers
  BY <1>1, <1>2, <1>3, SoundPersist
<1>5. CASE \E a : Reply(o, a)
  BY <1>1, <1>4, <1>5, IdleSound, SoundStep
<1>6. CASE Step(o, "again", "uncertain")
  <2>1. run'[o].at = "again" /\ \A q \in Ids \ {o} : run'[q] = run[q]
    BY <1>6, Goes DEF Step
  <2>2. WorkSound(o)'
    BY <1>4, <2>1 DEF WorkSound
  <2>3. QED
    BY <1>1, <1>4, <2>1, <2>2, SoundStep
<1>7. CASE Persist(o, m, TRUE) /\ i = 1 /\ to = "verified" /\ Step(o, "next", "none")
  <2>1. ledger'[o] = m /\ pend'[o] = None
    BY <1>1, <1>2, <1>7, SoundPersist DEF Becomes
  <2>2. ledger[o].eff[2] = Untouched
    BY <1>1, <1>2, <1>7 DEF SoundAt, FileSound, Ordered, Verified, InProgress
  <2>3. m.eff[2] = Untouched /\ Verified(m, 1)
    <3>1. m = Closed(ledger[o], 1, "verified") /\ 1 \in 1..2 /\ 2 \in 1..2 /\ "verified" \in EffectStates
      BY <1>7 DEF EffectStates
    <3>2. Verified(m, 1)
      BY <1>1, <3>1, ClosedVerified
    <3>3. m.eff[2] = ledger[o].eff[2]
      BY <1>1, <3>1, ClosedFields
    <3>4. QED
      BY <2>2, <3>2, <3>3
  <2>4. run'[o].at = "next" /\ \A q \in Ids \ {o} : run'[q] = run[q]
    BY <1>7, Goes DEF Step
  <2>5. WorkSound(o)'
    BY <1>4, <2>1, <2>3, <2>4 DEF WorkSound
  <2>6. QED
    BY <1>1, <1>4, <2>4, <2>5, SoundStep
<1>8. QED
  BY <1>5, <1>6, <1>7 DEF Record

LEMMA SoundNext2 ==
  ASSUME Base, Sound, NEW o \in Ids, Next2(o)
  PROVE  Sound'
<1>1. /\ UNCHANGED world /\ UNCHANGED <<ledger, pend>> /\ run[o].at = "next" /\ SoundAt(o)
  BY DEF Next2, At, Sound
<1>2. Others(o) /\ FileSound(o)' /\ TruthSound(o)' /\ WorldSound(o)'
  BY <1>1 DEF world, Others, SoundAt, FileSound, TruthSound, WorldSound, Bound, Install
<1>3. CASE Reply(o, Refused)
  BY <1>1, <1>2, <1>3, IdleSound, SoundStep
<1>4. CASE Work1(o, "begin", "apply", 2, "none")
  <2>1. /\ run'[o].at = "begin" /\ run'[o].idx = 2 /\ \A q \in Ids \ {o} : run'[q] = run[q]
    BY <1>4, Goes
  <2>2. WorkSound(o)'
    BY <1>1, <2>1 DEF SoundAt, WorkSound, WorkPCs
  <2>3. QED
    BY <1>1, <1>2, <2>1, <2>2, SoundStep
<1>5. QED
  BY <1>3, <1>4 DEF Next2

LEMMA SoundRecordAgain ==
  ASSUME Base, Sound, NEW o \in Ids, RecordAgain(o)
  PROVE  Sound'
<1> DEFINE i == run[o].idx
           m == Closed(ledger[o], i, "uncertain")
<1>1. UNCHANGED world /\ i \in 1..2 /\ ledger[o] \in Ledgers /\ SoundAt(o)
  BY WorkFields DEF RecordAgain, At, WorkPCs, Sound, SoundAt, WorkSound
<1>2. Truth(o, m, done, dir, late)
  BY <1>1, ClosedTruth DEF SoundAt, TruthSound, Proofs, Fact
<1>3. PICK ok \in BOOLEAN : Persist(o, m, ok)
  BY DEF RecordAgain
<1>4. \E a : Reply(o, a)
  BY DEF RecordAgain
<1>5. QED
  BY <1>1, <1>2, <1>3, <1>4, SoundPersist, IdleSound, SoundStep

LEMMA SoundEffect ==
  ASSUME Base, Sound, NEW o \in Ids, NEW i \in 1..2, EffectStep(o, i)
  PROVE  Sound'
<1> DEFINE l == ledger[o]
<1>0. /\ run[o].at = "effect" /\ run[o].idx = i /\ SoundAt(o) /\ UNCHANGED <<ledger, pend>>
      /\ issued \in [Ids -> SUBSET (1..2)] /\ done \in [Ids -> SUBSET (1..2)]
      /\ l \in Ledgers /\ pend[o] = None /\ InProgress(l, i) /\ i \notin issued[o]
  BY DEF EffectStep, Effecting, At, Base, TypeInv, Sound, SoundAt, WorkSound, WorkPCs
<1>1. /\ issued'[o] = issued[o] \cup {i} /\ \A q \in Ids \ {o} : issued'[q] = issued[q]
  BY <1>0 DEF EffectStep, Effecting
<1>2. /\ done'[o] \subseteq done[o] \cup {i} /\ (Happens(o, i) => i \in done'[o])
      /\ done[o] \subseteq done'[o] /\ \A q \in Ids \ {o} : done'[q] = done[q]
  BY <1>0 DEF EffectStep, Happens
<1>3. \A q \in Ids \ {o} : (q \in late' => q \in late) /\ (dir' = q => dir = q)
  BY Distinct DEF EffectStep
<1>4. i \notin done[o] /\ (~OnDisk(o, i) => o \notin late) /\ (o \in Installs /\ i = 1 => dir # o)
  BY <1>0 DEF SoundAt, WorldSound, OnDisk, Bound, Install
<1>5. l.eff[i] # Untouched /\ l.eff[i].state \in {"not_started", "uncertain"}
  BY <1>0, UntouchedFields DEF InProgress, SoundAt, FileSound, Ordered
<1>6. FileSound(o)'
  BY <1>0, <1>1, <1>5 DEF SoundAt, FileSound
<1>7. WorldSound(o)'
  BY <1>0, <1>1, <1>2, <1>4, Distinct DEF SoundAt, WorldSound, EffectStep, OnDisk, Bound, Install
<1>8. TruthSound(o)'
  <2>1. ASSUME NEW j \in 1..2 PROVE Fact(o, j, l.eff[j].state, done', dir', late')
    <3>1. CASE j = i
      BY <1>5, <3>1 DEF Fact
    <3>2. CASE j # i
      <4>1. Fact(o, j, l.eff[j].state, done, dir, late)
        BY <1>0 DEF SoundAt, TruthSound, Truth
      <4>2. j \in done'[o] <=> j \in done[o]
        BY <1>2, <3>2
      <4>3. Install(o) /\ j = 1 => (dir' = o => dir = o)
        BY <3>2, Distinct DEF EffectStep
      <4>4. ~OnDisk(o, j) => (o \in late' => o \in late)
        BY <3>2 DEF EffectStep, OnDisk, Install
      <4>5. Took(o, j, done) => Took(o, j, done')
        BY <1>2 DEF Took
      <4>6. QED
        BY <4>1, <4>2, <4>3, <4>4, <4>5 DEF Fact
    <3>3. QED
      BY <3>1, <3>2
  <2>2. Truth(o, l, done', dir', late')
    BY <2>1 DEF Truth
  <2>3. QED
    BY <1>0, <2>2, Distinct DEF TruthSound
<1>9. PICK at \in {"record", "again"}, to \in Proofs :
        /\ Step(o, at, to)
        /\ (at = "record" /\ to = "verified" /\ OnDisk(o, i)) => Happens(o, i)
        /\ to = "failed" => UNCHANGED <<dir, done, late>>
  BY DEF EffectStep
<1>10. /\ run'[o].at = at /\ run'[o].idx = i /\ run'[o].to = to
       /\ \A q \in Ids \ {o} : run'[q] = run[q]
  BY <1>0, <1>9, Goes DEF Step
<1>11. WorkSound(o)'
  <2>1. CASE at = "again"
    BY <1>0, <1>10, <2>1 DEF WorkSound
  <2>2. CASE at = "record"
    <3>1. Fact(o, i, to, done', dir', late')
      BY <1>2, <1>4, <1>9, <2>2 DEF Fact, Took, Install
    <3>2. QED
      BY <1>0, <1>10, <2>2, <3>1 DEF WorkSound
  <2>3. QED
    BY <2>1, <2>2
<1>12. ASSUME NEW q \in Ids \ {o} PROVE SoundAt(q)'
  BY <1>0, <1>1, <1>2, <1>3, <1>10, SoundFrame DEF Sound
<1>13. QED
  BY <1>6, <1>7, <1>8, <1>11, <1>12 DEF Sound, SoundAt

LEMMA SoundWorking ==
  ASSUME Base, Sound, NEW o \in Ids, Working(o)
  PROVE  Sound'
BY SoundApply, SoundContinue, SoundReconcile, SoundBegin, BaseEffects, SoundEffect, SoundRecord,
   SoundNext2, SoundRecordAgain DEF Working

\* A late request does what its ledger has left open.
LEMMA SoundLate ==
  ASSUME Base, Sound, NEW o \in Ids, LateArrives(o)
  PROVE  Sound'
<1> USE DEF LateArrives, files
<1>0. /\ SoundAt(o) /\ o \in late /\ done \in [Ids -> SUBSET (1..2)]
      /\ UNCHANGED <<ledger, pend, run, dir, issued>> /\ late' = late \ {o}
  BY DEF Sound, Base, TypeInv
<1>1. done'[o] = done[o] \cup {Bound(o)} /\ \A q \in Ids \ {o} : done'[q] = done[q]
  BY <1>0 DEF Happens, Bound
<1>2. \A i, s : Fact(o, i, s, done, dir, late) => Fact(o, i, s, done', dir', late')
  <2>1. \A i : Took(o, i, done) => Took(o, i, done')
    BY <1>1 DEF Took
  <2>2. QED
    BY <1>0, <1>1, <2>1 DEF Fact, OnDisk, Bound, Install
<1>3. \A l : Truth(o, l, done, dir, late) => Truth(o, l, done', dir', late')
  BY <1>2 DEF Truth
<1>4. FileSound(o)' /\ WorldSound(o)'
  BY <1>0, <1>1 DEF SoundAt, FileSound, WorldSound, Bound, Install
<1>5. TruthSound(o)'
  BY <1>0, <1>3 DEF SoundAt, TruthSound
<1>6. WorkSound(o)'
  BY <1>0, <1>2 DEF SoundAt, WorkSound
<1>7. ASSUME NEW q \in Ids \ {o} PROVE SoundAt(q)'
  BY <1>0, <1>1, SoundFrame DEF Sound
<1>8. QED
  BY <1>4, <1>5, <1>6, <1>7 DEF Sound, SoundAt

LEMMA SoundOutside ==
  ASSUME Base, Sound, Outside
  PROVE  Sound'
<1>1. \A q \in Ids : dir' = q => dir = q
  BY SkillConstants DEF Outside, Ids
<1>2. UNCHANGED <<ledger, pend, run, issued, done, late>>
  BY DEF Outside, files
<1>3. QED
  BY <1>1, <1>2, SoundFrame DEF Sound

LEMMA InFlightTruth ==
  ASSUME Base, NEW o \in Ids, SoundAt(o), Writing(o)
  PROVE  Truth(o, InFlight(o), done, dir, late)
<1>1. /\ ledger[o] \in Ledgers /\ run[o].idx \in 1..2 /\ Truth(o, ledger[o], done, dir, late)
  BY WorkFields DEF Writing, At, WorkPCs, SoundAt, WorkSound, TruthSound
<1>2. CASE At(o, "begin")
  <2>1. ~At(o, "record")
    BY <1>2 DEF At
  <2>2. QED
    BY <1>1, <1>2, <2>1, BegunTruth DEF InFlight
<1>3. CASE At(o, "record")
  <2>1. run[o].to \in Proofs /\ Fact(o, run[o].idx, run[o].to, done, dir, late) /\ ~At(o, "begin")
    BY <1>3 DEF SoundAt, WorkSound, At
  <2>2. QED
    BY <1>1, <1>3, <2>1, ClosedTruth DEF InFlight
<1>4. CASE At(o, "again")
  <2>1. ~At(o, "begin") /\ ~At(o, "record") /\ "uncertain" \in Proofs
        /\ Fact(o, run[o].idx, "uncertain", done, dir, late)
    BY <1>4 DEF At, Proofs, Fact
  <2>2. QED
    BY <1>1, <1>4, <2>1, ClosedTruth DEF InFlight
<1>5. QED
  BY <1>2, <1>3, <1>4 DEF Writing

LEMMA SoundCrash ==
  ASSUME Base, Sound, Crash
  PROVE  Sound'
<1> SUFFICES ASSUME NEW q \in Ids PROVE SoundAt(q)'
    BY DEF Sound
<1>0. /\ SoundAt(q) /\ run'[q].at = "idle" /\ UNCHANGED <<ledger, dir, done>>
  BY CrashShape, RunParts DEF Sound, Idle
<1>1. WorkSound(q)'
  BY <1>0 DEF WorkSound, WorkPCs
<1>2. CASE issued'[q] = issued[q] /\ (q \in late' <=> q \in late)
  <2>1. FileSound(q)' /\ WorldSound(q)'
    BY <1>0, <1>2 DEF SoundAt, FileSound, WorldSound, Bound, Install
  <2>2. \A l : Truth(q, l, done, dir, late) => Truth(q, l, done', dir', late')
    BY <1>0, <1>2, TruthFrame
  <2>3. ASSUME pend'[q] = pend[q] PROVE TruthSound(q)'
    <3>1. ledger[q] \in Ledgers =>
            /\ Truth(q, ledger[q], done', dir', late')
            /\ pend[q] \in Ledgers => Truth(q, pend[q], done', dir', late')
      BY <1>0, <2>2 DEF SoundAt, TruthSound
    <3>2. ledger'[q] = ledger[q]
      BY <1>0
    <3>3. QED
      BY <2>3, <3>1, <3>2 DEF TruthSound
  <2>4. ASSUME Writing(q), pend'[q] \in {Torn, InFlight(q)} PROVE TruthSound(q)'
    <3>1. Truth(q, InFlight(q), done, dir, late)
      BY <1>0, <2>4, InFlightTruth
    <3>2. QED
      <4>1. Truth(q, InFlight(q), done', dir', late')
        BY <2>2, <3>1
      <4>2. ledger[q] \in Ledgers => Truth(q, ledger[q], done', dir', late')
        BY <1>0, <2>2 DEF SoundAt, TruthSound
      <4>3. ledger'[q] = ledger[q] /\ (pend'[q] \in Ledgers => pend'[q] = InFlight(q))
        BY <1>0, <2>4, Distinct
      <4>4. QED
        BY <4>1, <4>2, <4>3 DEF TruthSound
  <2>5. TruthSound(q)'
    BY <2>3, <2>4, CrashShape
  <2>6. QED
    BY <1>1, <2>1, <2>5 DEF SoundAt
<1>3. CASE /\ At(q, "effect") /\ issued'[q] = issued[q] \cup {run[q].idx}
           /\ run[q].idx = (IF Install(q) THEN 2 ELSE 1)
  <2> DEFINE i == run[q].idx
  <2>1. /\ ledger[q] \in Ledgers /\ pend[q] = None /\ InProgress(ledger[q], i) /\ i = Bound(q)
    BY <1>0, <1>3 DEF SoundAt, WorkSound, At, WorkPCs, Bound
  <2>2. ledger[q].eff[i] # Untouched /\ ledger[q].eff[i].state \in {"not_started", "uncertain"}
    BY <1>0, <1>3, <2>1, UntouchedFields DEF InProgress, SoundAt, FileSound, Ordered, Bound
  <2>3. pend'[q] = None
    BY <1>3, <2>1, CrashShape DEF Writing, At
  <2>4. FileSound(q)' /\ WorldSound(q)'
    BY <1>0, <1>3, <2>1, <2>2 DEF SoundAt, FileSound, WorldSound, Bound, Install
  <2>5. ASSUME NEW j \in 1..2 PROVE Fact(q, j, ledger[q].eff[j].state, done, dir, late')
    <3>1. CASE j = i
      BY <2>2, <3>1 DEF Fact
    <3>2. CASE j # i
      BY <1>0, <2>1, <3>2 DEF SoundAt, TruthSound, Truth, Fact, OnDisk, Bound, Install
    <3>3. QED
      BY <3>1, <3>2
  <2>6. TruthSound(q)'
    BY <1>0, <2>3, <2>5, Distinct DEF TruthSound, Truth
  <2>7. QED
    BY <1>1, <2>4, <2>6 DEF SoundAt
<1>4. QED
  BY <1>2, <1>3, CrashShape

LEMMA SoundNext ==
  ASSUME Base, Sound, [Next]_vars
  PROVE  Sound'
<1>1. CASE \E o \in Ids : Planning(o)
  BY <1>1, PlanShapes, SoundPlan DEF Sound
<1>2. CASE \E o \in Ids : Working(o)
  BY <1>2, SoundWorking
<1>3. CASE \E o \in Ids : LateArrives(o)
  BY <1>3, SoundLate
<1>4. CASE Outside
  BY <1>4, SoundOutside
<1>5. CASE Crash
  BY <1>5, SoundCrash
<1>6. CASE UNCHANGED <<ledger, pend, run, issued, done, late, dir>>
  BY <1>6, SoundFrame DEF Sound
<1>7. QED
  BY <1>1, <1>2, <1>3, <1>4, <1>5, <1>6 DEF Next, vars, files, world, Expire

(* The inductive invariant behind the next three theorems: an effect is recorded in *)
(* order, what a file records of it is so, the world holds what the recorded effects *)
(* left, and a request at work has the ledger its section read (apply, continue_apply *)
(* and reconcile, operation.rs).                                                     *)
THEOREM SoundInvariant == Spec => [](Base /\ Sound)
<1>1. Init => Base /\ Sound
  BY BaseInit, SoundInit
<1>2. Base /\ Sound /\ [Next]_vars => Base' /\ Sound'
  BY BaseNext, SoundNext
<1>3. QED
  BY <1>1, <1>2, PTL DEF Spec

(* An effect that is about to reach the file system or Science was never requested  *)
(* before, has its intent written, the confirmation consumed and the effect it       *)
(* follows verified (begin_effect, operation.rs).                                    *)
THEOREM EffectsHappenOnce == Spec => []EffectsOnce
<1>1. Base /\ Sound => EffectsOnce
  <2> SUFFICES ASSUME Base, Sound, NEW o \in Ids
               PROVE  /\ At(o, "effect") => /\ run[o].idx \notin issued[o]
                                            /\ ledger[o].consumed /\ InProgress(ledger[o], run[o].idx)
                                            /\ run[o].idx = 2 => Verified(ledger[o], 1)
                      /\ \A i \in 1..2 : (ledger[o] \in Ledgers /\ ledger[o].eff[i] = Untouched)
                                            => i \notin issued[o]
      BY DEF EffectsOnce
  <2>1. SoundAt(o)
    BY DEF Sound
  <2>2. CASE At(o, "effect")
    <3>1. /\ ledger[o] \in Ledgers /\ run[o].idx \in 1..2 /\ Ordered(ledger[o])
          /\ InProgress(ledger[o], run[o].idx) /\ run[o].idx \notin issued[o]
      BY <2>1, <2>2, WorkFields DEF SoundAt, WorkSound, FileSound, At, WorkPCs
    <3>2. ledger[o].eff[run[o].idx] # Untouched
      BY <3>1, UntouchedFields DEF InProgress
    <3>3. run[o].idx = 2 => Verified(ledger[o], 1)
      BY <3>1, <3>2 DEF Ordered
    <3>4. run[o].idx = 1 \/ run[o].idx = 2
      BY <3>1
    <3>5. ledger[o].eff[1] # Untouched
      BY <3>2, <3>3, <3>4, UntouchedFields DEF Verified
    <3>6. ledger[o].consumed
      BY <3>1, <3>5 DEF Ordered
    <3>7. QED
      BY <2>1, <3>1, <3>3, <3>6 DEF SoundAt, FileSound
  <2>3. QED
    BY <2>1, <2>2 DEF SoundAt, FileSound
<1>2. QED
  BY <1>1, SoundInvariant, PTL

(* What a ledger settles is so, whoever recorded it: a verified package or move took *)
(* place; a failed effect neither took place nor still can (close_effect,            *)
(* reconcile, operation.rs).                                                         *)
THEOREM RecordIsTrue == Spec => []RecordTruth
<1>1. Sound => RecordTruth
  BY DEF Sound, SoundAt, TruthSound, Truth, Fact, Took, TookPlace, RecordTruth
<1>2. QED
  BY <1>1, SoundInvariant, PTL

-----------------------------------------------------------------------------
(* Answers.                                                                     *)

\* An answer that says nothing definite of the effects, or asks for recovery.
Harmless(a) == a.kind \notin {"final", "observed", "error"} \/ (a.kind # "final" /\ a.recovery)

LEMMA HarmlessAnswers ==
  /\ \A a \in {Planned, Unplanned, Refused, Failure} : Harmless(a)
  /\ \A l, i, s : Harmless(Observed(l, i, s))
<1>1. \A a \in {Planned, Unplanned, Refused, Failure} : Harmless(a)
  BY DEF Planned, Unplanned, Refused, Failure, Answer, Harmless
<1>2. \A l, i, s : Observed(l, i, s).kind = "observed" /\ Observed(l, i, s).recovery
  BY DEF Observed, Project
<1>3. QED
  BY <1>1, <1>2 DEF Harmless

Answered(o) ==
  \/ answer' = None
  \/ \E a : answer' = [of |-> o, says |-> a] /\ Harmless(a)
  \/ LET next == Closed(ledger[o], run[o].idx, run[o].to)
     IN At(o, "record") /\ Persist(o, next, TRUE) /\ answer' = [of |-> o, says |-> Project(next)]

LEMMA PlanAnswered ==
  ASSUME NEW o \in Ids, Planning(o)
  PROVE  Answered(o)
<1>1. Quiet \/ \E a \in {Planned, Unplanned} : Reply(o, a)
  BY DEF Planning, PlanInstall, Reserve, DownloadFails, Prepare, StageArchive, RejectArchive,
         ReleaseReservation, SealArchive, RecordStaged, RefusePlan, WriteLedger, DropReservation, PlanRemoval, WriteRemoval, Collect,
         CollectFails, Leave
<1>2. QED
  BY <1>1, HarmlessAnswers DEF Answered, Quiet, Reply

LEMMA WorkAnswered ==
  ASSUME Base, NEW o \in Ids, Working(o)
  PROVE  Answered(o)
<1>1. CASE Quiet \/ \E a \in {Refused, Failure} : Reply(o, a)
  BY <1>1, HarmlessAnswers DEF Answered, Quiet, Reply
<1>2. CASE Apply(o) \/ Continue(o) \/ Reconcile(o)
  BY <1>1, <1>2 DEF Apply, Continue, Reconcile, Unusable, Admit
<1>3. CASE Begin(o) \/ Next2(o)
  BY <1>1, <1>3 DEF Begin, Next2
<1>4. CASE Commit(o) \/ Attach(o) \/ Detach(o) \/ Quarantine(o)
  BY <1>1, <1>4, BaseEffects DEF EffectStep, Effecting
<1>5. CASE Record(o)
  BY <1>1, <1>5 DEF Record, Answered, Reply
<1>6. CASE RecordAgain(o)
  BY <1>6, HarmlessAnswers DEF RecordAgain, Answered, Reply
<1>7. QED
  BY <1>2, <1>3, <1>4, <1>5, <1>6 DEF Working

LEMMA StepAnswered ==
  ASSUME Base, Next
  PROVE  answer' = None \/ \E o \in Ids : Answered(o)
BY PlanAnswered, WorkAnswered DEF Next, LateArrives, Expire, Outside, Crash, Quiet

\* What a step may answer of operation o.
Honest(o) ==
  LET a == answer'.says
      says(i) == IF i = 1 THEN a.first ELSE a.second
  IN /\ a.kind = "final" => \A i \in 1..2 :
          /\ (says(i) = "true" /\ OnDisk(o, i)) => TookPlace(o, i)
          /\ says(i) = "false" =>
               IF Install(o) /\ i = 1 THEN dir # o ELSE i \notin done[o]
     /\ (a.kind \in {"final", "observed", "error"} /\ ~a.recovery) =>
          \A i \in issued[o] : ledger'[o] \in Ledgers /\ ~InProgress(ledger'[o], i)

LEMMA SaidFields ==
  ASSUME NEW l
  PROVE  /\ Project(l).kind = "final"
         /\ Project(l).first = Said(l.eff[1]) /\ Project(l).second = Said(l.eff[2])
         /\ Project(l).recovery <=> \E i \in 1..2 : l.eff[i].intent \/ l.eff[i].state = "uncertain"
BY DEF Project

LEMMA SaidStates ==
  ASSUME NEW e \in Effects
  PROVE  /\ Said(e) = "true" => e.state = "verified"
         /\ Said(e) = "false" => e.state \in {"not_started", "failed"}
BY DEF Said, Effects, EffectStates

LEMMA FinalHonest ==
  ASSUME Base, Sound, NEW o \in Ids, At(o, "record"),
         Persist(o, Closed(ledger[o], run[o].idx, run[o].to), TRUE),
         answer'.says = Project(Closed(ledger[o], run[o].idx, run[o].to))
  PROVE  Honest(o)
<1> DEFINE i == run[o].idx
           to == run[o].to
           m == Closed(ledger[o], i, to)
<1>0. /\ SoundAt(o) /\ ledger[o] \in Ledgers /\ i \in 1..2 /\ to \in Proofs /\ InProgress(ledger[o], i)
      /\ Fact(o, i, to, done, dir, late) /\ issued \in [Ids -> SUBSET (1..2)]
  BY WorkFields DEF Base, TypeInv, Sound, SoundAt, WorkSound, At, WorkPCs
<1>1. ledger'[o] = m /\ m \in Ledgers /\ Legal(ledger[o], m)
  BY BaseTyped, PersistShape, WritableType DEF Becomes
<1>2. Truth(o, m, done, dir, late) /\ Ordered(m)
  BY <1>0, <1>1, ClosedTruth, LegalOrdered DEF SoundAt, TruthSound, FileSound
<1>3. m.eff[i].state = to /\ \A j \in 1..2 : j # i => m.eff[j] = ledger[o].eff[j]
  BY <1>0, ClosedFields DEF Proofs, EffectStates
<1>4. ASSUME NEW j \in 1..2, m.eff[j].state = "not_started" PROVE j = 2 /\ j \notin done[o]
  <2>1. j # i
    BY <1>0, <1>3, <1>4 DEF Proofs
  <2>2. m.eff[j] = ledger[o].eff[j] /\ ledger[o].eff[j] \in Effects
    BY <1>0, <1>3, <2>1, LedgerFields
  <2>3. CASE j = 2
    <3>1. i = 1
      BY <1>0, <2>1, <2>3
    <3>2. ledger[o].eff[2] = Untouched
      BY <1>0, <3>1 DEF SoundAt, FileSound, Ordered, Verified, InProgress
    <3>3. QED
      BY <1>0, <2>3, <3>2 DEF SoundAt, FileSound, WorldSound
  <2>4. CASE j = 1
    <3>1. i = 2 /\ ledger[o].eff[2].intent
      BY <1>0, <2>1, <2>4 DEF InProgress
    <3>2. Verified(ledger[o], 1)
      BY <1>0, <3>1, UntouchedFields DEF SoundAt, FileSound, Ordered
    <3>3. QED
      BY <1>4, <2>2, <2>4, <3>2 DEF Verified
  <2>5. QED
    BY <2>3, <2>4
<1>5. ASSUME NEW j \in 1..2
      PROVE  /\ (Said(m.eff[j]) = "true" /\ OnDisk(o, j)) => TookPlace(o, j)
             /\ Said(m.eff[j]) = "false" => IF Install(o) /\ j = 1 THEN dir # o ELSE j \notin done[o]
  <2>1. m.eff[j] \in Effects /\ Fact(o, j, m.eff[j].state, done, dir, late)
    BY <1>1, <1>2, LedgerFields DEF Truth
  <2>2. QED
    BY <2>1, <1>4, SaidStates DEF Fact, Took, TookPlace
<1>6. ~Project(m).recovery => \A j \in 1..2 : ~InProgress(m, j)
  BY SaidFields DEF InProgress
<1>7. QED
  BY <1>0, <1>1, <1>5, <1>6, SaidFields DEF Honest

(* A final answer says "false" of no effect that took place and "true" of no package *)
(* or move that did not, and no answer that asks for no recovery leaves a requested   *)
(* effect open (project, operation_error, operation.rs).                              *)
THEOREM AnswersAreHonest == Spec => AnswersHonest
<1>1. ASSUME Base, Sound, Next, NEW o \in Ids, answer' # None, answer'.of = o
      PROVE  Honest(o)
  <2>1. PICK p \in Ids : Answered(p)
    BY <1>1, StepAnswered
  <2>2. CASE \E a : answer' = [of |-> p, says |-> a] /\ Harmless(a)
    BY <1>1, <2>2 DEF Harmless, Honest
  <2>3. CASE LET next == Closed(ledger[p], run[p].idx, run[p].to)
             IN At(p, "record") /\ Persist(p, next, TRUE) /\ answer' = [of |-> p, says |-> Project(next)]
    BY <1>1, <2>3, FinalHonest
  <2>4. QED
    BY <1>1, <2>1, <2>2, <2>3 DEF Answered
<1>2. Base /\ Sound /\ [Next]_vars =>
        [\A o \in Ids : (answer' # None /\ answer'.of = o) => Honest(o)]_vars
  BY <1>1
<1>3. QED
  BY <1>2, SoundInvariant, PTL DEF Spec, AnswersHonest, Honest

-----------------------------------------------------------------------------
(* What an effect acts on.                                                      *)

Acting(o) == run[o].mode \in {"apply", "continue"}

\* Outside a readback every request at work applies or continues.
ModeSound(o) == run[o].at \in WorkPCs \ {"record"} => Acting(o)

\* From the commit of its package to the request that binds it, an install that
\* nobody interferes with from outside has its package under the name.
Subject(o) ==
  (/\ o \in Installs /\ env = 0 /\ Acting(o)
   /\ \/ run[o].at = "record" /\ run[o].idx = 1 /\ run[o].to = "verified"
      \/ run[o].at = "next"
      \/ run[o].at = "begin" /\ run[o].idx = 2) => Bears(o, o)

Single ==
  /\ \A o \in Ids : ModeSound(o) /\ Subject(o)
  /\ \A p, q \in Ids : Acting(p) /\ Acting(q) => p = q

LEMMA SingleStep ==
  ASSUME Single, NEW o \in Ids, \A q \in Ids \ {o} : run'[q] = run[q], UNCHANGED env,
         Acting(o)' => Acting(o) \/ ~Busy,
         ModeSound(o)', Subject(o)',
         dir' = dir \/ Acting(o)
  PROVE  Single'
<1>1. ASSUME NEW q \in Ids \ {o} PROVE ModeSound(q)' /\ Subject(q)' /\ (Acting(q)' <=> Acting(q))
  <2>1. (Acting(q)' <=> Acting(q)) /\ ModeSound(q)'
    BY DEF Single, ModeSound, Acting
  <2>2. CASE dir' = dir
    BY <2>1, <2>2 DEF Single, Subject, Acting, Bears, Install
  <2>3. CASE Acting(o)
    <3>1. ~Acting(q)
      BY <2>3 DEF Single
    <3>2. QED
      BY <2>1, <3>1 DEF Subject
  <2>4. QED
    BY <2>1, <2>2, <2>3
<1>2. ASSUME NEW p \in Ids, NEW q \in Ids, Acting(p)', Acting(q)' PROVE p = q
  <2>1. CASE p = o \/ q = o
    <3>1. CASE Acting(o)
      BY <1>1, <1>2, <2>1, <3>1 DEF Single
    <3>2. CASE ~Busy
      BY <1>1, <1>2, <2>1, <3>2 DEF Busy, Acting
    <3>3. QED
      BY <1>2, <2>1, <3>1, <3>2
  <2>2. CASE p # o /\ q # o
    BY <1>1, <1>2, <2>2 DEF Single
  <2>3. QED
    BY <2>1, <2>2
<1>3. QED
  BY <1>1, <1>2 DEF Single

LEMMA SingleReply ==
  ASSUME Base, Single, NEW o \in Ids, NEW a, Reply(o, a), UNCHANGED world
  PROVE  Single'
<1>1. run' = [run EXCEPT ![o] = Idle] /\ run \in [Ids -> Runs]
  BY DEF Reply, Base, TypeInv
<1>2. /\ run'[o].at = "idle" /\ run'[o].mode = "none" /\ \A q \in Ids \ {o} : run'[q] = run[q]
  BY <1>1, RunParts DEF Idle
<1>3. ~Acting(o)' /\ ModeSound(o)' /\ Subject(o)'
  BY <1>2 DEF Acting, ModeSound, Subject, WorkPCs
<1>4. QED
  BY <1>2, <1>3, SingleStep DEF world

LEMMA SinglePlan ==
  ASSUME Base, Single, NEW o \in Ids, Planning(o)
  PROVE  Single'
<1>1. \A q \in Ids : UNCHANGED world /\ (run'[q] = run[q] \/ run'[q].at \in PlanPCs)
  BY PlanShapes DEF PlanShape
<1>2. \A q \in Ids : run'[q] \in Runs
  BY BasePlanning DEF Base, TypeInv
<1>3. \A q \in Ids : run'[q] = run[q] \/ (run'[q].at \notin WorkPCs /\ ~Acting(q)')
  BY <1>1, <1>2, RunFields DEF Acting, PlanPCs, WorkPCs
<1>4. QED
  BY <1>1, <1>3 DEF Single, ModeSound, Subject, Acting, Bears, Install, world, WorkPCs

LEMMA SingleWorking ==
  ASSUME Base, Sound, Single, NEW o \in Ids, Working(o)
  PROVE  Single'
<1>0. ModeSound(o) /\ Subject(o)
  BY DEF Single
<1>1. CASE Apply(o)
  <2>1. Request(o) /\ faults' \in 0..MaxFaults /\ UNCHANGED world
    BY <1>1, BaseTyped DEF Apply, FilesTyped, Request
  <2>2. CASE \E a : Reply(o, a)
    BY <2>1, <2>2, SingleReply
  <2>3. CASE ~Busy /\ Admit(o, "apply", 1)
    <3>1. /\ run'[o].at = "begin" /\ run'[o].mode = "apply" /\ run'[o].idx = 1
          /\ \A q \in Ids \ {o} : run'[q] = run[q]
      BY <2>3, Goes DEF Admit
    <3>2. ModeSound(o)' /\ Subject(o)'
      BY <3>1 DEF ModeSound, Subject, Acting
    <3>3. QED
      BY <2>1, <2>3, <3>1, <3>2, SingleStep DEF world
  <2>4. QED
    BY <1>1, <2>2, <2>3 DEF Apply, Unusable
<1>2. CASE Continue(o)
  <2>1. Request(o) /\ faults' \in 0..MaxFaults /\ UNCHANGED world
    BY <1>2, BaseTyped DEF Continue, FilesTyped, Request
  <2>2. CASE \E a : Reply(o, a)
    BY <2>1, <2>2, SingleReply
  <2>3. CASE ~Busy /\ Usable(o) /\ Bears(o, Loaded(o).leaf) /\ Admit(o, "continue", 2)
    <3>1. /\ run'[o].at = "begin" /\ run'[o].mode = "continue"
          /\ \A q \in Ids \ {o} : run'[q] = run[q]
      BY <2>3, Goes DEF Admit
    <3>3. o \in Installs => Bears(o, o)'
      BY <2>1, <2>3 DEF Bears, Install, world
    <3>4. ModeSound(o)' /\ Subject(o)'
      BY <3>1, <3>3 DEF ModeSound, Subject, Acting
    <3>5. QED
      BY <2>1, <2>3, <3>1, <3>4, SingleStep DEF world
  <2>4. QED
    BY <1>2, <2>2, <2>3 DEF Continue, Unusable
<1>3. CASE Reconcile(o)
  <2>1. Request(o) /\ UNCHANGED world
    BY <1>3 DEF Reconcile, Request
  <2>2. CASE \E a : Reply(o, a)
    BY <2>1, <2>2, SingleReply
  <2>3. CASE \E i, s : Work1(o, "record", "reconcile", i, s)
    <3>1. /\ run'[o].at = "record" /\ run'[o].mode = "reconcile"
          /\ \A q \in Ids \ {o} : run'[q] = run[q]
      BY <2>3, Goes
    <3>2. ~Acting(o)' /\ ModeSound(o)' /\ Subject(o)'
      BY <3>1 DEF ModeSound, Subject, Acting
    <3>3. QED
      BY <2>1, <3>1, <3>2, SingleStep DEF world
  <2>4. QED
    BY <1>3, <2>2, <2>3 DEF Reconcile, Unusable
<1>4. CASE Begin(o)
  <2>1. UNCHANGED world
    BY <1>4 DEF Begin
  <2>2. CASE \E a : Reply(o, a)
    BY <2>1, <2>2, SingleReply
  <2>3. CASE Step(o, "effect", "none")
    <3>1. /\ run'[o].at = "effect" /\ run'[o].mode = run[o].mode /\ run[o].at = "begin"
          /\ \A q \in Ids \ {o} : run'[q] = run[q]
      BY <1>4, <2>3, Goes DEF Step, Begin, At
    <3>2. Acting(o) /\ ModeSound(o)' /\ Subject(o)'
      BY <1>0, <3>1 DEF ModeSound, Subject, Acting, WorkPCs
    <3>3. QED
      BY <2>1, <3>1, <3>2, SingleStep DEF world
  <2>4. QED
    BY <1>4, <2>2, <2>3 DEF Begin
<1>5. CASE Commit(o) \/ Attach(o) \/ Detach(o) \/ Quarantine(o)
  <2>1. PICK i \in 1..2 : EffectStep(o, i)
    BY <1>5, BaseEffects
  <2>2. UNCHANGED env /\ run[o].at = "effect" /\ run[o].idx = i
    BY <2>1 DEF EffectStep, Effecting, At
  <2>3. PICK at \in {"record", "again"}, to \in Proofs :
          /\ Step(o, at, to)
          /\ (at = "record" /\ to = "verified" /\ OnDisk(o, i)) => Happens(o, i)
    BY <2>1 DEF EffectStep
  <2>4. /\ run'[o].at = at /\ run'[o].mode = run[o].mode /\ run'[o].idx = i /\ run'[o].to = to
        /\ \A q \in Ids \ {o} : run'[q] = run[q]
    BY <2>2, <2>3, Goes DEF Step
  <2>5. Acting(o) /\ ModeSound(o)'
    BY <1>0, <2>2, <2>4 DEF ModeSound, Acting, WorkPCs
  <2>6. (o \in Installs /\ at = "record" /\ i = 1 /\ to = "verified") => dir' = o
    <3>1. CASE Commit(o)
      BY <2>4, <3>1, Goes DEF Commit, Result, Step, Uncertainly
    <3>2. CASE Attach(o)
      <4>1. Bind(o, 2, TRUE)
        BY <3>2 DEF Attach
      <4>2. Effecting(o, 2)
        BY <4>1 DEF Bind
      <4>3. i # 1
        BY <2>2, <4>2 DEF Effecting
      <4>4. QED
        BY <4>3
    <3>3. CASE Detach(o) \/ Quarantine(o)
      BY <3>3 DEF Detach, Quarantine, Install
    <3>4. QED
      BY <1>5, <3>1, <3>2, <3>3
  <2>7. Subject(o)'
    BY <2>4, <2>6 DEF Subject, Bears, Install
  <2>8. QED
    BY <2>2, <2>4, <2>5, <2>7, SingleStep
<1>6. CASE Record(o)
  <2>1. UNCHANGED world /\ run[o].at = "record"
    BY <1>6 DEF Record, At
  <2>2. CASE \E a : Reply(o, a)
    BY <2>1, <2>2, SingleReply
  <2>3. CASE run[o].mode # "reconcile" /\ Step(o, "again", "uncertain")
    <3>1. /\ run'[o].at = "again" /\ run'[o].mode = run[o].mode
          /\ \A q \in Ids \ {o} : run'[q] = run[q]
      BY <2>3, Goes DEF Step
    <3>2. Acting(o)
      BY <2>1, <2>3, WorkFields DEF Acting, WorkPCs
    <3>3. ModeSound(o)' /\ Subject(o)'
      BY <3>1, <3>2 DEF ModeSound, Subject, Acting
    <3>4. QED
      BY <2>1, <3>1, <3>2, <3>3, SingleStep DEF world
  <2>4. CASE run[o].to = "verified" /\ run[o].mode = "apply" /\ run[o].idx = 1 /\ Step(o, "next", "none")
    <3>1. /\ run'[o].at = "next" /\ run'[o].mode = run[o].mode
          /\ \A q \in Ids \ {o} : run'[q] = run[q]
      BY <2>4, Goes DEF Step
    <3>2. Acting(o)
      BY <2>4 DEF Acting
    <3>3. ModeSound(o)' /\ Subject(o)'
      BY <1>0, <2>1, <2>4, <3>1, <3>2 DEF ModeSound, Subject, Acting, Bears, Install, world
    <3>4. QED
      BY <2>1, <3>1, <3>2, <3>3, SingleStep DEF world
  <2>5. QED
    BY <1>6, <2>2, <2>3, <2>4 DEF Record
<1>7. CASE Next2(o)
  <2>1. UNCHANGED world /\ run[o].at = "next"
    BY <1>7 DEF Next2, At
  <2>2. CASE Reply(o, Refused)
    BY <2>1, <2>2, SingleReply
  <2>3. CASE Work1(o, "begin", "apply", 2, "none")
    <3>1. /\ run'[o].at = "begin" /\ run'[o].mode = "apply"
          /\ \A q \in Ids \ {o} : run'[q] = run[q]
      BY <2>3, Goes
    <3>2. Acting(o)
      BY <1>0, <2>1 DEF ModeSound, WorkPCs
    <3>3. ModeSound(o)' /\ Subject(o)'
      BY <1>0, <2>1, <3>1, <3>2 DEF ModeSound, Subject, Acting, Bears, Install, world
    <3>4. QED
      BY <2>1, <3>1, <3>2, <3>3, SingleStep DEF world
  <2>4. QED
    BY <1>7, <2>2, <2>3 DEF Next2
<1>8. CASE RecordAgain(o)
  BY <1>8, SingleReply DEF RecordAgain
<1>9. QED
  BY <1>1, <1>2, <1>3, <1>4, <1>5, <1>6, <1>7, <1>8 DEF Working

LEMMA SingleNext ==
  ASSUME Base, Sound, Single, [Next]_vars
  PROVE  Single'
<1>1. CASE \E o \in Ids : Planning(o)
  BY <1>1, SinglePlan
<1>2. CASE \E o \in Ids : Working(o)
  BY <1>2, SingleWorking
<1>3. CASE Outside
  <2>1. env' # 0 /\ UNCHANGED run
    BY <1>3, BaseTyped, EnvAssumption DEF Outside, WorldTyped
  <2>2. QED
    BY <2>1 DEF Single, ModeSound, Subject, Acting, Bears, Install
<1>4. CASE Crash
  <2>1. \A q \in Ids : run'[q].at = "idle" /\ run'[q].mode = "none"
    BY <1>4, CrashShape, RunParts DEF Idle
  <2>2. QED
    BY <2>1 DEF Single, ModeSound, Subject, Acting, WorkPCs
<1>5. CASE UNCHANGED <<run, dir, env>>
  BY <1>5 DEF Single, ModeSound, Subject, Acting, Bears, Install
<1>6. QED
  BY <1>1, <1>2, <1>3, <1>4, <1>5 DEF Next, vars, world, LateArrives, Expire

LEMMA SingleInit == Init => Single
BY RunParts DEF Init, Single, ModeSound, Subject, Acting, Idle, WorkPCs

\* Only a quarantine moves a directory away.
LEMMA MovesOnlyByQuarantine ==
  ASSUME Base, Next, NEW o \in Ids, ~Install(o), 2 \in done'[o] \ done[o]
  PROVE  Quarantine(o)
<1>0. done \in [Ids -> SUBSET (1..2)]
  BY DEF Base, TypeInv
<1>1. ~UNCHANGED done
  OBVIOUS
<1>2. CASE \E p \in Ids : Planning(p)
  BY <1>1, <1>2, PlanShapes DEF PlanShape, world
<1>3. CASE \E p \in Ids : LateArrives(p)
  BY <1>0, <1>3 DEF LateArrives, Happens
<1>4. CASE \E p \in Ids : Working(p)
  <2>1. PICK p \in Ids : Working(p)
    BY <1>4
  <2>2. CASE Commit(p) \/ Attach(p) \/ Detach(p) \/ Quarantine(p)
    <3>1. PICK i \in 1..2 : EffectStep(p, i)
      BY <2>2, BaseEffects
    <3>2. Happens(p, i) /\ run[p].idx = i
      BY <1>1, <3>1 DEF EffectStep, Effecting
    <3>3. p = o /\ i = 2
      BY <1>0, <3>2 DEF Happens
    <3>4. QED
      BY <2>2, <3>2, <3>3 DEF Commit, Attach, Detach, Bind, Effecting
  <2>3. CASE Apply(p) \/ Continue(p) \/ Reconcile(p) \/ Begin(p) \/ Record(p) \/ Next2(p) \/ RecordAgain(p)
    BY <1>1, <2>3 DEF Apply, Continue, Reconcile, Request, Begin, Record, Next2, RecordAgain, world
  <2>4. QED
    BY <2>1, <2>2, <2>3 DEF Working
<1>5. QED
  BY <1>1, <1>2, <1>3, <1>4 DEF Next, Expire, Outside, Crash, world

(* Science is asked to bind only the package the install planned, as long as nobody    *)
(* interferes from outside; only the sealed directory is moved, and only after its    *)
(* binding was recorded as gone (continue_apply, quarantine_owned_skill_at).          *)
THEOREM ActsOnSubject == Spec => ActsOnSealedSubject
<1>1. ASSUME Base, Sound, Single, Next, NEW o \in Ids
      PROVE  /\ (Install(o) /\ At(o, "begin") /\ run'[o].at = "effect" /\ run[o].idx = 2 /\ env' = 0)
                  => Bears(o, o)
             /\ (~Install(o) /\ 2 \in done'[o] \ done[o])
                  => dir = ledger[o].leaf /\ Verified(ledger[o], 1)
  <2>1. ASSUME Install(o), At(o, "begin"), run'[o].at = "effect", run[o].idx = 2, env' = 0
        PROVE  Bears(o, o)
    <3>1. Acting(o) /\ Subject(o)
      BY <1>1, <2>1 DEF Single, ModeSound, At, WorkPCs
    <3>2. env = 0
      <4>1. CASE env' = env
        BY <2>1, <4>1
      <4>2. CASE Outside
        BY <2>1, <4>2 DEF Outside, At
      <4>3. CASE \E p \in Ids : Planning(p)
        BY <2>1, <4>3, <1>1, PlanShapes, <4>1 DEF PlanShape, world
      <4>4. CASE \E p \in Ids : Working(p)
        <5>1. PICK p \in Ids : Working(p)
          BY <4>4
        <5>2. CASE Commit(p) \/ Attach(p) \/ Detach(p) \/ Quarantine(p)
          BY <1>1, <4>1, <5>2, BaseEffects DEF EffectStep, Effecting
        <5>3. CASE Apply(p) \/ Continue(p) \/ Reconcile(p) \/ Begin(p) \/ Record(p) \/ Next2(p) \/ RecordAgain(p)
          BY <4>1, <5>3 DEF Apply, Continue, Reconcile, Request, Begin, Record, Next2, RecordAgain, world
        <5>4. QED
          BY <5>1, <5>2, <5>3 DEF Working
      <4>5. QED
        BY <1>1, <4>1, <4>2, <4>3, <4>4 DEF Next, LateArrives, Expire, Crash, world
    <3>3. QED
      BY <2>1, <3>1, <3>2 DEF Subject, At, Install
  <2>2. ASSUME ~Install(o), 2 \in done'[o] \ done[o]
        PROVE  dir = ledger[o].leaf /\ Verified(ledger[o], 1)
    <3>1. Quarantine(o) /\ done' # done
      BY <1>1, <2>2, MovesOnlyByQuarantine
    <3>2. dir = ledger[o].leaf /\ run[o].at = "effect" /\ run[o].idx = 2
      BY <3>1 DEF Quarantine, Effecting, At
    <3>3. ledger[o] \in Ledgers /\ InProgress(ledger[o], 2) /\ Ordered(ledger[o])
      BY <1>1, <3>2 DEF Sound, SoundAt, WorkSound, FileSound, WorkPCs
    <3>4. QED
      BY <3>2, <3>3, UntouchedFields DEF InProgress, Ordered
  <2>3. QED
    BY <2>1, <2>2
<1>2. Base /\ Sound /\ Single /\ [Next]_vars =>
        [\A o \in Ids :
           /\ (Install(o) /\ At(o, "begin") /\ run'[o].at = "effect" /\ run[o].idx = 2 /\ env' = 0)
                => Bears(o, o)
           /\ (~Install(o) /\ 2 \in done'[o] \ done[o])
                => dir = ledger[o].leaf /\ Verified(ledger[o], 1)]_vars
  BY <1>1
<1>3. Init => Single
  BY SingleInit
<1>4. Base /\ Sound /\ Single /\ [Next]_vars => Single'
  BY SingleNext
<1>5. QED
  BY <1>2, <1>3, <1>4, SoundInvariant, PTL DEF Spec, ActsOnSealedSubject
=============================================================================
