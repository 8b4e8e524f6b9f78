---------------------------- MODULE SkillLifecycle ----------------------------
(* Planning a Skill operation: the bounded set of reservations and ledgers, the *)
(* staged archive of an install, and the collector every planning section runs   *)
(* first.  A section holds the lifecycle lock; the steps below are the durable   *)
(* edges inside it, so that a failure or a crash can fall between any two.       *)
EXTENDS SkillLedger

CONSTANT Cap      \* MAX_ACTIVE_INSTALL_PLANS

ASSUME LifecycleConstants ==
  /\ Cap \in Nat \ {0}
  /\ {None, Torn} \cap {"reserved", "staged", "ledger", "reservation"} = {}

VARIABLES
  resv,        \* operation id -> its reservation file
  stage,       \* operation id -> its child of the staging root, by what is in it
  tomb,        \* operation id -> its collection tombstone, by what it retires
  expired,     \* operation ids whose plan has expired
  lifecycle,   \* the operation whose section holds the lifecycle lock
  asked,       \* operations a plan was asked for
  told,        \* operations whose plan and capability were answered
  run,         \* operation id -> the request at work on it
  answer,      \* the answer this step gives, if it gives one
  dir,         \* what carries the Skill's name under the Skills root
  attached,    \* the agent is bound to the Skill
  late,        \* operations whose unanswered request may still reach Science
  issued,      \* operation id -> effects requested natively
  done,        \* operation id -> effects that took place
  env          \* outside changes so far

files   == <<ledger, pend, resv, stage, tomb>>
world   == <<dir, attached, late, issued, done, env>>

Modes == {"none", "apply", "continue", "reconcile"}
Run(at, mode, idx, to) == [at |-> at, mode |-> mode, idx |-> idx, to |-> to]
Idle == Run("idle", "none", 0, "none")
At(o, at) == run[o].at = at
Goto(o, at) == run' = [run EXCEPT ![o] = Run(at, "none", 0, "none")]

Reply(o, a) == run' = [run EXCEPT ![o] = Idle] /\ answer' = [of |-> o, says |-> a]
Quiet == answer' = None
(* A section gives its lock back with its answer.                               *)
Leave(o, a) == Reply(o, a) /\ lifecycle' = None

(* A child of the staging root: incomplete, with the whole archive but not its     *)
(* receipt, or with both.                                                        *)
Children == {"partial", "archive", "exact"}

(* The operation lock is held by a request on the ledger and by the second half  *)
(* of a planning section, not while the archive is downloaded.                   *)
Locked(o) == run[o].mode # "none" \/ run[o].at \in {"inspect", "release", "seal", "write", "drop"}

(* ------------------------------------------------------------------------- *)
(* The collector.                                                              *)
(* ------------------------------------------------------------------------- *)
Collectable(o) == ledger[o] \in Ledgers /\ o \in expired /\ Settled(ledger[o])

(* What the tombstone has to name before the archive goes.                      *)
Retires(o) ==
  IF Collectable(o) THEN "ledger"
  ELSE IF ledger[o] = None /\ resv[o] = "staged" /\ o \in expired THEN "reservation"
  ELSE "none"

(* An archive is deleted only as the whole, sealed object it was; the child of a  *)
(* reservation that was never sealed goes as the two files the protocol creates.  *)
Unsealed(o) == ledger[o] = None /\ resv[o] = "reserved" /\ o \in expired

(* The collector gives up, and every planning section with it.  A torn ledger    *)
(* by itself it passes over, but a section that counts does not.                 *)
Stuck(o) ==
  \/ resv[o] = Torn \/ tomb[o] = Torn
  \/ /\ ~Locked(o)
     /\ \/ ledger[o] = Torn /\ resv[o] # None
        \/ ledger[o] \in Ledgers /\ resv[o] = "reserved"
        \/ Retires(o) # "none" /\ tomb[o] # None /\ (tomb[o] # Retires(o) \/ stage[o] = "partial")
Uncounted == \E o \in Ids : ledger[o] = Torn \/ tomb[o] # None

Redundant(o) == ledger[o] \in Ledgers /\ resv[o] = "staged"
Work(o) ==
  ~Locked(o) /\ ( \/ Retires(o) # "none" \/ Redundant(o) \/ Unsealed(o)
                  \/ tomb[o] # None /\ ledger[o] = None /\ resv[o] = None )

Collecting(o) == lifecycle = o /\ run[o].at \in {"reserve", "prepare", "plan"}
Collected == \A p \in Ids : ~Work(p) /\ ~Stuck(p)

DropRedundant(p) ==
  /\ Redundant(p)
  /\ resv' = [resv EXCEPT ![p] = None] /\ UNCHANGED <<ledger, stage, tomb, faults>>

Bury(p) ==
  /\ Retires(p) # "none" /\ ~Redundant(p) /\ tomb[p] = None
  /\ \/ tomb' = [tomb EXCEPT ![p] = Retires(p)] /\ UNCHANGED faults
     \/ tomb' = [tomb EXCEPT ![p] = Torn] /\ Fault
  /\ UNCHANGED <<ledger, resv, stage>>

Unstage(p) ==
  /\ \/ Retires(p) # "none" /\ ~Redundant(p) /\ tomb[p] = Retires(p) /\ stage[p] = "exact"
     \/ Unsealed(p) /\ stage[p] # "none"
  /\ \/ stage' = [stage EXCEPT ![p] = "none"] /\ UNCHANGED faults
     \/ stage[p] # "partial" /\ stage' = [stage EXCEPT ![p] = "partial"] /\ Fault
  /\ UNCHANGED <<ledger, resv, tomb>>

\* Mutant: one finished effect is enough to collect a ledger.
Retire_Unsettled(p) ==
  /\ stage[p] = "none" /\ UNCHANGED <<stage, tomb, faults>>
  /\ ledger[p] \in Ledgers /\ p \in expired /\ ~Redundant(p)
  /\ \E i \in 1..2 : ledger[p].eff[i].state \in {"verified", "failed"}
  /\ ledger' = [ledger EXCEPT ![p] = None] /\ UNCHANGED resv

Retire(p) ==
  /\ stage[p] = "none" /\ UNCHANGED <<stage, tomb, faults>>
  /\ \/ Retires(p) = "ledger" /\ ~Redundant(p) /\ tomb[p] = "ledger"
        /\ ledger' = [ledger EXCEPT ![p] = None] /\ UNCHANGED resv
     \/ Retires(p) = "reservation" /\ tomb[p] = "reservation"
        /\ resv' = [resv EXCEPT ![p] = None] /\ UNCHANGED ledger
     \/ Unsealed(p) /\ resv' = [resv EXCEPT ![p] = None] /\ UNCHANGED ledger

Unbury(p) ==
  /\ tomb[p] # None /\ ledger[p] = None /\ resv[p] = None
  /\ tomb' = [tomb EXCEPT ![p] = None] /\ UNCHANGED <<ledger, resv, stage, faults>>

(* One edge of the collector, over an operation nobody is at work on.            *)
Collect(o, p) ==
  /\ Collecting(o) /\ ~Locked(p) /\ ~Stuck(p)
  /\ DropRedundant(p) \/ Bury(p) \/ Unstage(p) \/ Retire(p) \/ Unbury(p)
  /\ Quiet /\ UNCHANGED <<pend, expired, lifecycle, asked, told, run, world>>

(* A section whose collector is stuck answers so, whatever it was asked for; so  *)
(* does one that has to count files it does not know.                            *)
CollectFails(o) ==
  /\ Collecting(o)
  /\ (\E p \in Ids : Stuck(p)) \/ (Collected /\ Uncounted /\ ~At(o, "prepare"))
  /\ Leave(o, Unplanned)
  /\ UNCHANGED <<files, faults, expired, asked, told, world>>

(* Reservations and ledgers count separately, also for one operation.            *)
Usage == Cardinality({o \in Ids : resv[o] # None}) + Cardinality({o \in Ids : ledger[o] # None})

(* ------------------------------------------------------------------------- *)
(* Sections.                                                                   *)
(* ------------------------------------------------------------------------- *)
Unused(o) == o \notin asked /\ asked' = asked \cup {o}

(* An operation id is the id of the one request that asks for the plan.          *)
PlanInstall(o) ==
  /\ o \in Installs /\ Unused(o) /\ lifecycle = None
  /\ lifecycle' = o /\ Goto(o, "reserve")
  /\ Quiet /\ UNCHANGED <<files, faults, expired, told, world>>

Reserve(o) ==
  /\ lifecycle = o /\ At(o, "reserve") /\ Collected /\ ~Uncounted
  /\ IF Usage >= Cap
     THEN Leave(o, Unplanned) /\ UNCHANGED <<resv, faults>>
     ELSE \/ resv' = [resv EXCEPT ![o] = "reserved"] /\ Quiet /\ UNCHANGED <<faults>>
             /\ Goto(o, "download") /\ lifecycle' = None
          \/ Fault /\ Leave(o, Unplanned)
             /\ \E r \in {Torn, "reserved"} : resv' = [resv EXCEPT ![o] = r]
  /\ UNCHANGED <<ledger, pend, stage, tomb, expired, asked, told, world>>

(* A reservation that was not sealed is released: nothing is looked for in the     *)
(* staging root.  The unlink or the sync behind it may fail.                      *)
Release(o) ==
  \/ resv' = [resv EXCEPT ![o] = None] /\ UNCHANGED faults
  \/ Fault /\ \E r \in {None, resv[o]} : resv' = [resv EXCEPT ![o] = r]

(* The download fails; the reservation goes unless the lifecycle lock is taken   *)
(* or the collector was faster.                                                  *)
DownloadFails(o) ==
  /\ At(o, "download") /\ Reply(o, Unplanned)
  /\ IF lifecycle = None /\ ledger[o] = None /\ resv[o] = "reserved"
     THEN Release(o) ELSE UNCHANGED <<resv, faults>>
  /\ UNCHANGED <<ledger, pend, stage, tomb, expired, lifecycle, asked, told, world>>

Prepare(o) ==
  /\ At(o, "download")
  /\ IF lifecycle = None
     THEN lifecycle' = o /\ Goto(o, "prepare") /\ Quiet
     ELSE Reply(o, Unplanned) /\ UNCHANGED lifecycle
  /\ UNCHANGED <<files, faults, expired, asked, told, world>>

\* Mutant: the archive is staged although its reservation ran out.
StageArchive_Unreserved(o) ==
  /\ lifecycle = o /\ At(o, "prepare") /\ Collected
  /\ stage' = [stage EXCEPT ![o] = "partial"] /\ Goto(o, "inspect")
  /\ Quiet /\ UNCHANGED <<ledger, pend, resv, tomb, faults, expired, lifecycle, asked, told, world>>

(* The child is created, or the archive is refused before that.                   *)
StageArchive(o) ==
  /\ lifecycle = o /\ At(o, "prepare") /\ Collected
  /\ IF resv[o] # None /\ o \notin expired
     THEN /\ Quiet /\ UNCHANGED lifecycle
          /\ \/ stage' = [stage EXCEPT ![o] = "partial"] /\ Goto(o, "inspect")
             \/ UNCHANGED stage /\ Goto(o, "release")
     ELSE Leave(o, Unplanned) /\ UNCHANGED stage
  /\ UNCHANGED <<ledger, pend, resv, tomb, faults, expired, asked, told, world>>

(* The archive is rejected with its child in place.  The inspection of an archive  *)
(* that was written, synced and read back needs no fault to refuse it; a write or a *)
(* sync may fail at any point, the last one with archive and receipt complete.     *)
RejectArchive(o) ==
  /\ At(o, "inspect") /\ Goto(o, "release") /\ Quiet
  /\ \/ stage' = [stage EXCEPT ![o] = "archive"] /\ UNCHANGED faults
     \/ Fault /\ \E c \in Children : stage' = [stage EXCEPT ![o] = c]
  /\ UNCHANGED <<ledger, pend, resv, tomb, expired, lifecycle, asked, told, world>>

(* Whatever it left in the staging root, the rejected archive loses its            *)
(* reservation (prepare_inner).                                                   *)
ReleaseReservation(o) ==
  /\ At(o, "release") /\ Release(o) /\ Leave(o, Unplanned)
  /\ UNCHANGED <<ledger, pend, stage, tomb, expired, asked, told, world>>

SealArchive(o) ==
  /\ At(o, "inspect") /\ stage' = [stage EXCEPT ![o] = "exact"] /\ Goto(o, "seal")
  /\ Quiet /\ UNCHANGED <<ledger, pend, resv, tomb, faults, expired, lifecycle, asked, told, world>>

RecordStaged(o) ==
  /\ At(o, "seal")
  /\ \/ resv' = [resv EXCEPT ![o] = "staged"] /\ Goto(o, "write")
        /\ Quiet /\ UNCHANGED <<faults, lifecycle>>
     \/ Fault /\ Leave(o, Unplanned) /\ \E r \in {"reserved", "staged"} : resv' = [resv EXCEPT ![o] = r]
  /\ UNCHANGED <<ledger, pend, stage, tomb, expired, asked, told, world>>

RefusePlan(o) ==
  /\ At(o, "write") /\ Leave(o, Unplanned)
  /\ UNCHANGED <<files, faults, expired, asked, told, world>>

WriteLedger(o) ==
  /\ At(o, "write")
  /\ \/ ledger' = [ledger EXCEPT ![o] = Fresh(o)] /\ Goto(o, "drop")
        /\ Quiet /\ UNCHANGED <<faults, lifecycle>>
     \/ Fault /\ Leave(o, Unplanned) /\ \E l \in {Torn, Fresh(o)} : ledger' = [ledger EXCEPT ![o] = l]
  /\ UNCHANGED <<pend, resv, stage, tomb, expired, asked, told, world>>

DropReservation(o) ==
  /\ At(o, "drop")
  /\ \/ resv' = [resv EXCEPT ![o] = None] /\ told' = told \cup {o}
        /\ Leave(o, Planned) /\ UNCHANGED faults
     \/ Fault /\ Leave(o, Unplanned) /\ UNCHANGED told
        /\ \E r \in {None, resv[o]} : resv' = [resv EXCEPT ![o] = r]
  /\ UNCHANGED <<ledger, pend, stage, tomb, expired, asked, world>>

(* A removal seals the directory it finds, if it bears our marker.               *)
PlanRemoval(o) ==
  /\ o \in Removals /\ Unused(o) /\ lifecycle = None
  /\ lifecycle' = o /\ Goto(o, "plan")
  /\ Quiet /\ UNCHANGED <<files, faults, expired, told, world>>

\* Mutant: a removal is planned of whatever is found, be it nothing.
WriteRemoval_Unfound(o) ==
  /\ lifecycle = o /\ At(o, "plan") /\ Collected /\ ~Uncounted /\ Usage < Cap
  /\ ledger' = [ledger EXCEPT ![o] = Fresh(dir)] /\ told' = told \cup {o} /\ Leave(o, Planned)
  /\ UNCHANGED <<pend, resv, stage, tomb, faults, expired, asked, world>>

WriteRemoval(o) ==
  /\ lifecycle = o /\ At(o, "plan") /\ Collected /\ ~Uncounted
  /\ IF Usage >= Cap \/ dir \in {None, "foreign"}
     THEN Leave(o, Unplanned) /\ UNCHANGED <<ledger, told, faults>>
     ELSE \/ ledger' = [ledger EXCEPT ![o] = Fresh(dir)] /\ told' = told \cup {o}
             /\ Leave(o, Planned) /\ UNCHANGED faults
          \/ Fault /\ Leave(o, Unplanned) /\ UNCHANGED told
             /\ \E l \in {Torn, Fresh(dir)} : ledger' = [ledger EXCEPT ![o] = l]
  /\ UNCHANGED <<pend, resv, stage, tomb, expired, asked, world>>

Planning(o) ==
  \/ PlanInstall(o) \/ Reserve(o) \/ DownloadFails(o) \/ Prepare(o) \/ StageArchive(o)
  \/ RejectArchive(o) \/ ReleaseReservation(o) \/ SealArchive(o) \/ RecordStaged(o)
  \/ RefusePlan(o) \/ WriteLedger(o) \/ DropReservation(o) \/ PlanRemoval(o) \/ WriteRemoval(o)
  \/ (\E p \in Ids : Collect(o, p)) \/ CollectFails(o)
=============================================================================
