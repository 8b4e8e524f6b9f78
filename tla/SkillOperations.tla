--------------------------- MODULE SkillOperations ---------------------------
(* Requests on a confirmed Skill operation.  Apply consumes the confirmation and *)
(* performs both effects, continue performs the second one after an interrupted   *)
(* apply, reconcile reads back what an interrupted effect did.  Every step holds   *)
(* the operation lock; apply and continue also hold the lock of the Skill's name.  *)
EXTENDS SkillLifecycle

CONSTANT MaxEnv     \* bound: how many of the faults are changes made from outside

ASSUME EnvAssumption == MaxEnv \in Nat

plans == <<resv, stage, tomb, expired, lifecycle, asked, told>>
vars  == <<files, faults, expired, lifecycle, asked, told, run, answer, world>>

Install(o)  == o \in Installs
Busy        == \E p \in Ids : run[p].mode \in {"apply", "continue"}
Work1(o, at, mode, idx, to) == run' = [run EXCEPT ![o] = Run(at, mode, idx, to)]
Step(o, at, to) == Work1(o, at, run[o].mode, run[o].idx, to)

(* ------------------------------------------------------------------------- *)
(* Admission.  The ledger is loaded, and a pending successor promoted, before    *)
(* anything is decided.                                                          *)
(* ------------------------------------------------------------------------- *)
Admit(o, mode, idx) == Work1(o, "begin", mode, idx, "none") /\ Quiet

Request(o) ==
  /\ o \in told /\ run[o] = Idle /\ Promote(o)
  /\ UNCHANGED <<plans, world>>

(* A ledger that cannot be read may need recovery; one that is gone, or whose    *)
(* archive is, does not.                                                         *)
Unusable(o) ==
  \/ Loaded(o) = Torn /\ Reply(o, Failure)
  \/ Loaded(o) = None /\ Reply(o, Refused)
  \/ Loaded(o) \in Ledgers /\ Install(o) /\ stage[o] # "exact" /\ Reply(o, Refused)
Usable(o) == Loaded(o) \in Ledgers /\ (Install(o) => stage[o] = "exact")

(* A removal whose subject has gone answers as if its ledger might need recovery. *)
Missing(o) == ~Install(o) /\ dir = None

Apply(o) ==
  /\ Request(o) /\ UNCHANGED faults
  /\ \/ Unusable(o)
     \/ /\ Usable(o)
        /\ LET l == Loaded(o)
               in_place == Install(o) \/ dir = l.leaf
           IN IF l.consumed \/ o \in expired \/ Busy THEN Reply(o, Refused)
              ELSE IF in_place THEN Admit(o, "apply", 1)
              ELSE Reply(o, IF Missing(o) THEN Failure ELSE Refused)

\* Mutant: a verified first effect is taken as leave to go on with the second.
Continue_Unread(o) ==
  /\ Request(o) /\ UNCHANGED faults
  /\ \/ Unusable(o)
     \/ /\ Usable(o)
        /\ IF Busy \/ o \in expired \/ ~Continuable(Loaded(o)) THEN Reply(o, Refused)
           ELSE Admit(o, "continue", 2)

(* The directory under the name is what the plan is about.  A removal compares the *)
(* directory it sealed; an install compares source and content, so that the same   *)
(* package planned twice is not told apart (package_snapshot_matches_at).          *)
Bears(o, leaf) ==
  IF Install(o) THEN dir \in Installs /\ Package[dir] = Package[o] ELSE dir = leaf

(* What the first effect proved is no authority over something else under the name. *)
Continue(o) ==
  /\ Request(o) /\ UNCHANGED faults
  /\ \/ Unusable(o)
     \/ /\ Usable(o)
        /\ IF Busy \/ o \in expired \/ ~Continuable(Loaded(o)) THEN Reply(o, Refused)
           ELSE IF Bears(o, Loaded(o).leaf) THEN Admit(o, "continue", 2)
           ELSE Reply(o, IF Missing(o) THEN Failure ELSE Refused)

(* What is read back of an effect, as the state the ledger is to record.  Neither *)
(* a binding nor a move is ever declared failed from a readback; a readback that   *)
(* fails leaves the effect uncertain.                                             *)
Readback(o, i, leaf) ==
  LET proof(p) == IF p THEN "verified" ELSE "uncertain"
  IN IF Install(o) THEN IF i = 1 THEN IF Bears(o, leaf) THEN "verified" ELSE "failed"
                        ELSE proof(attached)
     ELSE IF i = 1 THEN proof(~attached)
     ELSE proof(dir = None /\ 2 \in done[o])

Reconcile(o) ==
  /\ Request(o)
  /\ \/ Unusable(o) /\ UNCHANGED faults
     \/ /\ Usable(o)
        /\ \A i \in 1..2 : ~InProgress(Loaded(o), i)
        /\ Reply(o, Refused) /\ UNCHANGED faults
     \/ /\ Usable(o)
        /\ \E i \in 1..2 :
             /\ InProgress(Loaded(o), i) /\ (i = 2 => ~InProgress(Loaded(o), 1))
             /\ Quiet
             /\ \/ Work1(o, "record", "reconcile", i, Readback(o, i, Loaded(o).leaf))
                   /\ UNCHANGED faults
                \/ Work1(o, "record", "reconcile", i, "uncertain") /\ Fault

(* ------------------------------------------------------------------------- *)
(* The intent, the effect, its record.                                           *)
(* ------------------------------------------------------------------------- *)
\* Mutant: the effect goes on although its intent could not be written.
Begin_Unwritten(o) ==
  /\ At(o, "begin")
  /\ \E ok \in BOOLEAN : Persist(o, Begun(ledger[o], run[o].idx), ok)
  /\ Step(o, "effect", "none") /\ Quiet
  /\ UNCHANGED <<plans, world>>

Begin(o) ==
  /\ At(o, "begin")
  /\ \/ Persist(o, Begun(ledger[o], run[o].idx), TRUE) /\ Step(o, "effect", "none")
        /\ Quiet
     \/ Persist(o, Begun(ledger[o], run[o].idx), FALSE) /\ Reply(o, Failure)
  /\ UNCHANGED <<plans, world>>

Effecting(o, i) ==
  /\ At(o, "effect") /\ run[o].idx = i
  /\ issued' = [issued EXCEPT ![o] = @ \cup {i}]
  /\ Quiet /\ UNCHANGED <<ledger, pend, plans, env>>
Happens(o, i) == done' = [done EXCEPT ![o] = @ \cup {i}]
Result(o, to) == Step(o, "record", to)
Uncertainly(o) == Step(o, "again", "uncertain")

(* The package is published by a rename that replaces nothing; the sync of the    *)
(* Skills root behind it may fail.                                               *)
Commit(o) ==
  /\ Install(o) /\ Effecting(o, 1) /\ UNCHANGED <<attached, late>>
  /\ \/ /\ dir = None /\ dir' = o /\ Happens(o, 1)
        /\ \/ Result(o, "verified") /\ UNCHANGED faults
           \/ Uncertainly(o) /\ Fault
     \/ /\ Result(o, "failed") /\ UNCHANGED <<dir, done>>
        /\ Fault \/ (dir # None /\ UNCHANGED faults)

\* Mutant: an unclear request counts as a failed one.
Bind_Definite(o, i, to) ==
  /\ Effecting(o, i) /\ UNCHANGED <<dir>>
  /\ \/ attached' = to /\ Happens(o, i) /\ Result(o, "verified") /\ UNCHANGED <<late, faults>>
     \/ /\ Result(o, "failed") /\ Fault
        /\ \/ UNCHANGED <<attached, done, late>>
           \/ attached' = to /\ Happens(o, i) /\ UNCHANGED late
           \/ late' = late \cup {o} /\ UNCHANGED <<attached, done>>

(* A request to Science is confirmed by reading the binding back; it fails for sure *)
(* before it is sent, or when Science answers it with an error and an attachment is   *)
(* then read back as absent; or it stays unclear: it was not done, it was, or it still *)
(* may be after the host has stopped waiting.                                      *)
Bind(o, i, to) ==
  /\ Effecting(o, i) /\ UNCHANGED <<dir>>
  /\ \/ attached' = to /\ Happens(o, i) /\ Result(o, "verified") /\ UNCHANGED <<late, faults>>
     \/ Result(o, "failed") /\ Fault /\ UNCHANGED <<attached, done, late>>
     \/ /\ Result(o, "uncertain") /\ Fault
        /\ \/ UNCHANGED <<attached, done, late>>
           \/ attached' = to /\ Happens(o, i) /\ UNCHANGED late
           \/ late' = late \cup {o} /\ UNCHANGED <<attached, done>>

Attach(o) == Install(o) /\ Bind(o, 2, TRUE)
Detach(o) == ~Install(o) /\ Bind(o, 1, FALSE)

(* The move into quarantine compares the directory under the name with the sealed *)
(* one it holds open.  A failed move of a directory still in place is a failure    *)
(* in apply, an open question in continue.                                       *)
Quarantine(o) ==
  LET leaf == ledger[o].leaf
  IN /\ ~Install(o) /\ Effecting(o, 2) /\ UNCHANGED <<attached, late>>
     /\ \/ /\ dir = leaf /\ dir' = None /\ Happens(o, 2)
           /\ \/ Result(o, "verified") /\ UNCHANGED faults
              \/ Uncertainly(o) /\ Fault
        \/ /\ dir = leaf /\ Fault /\ UNCHANGED <<dir, done>>
           /\ Result(o, IF run[o].mode = "apply" THEN "failed" ELSE "uncertain")
        \/ /\ dir # leaf /\ Result(o, "uncertain")
           /\ UNCHANGED <<dir, done, faults>>

\* Mutant: a record that could not be written is answered as if it had been.
Record_Assumed(o) ==
  LET next == Closed(ledger[o], run[o].idx, run[o].to)
  IN /\ At(o, "record")
     /\ \E ok \in BOOLEAN : Persist(o, next, ok)
     /\ IF run[o].mode = "apply" /\ run[o].idx = 1 /\ run[o].to = "verified"
        THEN Step(o, "next", "none") /\ Quiet
        ELSE Reply(o, Project(next))
     /\ UNCHANGED <<plans, world>>

Record(o) ==
  LET next     == Closed(ledger[o], run[o].idx, run[o].to)
      verified == run[o].to = "verified"
  IN /\ At(o, "record") /\ UNCHANGED <<plans, world>>
     /\ \/ /\ Persist(o, next, TRUE)
           /\ IF verified /\ run[o].mode = "apply" /\ run[o].idx = 1
              THEN Step(o, "next", "none") /\ Quiet
              ELSE Reply(o, Project(next))
        \/ /\ Persist(o, next, FALSE)
           /\ IF verified /\ run[o].mode # "reconcile"
              THEN Step(o, "again", "uncertain") /\ Quiet
              ELSE Reply(o, Failure)

(* After the record of the first effect a removal looks once more at the directory *)
(* it holds open: one whose content changed needs a new plan, one that was merely   *)
(* moved away does not show.                                                      *)
Next2(o) ==
  /\ At(o, "next")
  /\ \/ Work1(o, "begin", "apply", 2, "none") /\ Quiet
     \/ ~Install(o) /\ dir # ledger[o].leaf /\ Reply(o, Refused)
  /\ UNCHANGED <<ledger, pend, faults, plans, world>>

(* The effect took place, its record did not: one attempt to record the doubt, and *)
(* an answer from an immediate readback.                                          *)
Seen(o, i, leaf) ==
  CASE Install(o) /\ i = 1 -> Bears(o, leaf)
    [] Install(o) /\ i = 2 -> attached
    [] ~Install(o) /\ i = 1 -> ~attached
    [] OTHER -> dir = None /\ 2 \in done[o]
RecordAgain(o) ==
  LET i == run[o].idx
      doubt == Closed(ledger[o], i, "uncertain")
      says == IF Seen(o, i, ledger[o].leaf) THEN "true" ELSE "false"
  IN /\ At(o, "again") /\ UNCHANGED <<plans, world>>
     /\ \E ok \in BOOLEAN : Persist(o, doubt, ok)
     /\ \E s \in {says, "unknown"} : Reply(o, Observed(doubt, i, s))

(* ------------------------------------------------------------------------- *)
(* What the host does not do itself.                                             *)
(* ------------------------------------------------------------------------- *)
(* A request nobody waits for any more takes effect.                             *)
LateArrives(o) ==
  /\ o \in late /\ late' = late \ {o}
  /\ attached' = Install(o)
  /\ Happens(o, IF Install(o) THEN 2 ELSE 1)
  /\ Quiet /\ UNCHANGED <<files, faults, expired, lifecycle, asked, told, run, dir, issued, env>>

Expire(o) ==
  /\ (resv[o] # None \/ ledger[o] # None) /\ o \notin expired
  /\ expired' = expired \cup {o}
  /\ Quiet /\ UNCHANGED <<files, faults, lifecycle, asked, told, run, world>>

(* Somebody deletes or replaces the Skill by hand, or rebinds it in Science.     *)
Outside ==
  /\ Fault /\ env < MaxEnv /\ env' = env + 1
  /\ \/ dir' \in {None, "foreign"} \ {dir} /\ UNCHANGED attached
     \/ attached' = ~attached /\ UNCHANGED dir
  /\ Quiet /\ UNCHANGED <<files, expired, lifecycle, asked, told, run, late, issued, done>>

(* The host dies; flocks go with it.  A write in flight may leave its pending      *)
(* file; a request in flight may still reach Science.                             *)
Writing(o) == At(o, "begin") \/ At(o, "record") \/ At(o, "again")
InFlight(o) ==
  CASE At(o, "begin") -> Begun(ledger[o], run[o].idx)
    [] At(o, "record") -> Closed(ledger[o], run[o].idx, run[o].to)
    [] OTHER -> Closed(ledger[o], run[o].idx, "uncertain")
Crash ==
  /\ Fault /\ \E o \in Ids : run[o] # Idle
  /\ run' = [o \in Ids |-> Idle] /\ lifecycle' = None
  /\ Quiet
  /\ \/ UNCHANGED <<pend, late, issued>>
     \/ /\ \E o \in Ids : /\ Writing(o) /\ Writable(o, InFlight(o))
                          /\ \E f \in {Torn, InFlight(o)} : pend' = [pend EXCEPT ![o] = f]
        /\ UNCHANGED <<late, issued>>
     \/ /\ \E o \in Ids : /\ At(o, "effect") /\ run[o].idx = (IF Install(o) THEN 2 ELSE 1)
                          /\ late' = late \cup {o}
                          /\ issued' = [issued EXCEPT ![o] = @ \cup {run[o].idx}]
        /\ UNCHANGED pend
  /\ UNCHANGED <<ledger, resv, stage, tomb, expired, asked, told, dir, attached, done, env>>

Init ==
  /\ ledger = [o \in Ids |-> None] /\ pend = [o \in Ids |-> None]
  /\ resv = [o \in Ids |-> None] /\ tomb = [o \in Ids |-> None]
  /\ stage = [o \in Ids |-> "none"]
  /\ expired = {} /\ lifecycle = None /\ asked = {} /\ told = {}
  /\ run = [o \in Ids |-> Idle] /\ answer = None
  /\ dir \in {None, "legacy"} /\ attached = (dir = "legacy")
  /\ late = {}
  /\ issued = [o \in Ids |-> {}] /\ done = [o \in Ids |-> {}]
  /\ faults = 0 /\ env = 0

Working(o) ==
  \/ Apply(o) \/ Continue(o) \/ Reconcile(o) \/ Begin(o) \/ Commit(o) \/ Attach(o)
  \/ Detach(o) \/ Quarantine(o) \/ Record(o) \/ Next2(o) \/ RecordAgain(o)
Next ==
  \/ \E o \in Ids : Planning(o) \/ Working(o) \/ LateArrives(o) \/ Expire(o)
  \/ Outside \/ Crash

Spec == Init /\ [][Next]_vars

(* ------------------------------------------------------------------------- *)
(* Properties.                                                                 *)
(* ------------------------------------------------------------------------- *)
(* Types, and what they leave no room for: a tombstone, a pending file or a       *)
(* staged record only where the protocol writes one.                             *)
TypeOK ==
  /\ ledger \in [Ids -> Ledgers \cup {None, Torn}] /\ pend \in [Ids -> Ledgers \cup {None, Torn}]
  /\ resv \in [Ids -> {None, Torn, "reserved", "staged"}]
  /\ stage \in [Ids -> Children \cup {"none"}]
  /\ tomb \in [Ids -> {None, Torn, "ledger", "reservation"}]
  /\ expired \in SUBSET Ids /\ asked \in SUBSET Ids /\ told \in SUBSET asked
  /\ answer \in [of : Ids, says : Answers] \cup {None} /\ late \in SUBSET Ids
  /\ lifecycle \in Ids \cup {None} /\ dir \in Leaves \cup {None}
  /\ \A o \in Ids : /\ run[o].mode \in Modes /\ run[o].idx \in 0..2
                    /\ issued[o] \in SUBSET (1..2) /\ done[o] \in SUBSET (1..2)
                    /\ o \in Removals => resv[o] = None /\ stage[o] = "none"
                    /\ pend[o] # None => ledger[o] \in Ledgers
  /\ attached \in BOOLEAN /\ faults \in 0..MaxFaults /\ env \in 0..MaxEnv

(* No effect reaches the file system or Science twice, or without a durable       *)
(* intent behind it, or before the one it follows is verified, whatever faults,    *)
(* crashes and retries came before (begin_effect, operation.rs).                  *)
EffectsOnce ==
  \A o \in Ids :
    /\ At(o, "effect") => /\ run[o].idx \notin issued[o]
                          /\ ledger[o].consumed /\ InProgress(ledger[o], run[o].idx)
                          /\ run[o].idx = 2 => Verified(ledger[o], 1)
    /\ \A i \in 1..2 : (ledger[o] \in Ledgers /\ ledger[o].eff[i] = Untouched) => i \notin issued[o]

(* Science is asked to bind only the package this operation planned, at least as   *)
(* far as the request could see; only the directory the plan sealed is moved, and   *)
(* only after its binding was read back as gone (continue_apply,                   *)
(* quarantine_owned_skill_at).                                                    *)
ActsOnSealedSubject ==
  [][\A o \in Ids :
       /\ (Install(o) /\ At(o, "begin") /\ run'[o].at = "effect" /\ run[o].idx = 2 /\ env' = 0)
            => Bears(o, o)
       /\ (~Install(o) /\ 2 \in done'[o] \ done[o])
            => dir = ledger[o].leaf /\ Verified(ledger[o], 1)]_vars

\* The effect that moves a directory; the other one asks Science.
OnDisk(o, i) == Install(o) <=> i = 1

(* It took place: the move for this removal, the package for some install of it.   *)
TookPlace(o, i) ==
  \E p \in Ids : i \in done[p] /\ (p = o \/ (Install(o) /\ Install(p) /\ Package[p] = Package[o]))

(* What the ledger settles is so: a verified package was committed by an install of *)
(* that package, a verified move took place, and a failed effect neither took place *)
(* nor still can (the package may have been removed by hand since), although it was  *)
(* recorded after faults, late requests or a readback by another process.            *)
RecordTruth ==
  \A o \in Ids : ledger[o] \in Ledgers =>
    \A i \in 1..2 :
      /\ (ledger[o].eff[i].state = "verified" /\ OnDisk(o, i)) => TookPlace(o, i)
      /\ ledger[o].eff[i].state = "failed" =>
           IF Install(o) /\ i = 1 THEN dir # o
           ELSE i \notin done[o] /\ (~OnDisk(o, i) => o \notin late)

(* A final answer says "false" of no effect of its operation that took place, "true" *)
(* of no package that no install committed and no move that did not happen; and an   *)
(* answer to a request on the ledger that asks for no recovery, other than a         *)
(* refusal, leaves no requested effect open (project, operation_error).             *)
AnswersHonest ==
  [][\A o \in Ids : (answer' # None /\ answer'.of = o) =>
       LET a == answer'.says
           says(i) == IF i = 1 THEN a.first ELSE a.second
       IN /\ a.kind = "final" => \A i \in 1..2 :
               /\ (says(i) = "true" /\ OnDisk(o, i)) => TookPlace(o, i)
               /\ says(i) = "false" =>
                    IF Install(o) /\ i = 1 THEN dir # o ELSE i \notin done[o]
          /\ (a.kind \in {"final", "observed", "error"} /\ ~a.recovery) =>
               \A i \in issued[o] : ledger'[o] \in Ledgers /\ ~InProgress(ledger'[o], i)]_vars

(* Operations that hold a reservation or a ledger never exceed the bound, whatever *)
(* expires, is collected or is retried between the two sections of a plan; and the   *)
(* archive of a plan that was answered never outlives its ledger (lifecycle_usage,   *)
(* consume_exact_reservation, delete_expired_install_after_tombstone).              *)
CapacityHolds ==
  /\ Cardinality({o \in Ids : resv[o] # None \/ ledger[o] # None}) <= Cap
  /\ \A o \in told : stage[o] # "none" => ledger[o] # None

(* A ledger goes only when it has nothing left to recover or continue: no effect  *)
(* open and none to continue with, nobody at work on it, no successor waiting to be  *)
(* promoted, its archive and reservation gone before it (gc_eligible_terminal).  The *)
(* record of a sealed archive that has no ledger yet goes only after the archive.    *)
RecoveryKept ==
  [][\A o \in Ids :
       /\ (ledger[o] \in Ledgers /\ ledger'[o] \notin Ledgers) =>
            /\ o \in expired /\ run[o].mode = "none" /\ stage[o] = "none" /\ resv[o] = None
            /\ pend[o] = None /\ ~Continuable(ledger[o])
            /\ \A i \in 1..2 : ~InProgress(ledger[o], i)
       /\ (resv[o] = "staged" /\ resv'[o] # "staged" /\ ledger'[o] = None)
            => o \in expired /\ stage[o] = "none"]_vars

(* A request does not answer that its first effect did not happen when its ledger    *)
(* records that effect as verified: "`None` is an explicit unknown, never a           *)
(* convenient `false`" (SkillOperationFinalResponseV1, operation.rs:654).            *)
NoConvenientFalse ==
  [][\A o \in Ids :
       (answer' # None /\ answer'.of = o /\ run[o].mode # "none" /\ Verified(ledger[o], 1))
         => answer'.says.first # "false"]_vars

(* Every child of the staging root has its durable owner: a reserved record "can    *)
(* only be released when the deterministic child name is absent" (operation.rs:3707- *)
(* 3708), for "deleting their reservation by name would make an unverified staging   *)
(* child invisible and violate the capacity invariant" (operation.rs:801-803).       *)
ChildrenOwned == \A o \in Ids : stage[o] # "none" => resv[o] # None \/ ledger[o] # None
=============================================================================
