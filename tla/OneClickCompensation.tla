------------------------ MODULE OneClickCompensation ------------------------
(***************************************************************************)
(* The durable compensation of a failed one-click run: the live funnel     *)
(* (cold/compensation.rs), the fresh replay of an interrupted one          *)
(* (compensation_replay.rs), the journal they share in config.json         *)
(* (transaction.rs, config.rs), the registered recovery snapshot they      *)
(* consume (recovery.rs, pending_cleanup.rs) and the flock that serializes *)
(* them with provider authentication (config.rs).                          *)
(*                                                                         *)
(* One action is one durable write or one external effect, so a process    *)
(* may crash between any two of them.  The lock is released by a crash;    *)
(* config.json, the snapshot and the outside world survive it.             *)
(***************************************************************************)
EXTENDS Naturals

CONSTANTS Procs,      \* Desktop processes that may run a one-click command
          None,       \* "no exclusive lease holder"
          InitialPlans, \* the failed runs considered (a subset of Plans)
          MaxFaults   \* bound on crashes and on checkpoint writes that fail

ASSUME NoneAssumption == None \notin Procs
ASSUME FaultAssumption == MaxFaults \in Nat

-----------------------------------------------------------------------------
(* The fixed plan of five steps, in journal order. *)
Steps == 1..5
ScienceCleanup      == 1
SshCleanup          == 2
AuthorityRestore    == 3
PriorScienceRestart == 4
SnapshotCleanup     == 5

SkipCauses == {"no_candidate", "no_prior", "cross_runtime",
               "blocked_science", "blocked_authority", "preserved"}
Terminal   == {"succeeded", "failed"} \cup SkipCauses
StepStates == {"pending", "in_progress"} \cup Terminal

\* runtime_compensation: absent, or a V2 record with its step states.
Journals  == [state  : {"none", "in_progress", "incomplete"},
              steps  : [Steps -> StepStates],
              failed : SUBSET Steps]
NoJournal == [state |-> "none", steps |-> [s \in Steps |-> "pending"],
              failed |-> {}]

(* What the two private manifests freeze before the journal is published. *)
Plans == [candidate : {"none", "exposed", "confirmed", "unproven"},
          prior     : BOOLEAN,   \* a prior Science was stopped by this run
          cross     : BOOLEAN,   \* candidate ran on another runtime identity
          gateway   : {"untouched", "managed", "absent"},
          priorGateway : BOOLEAN, \* a Gateway child existed at capture
          sameRecord   : BOOLEAN] \* captured business record = active record

VARIABLES
  \* durable, in the config directory
  journal,     \* config.runtime_compensation
  business,    \* config.runtime_transaction: "active" or "captured"
  manifest,    \* the private compensation replay manifest exists
  registry,    \* the pending-cleanup manifest and its disposition
  snapshot,    \* the registered snapshot root on disk
  plan,        \* content of the private manifests
  \* the outside world
  candidate,   \* the Science process this run exposed
  ssh,         \* the managed SSH stub
  trees,       \* the protected authority trees
  gateway,     \* the listener on the Gateway port
  prior,       \* the prior Science: stopped, or its launch id
  \* the flock on the compensation fence
  exHolder, shHolders,
  \* per process
  pc, role,
  viewJ, viewB,  \* OneClickJournalProgress::Compensating
  result,        \* outcome of the effect in hand
  owned,         \* AppState names a Science (runtime, child, URL, stop proof)
  faults

durable == <<journal, business, manifest, registry, snapshot, plan>>
world   == <<candidate, ssh, trees, gateway, prior>>
locks   == <<exHolder, shHolders>>
local   == <<role, viewJ, viewB, result, owned>>
vars    == <<durable, world, locks, pc, local, faults>>

PCs == {"down", "idle", "auth_wait", "auth_check", "auth",
        "persist", "publish", "live_wait", "replay_wait", "load",
        "intent", "effect", "trees", "config", "regateway",
        "discard", "unregister", "outcome", "finish"}

\* Program points reached only while holding the exclusive lease.
Exclusive == {"load", "intent", "effect", "trees", "config", "regateway",
              "discard", "unregister", "outcome", "finish"}
\* Program points between a step's durable intent and its durable outcome.
Effecting == {"effect", "trees", "config", "regateway", "discard",
              "unregister", "outcome"}

TypeOK ==
  /\ journal \in Journals
  /\ business \in {"active", "captured"}
  /\ manifest \in BOOLEAN
  /\ registry \in {"active_recovery", "cleanup_only", "empty"}
  /\ snapshot \in {"present", "tombstone", "missing"}
  /\ plan \in Plans
  /\ candidate \in {"running", "stopped"}
  /\ ssh \in {"candidate", "clean"}
  /\ trees \in {"candidate", "mixed", "restored"}
  /\ gateway \in {"candidate", "none", "prior"}
  /\ prior \in {"stopped", "durable_id", "fresh_id"}
  /\ exHolder \in Procs \cup {None}
  /\ shHolders \subseteq Procs
  /\ pc \in [Procs -> PCs]
  /\ role \in [Procs -> {"live", "replay"}]
  /\ viewJ \in [Procs -> Journals]
  /\ viewB \in [Procs -> {"active", "captured"}]
  /\ result \in [Procs -> Terminal \cup {"none"}]
  /\ owned \in [Procs -> BOOLEAN]
  /\ faults \in 0..MaxFaults

-----------------------------------------------------------------------------
(* Operators on the journal. *)

\* Mutant: the captured record is lost instead of restored.
Captured_Lost == IF plan.sameRecord THEN "active" ELSE "none"

Captured == IF plan.sameRecord THEN "active" ELSE "captured"

Open(j) == j.state = "in_progress"

\* Mutant: a step already in progress is not picked up again.
IsNext_PendingOnly(j, s) == /\ j.steps[s] = "pending"
                            /\ \A t \in Steps : t < s => j.steps[t] \in Terminal

\* decide_compensation_replay: the first step that is not terminal.
IsNext(j, s) == /\ j.steps[s] \notin Terminal
                /\ \A t \in Steps : t < s => j.steps[t] \in Terminal

AllTerminal(j) == \A s \in Steps : j.steps[s] \in Terminal

WithStep(j, s, outcome) == [j EXCEPT !.steps[s] = outcome]

FailedSteps(j) == {s \in Steps : j.steps[s] = "failed"}

\* Mutant: any step in the right state may move.
CanonicalAt_AnyOrder(j, s, from) == Open(j) /\ j.steps[s] = from

\* update_one_click_compensation_step: canonical progress of an open journal.
CanonicalAt(j, s, from) ==
  /\ Open(j)
  /\ j.steps[s] = from
  /\ \A t \in Steps : t < s => j.steps[t] \in Terminal
  /\ \A t \in Steps : t > s => j.steps[t] = "pending"

\* Mutant: only the business record is compared.
CasHolds_BusinessOnly(p) == business = viewB[p]

\* The complete-record compare of both records a checkpoint performs.
CasHolds(p) == journal = viewJ[p] /\ business = viewB[p]

\* Mutants: the SSH step, or the prior Science, is left out of the decision.
AuthoritiesRestored_NoSsh(j) ==
  /\ j.steps[ScienceCleanup] \in {"succeeded", "no_candidate"}
  /\ j.steps[AuthorityRestore] = "succeeded"
  /\ j.steps[PriorScienceRestart] \in {"succeeded", "no_prior", "cross_runtime"}

AuthoritiesRestored_NoPrior(j) ==
  /\ j.steps[ScienceCleanup] \in {"succeeded", "no_candidate"}
  /\ j.steps[SshCleanup] = "succeeded"
  /\ j.steps[AuthorityRestore] = "succeeded"

\* CompensationOutcome::authorities_restored
AuthoritiesRestored(j) ==
  /\ j.steps[ScienceCleanup] \in {"succeeded", "no_candidate"}
  /\ j.steps[SshCleanup] = "succeeded"
  /\ j.steps[AuthorityRestore] = "succeeded"
  /\ j.steps[PriorScienceRestart] \in {"succeeded", "no_prior", "cross_runtime"}

ScienceFailed(j) == j.steps[ScienceCleanup] = "failed"

-----------------------------------------------------------------------------
(* The flock: publication and replay take it exclusively, provider auth     *)
(* shared.  Closing the descriptor, or dying, releases it.                  *)

LockFree == exHolder = None /\ shHolders = {}
\* Mutant: the lease is taken without waiting for its holder.
TakeExclusive_NoWait(p) == exHolder' = p /\ UNCHANGED shHolders

TakeExclusive(p) == LockFree /\ exHolder' = p /\ UNCHANGED shHolders
Release(p) == /\ exHolder' = IF exHolder = p THEN None ELSE exHolder
              /\ shHolders' = shHolders \ {p}

Goto(p, l) == pc' = [pc EXCEPT ![p] = l]

\* The locals of a command vanish when it returns; AppState does not.
DropLocals(p) ==
  /\ role' = [role EXCEPT ![p] = "replay"]
  /\ viewJ' = [viewJ EXCEPT ![p] = NoJournal]
  /\ viewB' = [viewB EXCEPT ![p] = "active"]
  /\ result' = [result EXCEPT ![p] = "none"]

\* A command returns: its lease guard is dropped with its locals.
Return(p) == Release(p) /\ Goto(p, "idle") /\ DropLocals(p)

\* It returns without having changed anything outside itself.
Leave(p) == Return(p) /\ UNCHANGED <<durable, world, owned>>

-----------------------------------------------------------------------------
(* The failed run: one process holds the captured transaction and is about  *)
(* to compensate; every other process is idle.                              *)

\* cross_runtime_environment needs a prior recipe and an exposed candidate.
PossiblePlans ==
  {q \in Plans : q.cross => q.prior /\ q.candidate # "none"}

Init ==
  /\ plan \in InitialPlans \cap PossiblePlans
  /\ journal = NoJournal
  /\ business = "active"
  /\ manifest = FALSE
  /\ registry = "active_recovery"
  /\ snapshot = "present"
  /\ candidate \in IF plan.candidate # "none"
                   THEN {"running", "stopped"} ELSE {"stopped"}
  /\ ssh = "candidate"
  /\ trees = "candidate"
  /\ gateway = IF plan.gateway = "managed" THEN "candidate" ELSE "none"
  /\ prior = "stopped"
  /\ exHolder = None
  /\ shHolders = {}
  /\ \E p \in Procs :
       /\ pc = [q \in Procs |-> IF q = p THEN "persist" ELSE "idle"]
       /\ role = [q \in Procs |-> IF q = p THEN "live" ELSE "replay"]
       /\ \E b \in BOOLEAN : owned = [q \in Procs |-> q = p /\ b]
  /\ viewJ = [p \in Procs |-> NoJournal]
  /\ viewB = [p \in Procs |-> "active"]
  /\ result = [p \in Procs |-> "none"]
  /\ faults = 0

-----------------------------------------------------------------------------
(* Live funnel, up to the first step.                                       *)

\* The private manifest is written before the journal that points to it.
PersistManifest(p) ==
  /\ pc[p] = "persist"
  /\ manifest' = TRUE
  /\ Goto(p, "publish")
  /\ UNCHANGED <<journal, business, registry, snapshot, plan, world, locks,
                 local, faults>>

\* Mutant: the journal is published although its manifest was not written.
PersistFails_Ignored(p) ==
  /\ pc[p] = "persist"
  /\ Goto(p, "publish")
  /\ UNCHANGED <<durable, world, locks, local, faults>>

\* An unverified ticket, a Gateway identity mismatch or an I/O error.
PersistFails(p) ==
  /\ pc[p] = "persist"
  /\ Leave(p)
  /\ UNCHANGED faults

\* Publication holds the exclusive lease only for its own write.
PublishJournal(p) ==
  /\ pc[p] = "publish"
  /\ LockFree
  /\ journal = NoJournal /\ business = "active"
  /\ journal' = [NoJournal EXCEPT !.state = "in_progress"]
  /\ viewJ' = [viewJ EXCEPT ![p] = journal']
  /\ viewB' = [viewB EXCEPT ![p] = business]
  /\ Goto(p, "live_wait")
  /\ UNCHANGED <<business, manifest, registry, snapshot, plan, world, locks,
                 role, result, owned, faults>>

\* The lease is taken again for the effects: a replay may come in between.
TakeLiveLease(p) ==
  /\ pc[p] = "live_wait"
  /\ TakeExclusive(p)
  /\ Goto(p, "intent")
  /\ UNCHANGED <<durable, world, local, faults>>

-----------------------------------------------------------------------------
(* Entry of a one-click command: replay first, then provider auth under the *)
(* shared lease, with the journal looked at again once the lease is held.   *)

EnterCommand(p) ==
  /\ pc[p] = "idle"
  /\ Goto(p, IF journal.state = "none" THEN "auth_wait" ELSE "replay_wait")
  /\ UNCHANGED <<durable, world, locks, local, faults>>

TakeAuthLease(p) ==
  /\ pc[p] = "auth_wait"
  /\ exHolder = None
  /\ shHolders' = shHolders \cup {p}
  /\ Goto(p, "auth_check")
  /\ UNCHANGED <<exHolder, durable, world, local, faults>>

\* Mutant: the journal is not looked at again under the lease.
RecheckBeforeAuth_Skipped(p) ==
  /\ pc[p] = "auth_check"
  /\ Goto(p, "auth")
  /\ UNCHANGED <<durable, world, locks, local, faults>>

RecheckBeforeAuth(p) ==
  /\ pc[p] = "auth_check"
  /\ IF journal.state = "none"
     THEN Goto(p, "auth") /\ UNCHANGED <<durable, world, locks, local>>
     ELSE Leave(p)
  /\ UNCHANGED faults

FinishAuth(p) ==
  /\ pc[p] = "auth"
  /\ Leave(p)
  /\ UNCHANGED faults

-----------------------------------------------------------------------------
(* Fresh replay: one step per pass, everything re-read under the lease.     *)

TakeReplayLease(p) ==
  /\ pc[p] = "replay_wait"
  /\ TakeExclusive(p)
  /\ Goto(p, "load")
  /\ UNCHANGED <<durable, world, local, faults>>

\* require_durable_science_quiescence
Quiescent(p) == ~owned[p] /\ candidate = "stopped" /\ prior = "stopped"

\* What must be readable before step s may be replayed.
Replayable(p, s) ==
  /\ s # SnapshotCleanup => manifest /\ snapshot = "present"
  /\ s = AuthorityRestore => Quiescent(p)

\* replay_progress: the business record this pass expects to find.
ExpectedBusiness(j) ==
  IF j.steps[AuthorityRestore] = "in_progress" THEN "active" ELSE business

LoadStep(p) ==
  /\ pc[p] = "load"
  /\ Open(journal)
  /\ viewJ' = [viewJ EXCEPT ![p] = journal]
  /\ viewB' = [viewB EXCEPT ![p] = ExpectedBusiness(journal)]
  /\ role' = [role EXCEPT ![p] = "replay"]
  /\ result' = [result EXCEPT ![p] = "none"]
  /\ \/ /\ AllTerminal(journal)
        /\ Goto(p, "finish")
     \/ \E s \in Steps :
          /\ IsNext(journal, s)
          /\ Replayable(p, s)
          /\ Goto(p, IF journal.steps[s] = "pending" THEN "intent" ELSE "effect")
  /\ UNCHANGED <<durable, world, locks, owned, faults>>

\* Nothing to replay, an incomplete journal, or a step that is not replayable.
RefuseReplay(p) ==
  /\ pc[p] = "load"
  /\ \/ ~Open(journal)
     \/ \E s \in Steps : IsNext(journal, s) /\ ~Replayable(p, s)
  /\ Leave(p)
  /\ UNCHANGED faults

-----------------------------------------------------------------------------
(* Durable intent and durable outcome of one step.                          *)

BeginStep(p) ==
  /\ pc[p] = "intent"
  /\ CasHolds(p)
  /\ \E s \in Steps :
       /\ CanonicalAt(viewJ[p], s, "pending")
       /\ journal' = WithStep(viewJ[p], s, "in_progress")
  /\ viewJ' = [viewJ EXCEPT ![p] = journal']
  /\ result' = [result EXCEPT ![p] = "none"]
  /\ Goto(p, "effect")
  /\ UNCHANGED <<business, manifest, registry, snapshot, plan, world, locks,
                 role, viewB, owned, faults>>

\* finish_one_click_authority_restore_step: the one step that may find, and
\* then adopts, the restored business record.
OutcomeCas(p, s) ==
  IF s = AuthorityRestore
  THEN /\ journal = viewJ[p]
       /\ viewB[p] = "active"
       /\ \/ business = Captured
          \/ result[p] # "succeeded" /\ business = viewB[p]
  ELSE CasHolds(p)

\* The live funnel goes on in the same pass; a failed Science cleanup ends it.
AfterOutcome(s, outcome) ==
  IF s = SnapshotCleanup \/ (s = ScienceCleanup /\ outcome = "failed")
  THEN "finish" ELSE "intent"

FinishStep(p) ==
  /\ pc[p] = "outcome"
  /\ \E s \in Steps :
       /\ CanonicalAt(viewJ[p], s, "in_progress")
       /\ OutcomeCas(p, s)
       /\ journal' = WithStep(viewJ[p], s, result[p])
       /\ IF role[p] = "replay"
          THEN Return(p)
          ELSE /\ Goto(p, AfterOutcome(s, result[p]))
               /\ viewJ' = [viewJ EXCEPT ![p] = journal']
               /\ viewB' = [viewB EXCEPT ![p] = business]
               /\ UNCHANGED <<locks, role, result>>
  /\ UNCHANGED <<business, manifest, registry, snapshot, plan, world, owned,
                 faults>>

\* finish_one_click_compensation: clear the journal, or close it as incomplete.
Finish(p) ==
  /\ pc[p] = "finish"
  /\ CasHolds(p)
  /\ Open(viewJ[p])
  /\ \A s \in Steps : viewJ[p].steps[s] # "in_progress"
  /\ FailedSteps(viewJ[p]) = {} => AllTerminal(viewJ[p])
  /\ journal' = IF FailedSteps(viewJ[p]) = {}
                THEN NoJournal
                ELSE [viewJ[p] EXCEPT !.state = "incomplete",
                                      !.failed = FailedSteps(viewJ[p])]
  /\ Return(p)
  /\ UNCHANGED <<business, manifest, registry, snapshot, plan, world, owned,
                 faults>>

\* A checkpoint whose compare fails: the process stops all further effects.
LoseCheckpoint(p) ==
  /\ \/ pc[p] = "publish" /\ ~(journal = NoJournal /\ business = "active")
     \/ pc[p] \in {"intent", "finish"} /\ ~CasHolds(p)
     \/ /\ pc[p] = "outcome"
        /\ \E s \in Steps : /\ CanonicalAt(viewJ[p], s, "in_progress")
                            /\ ~OutcomeCas(p, s)
  /\ Leave(p)
  /\ UNCHANGED faults

-----------------------------------------------------------------------------
(* Effects.  Each runs between the intent and the outcome of its step and   *)
(* leaves what it observed in result[p].                                    *)

At(p, s) == pc[p] = "effect" /\ viewJ[p].steps[s] = "in_progress"

Report(p, outcome) ==
  /\ result' = [result EXCEPT ![p] = outcome]
  /\ Goto(p, "outcome")

\* A candidate whose exit was confirmed before.  A receipt file it left behind
\* fails the live check; the replay stops whatever still has a receipt.
Reconfirmed(p) ==
  (IF candidate = "stopped" THEN {"succeeded", "failed"} ELSE {"failed"})
    \cup (IF role[p] = "replay" THEN {"none"} ELSE {})

\* The outcomes a step can get without any effect, "none" if it may run.
Decisions(p, s) ==
  LET j == viewJ[p] IN
  CASE s = ScienceCleanup ->
         CASE plan.candidate = "unproven"  -> {"failed"}
           [] plan.candidate = "none"      -> {"no_candidate"}
           [] plan.candidate = "confirmed" -> Reconfirmed(p)
           [] OTHER -> {"none"}
    [] s = SnapshotCleanup ->
         IF AuthoritiesRestored(j) THEN {"none"} ELSE {"preserved"}
    [] OTHER ->
         IF ScienceFailed(j) THEN {"blocked_science"}
         ELSE IF s # PriorScienceRestart THEN {"none"}
         ELSE IF j.steps[AuthorityRestore] # "succeeded"
              THEN IF role[p] = "live" /\ plan.cross
                   THEN {"cross_runtime"} ELSE {"blocked_authority"}
         ELSE IF plan.cross THEN {"cross_runtime"}
         ELSE IF plan.prior THEN {"none"} ELSE {"no_prior"}

DecideStep(p) ==
  /\ \E s \in Steps : /\ At(p, s)
                      /\ \E o \in Decisions(p, s) \ {"none"} : Report(p, o)
  /\ UNCHANGED <<durable, world, locks, role, viewJ, viewB, owned, faults>>

Runs(p, s) == At(p, s) /\ "none" \in Decisions(p, s)

(* Step 1: the exact stop of the exposed candidate.                         *)

\* Mutant: the exit of the candidate is reported without being observed.
StopCandidate_Unverified(p) ==
  /\ Runs(p, ScienceCleanup)
  /\ candidate = "running"
  /\ owned' = [owned EXCEPT ![p] = TRUE]
  /\ Report(p, "succeeded")
  /\ UNCHANGED <<durable, world, locks, role, viewJ, viewB, faults>>

\* The stop publishes science_confirmed_stopped in this process.
StopCandidate(p) ==
  /\ Runs(p, ScienceCleanup)
  /\ candidate = "running"
  /\ candidate' = "stopped"
  /\ owned' = [owned EXCEPT ![p] = TRUE]
  /\ Report(p, "succeeded")
  /\ UNCHANGED <<durable, ssh, trees, gateway, prior, locks, role, viewJ,
                 viewB, faults>>

\* A candidate that is no longer listening has no receipt to stop it by.
StopCandidateFails(p) ==
  /\ Runs(p, ScienceCleanup)
  /\ candidate' \in {candidate, "stopped"}
  /\ \E b \in BOOLEAN : /\ owned[p] => b
                       /\ owned' = [owned EXCEPT ![p] = b]
  /\ Report(p, "failed")
  /\ UNCHANGED <<durable, ssh, trees, gateway, prior, locks, role, viewJ,
                 viewB, faults>>

(* Step 2: the managed SSH stub goes back to its before-image.              *)

CompensateSsh(p) ==
  /\ Runs(p, SshCleanup)
  /\ ssh' = "clean"
  /\ Report(p, "succeeded")
  /\ UNCHANGED <<durable, candidate, trees, gateway, prior, locks, role, viewJ,
                 viewB, owned, faults>>

CompensateSshFails(p) ==
  /\ Runs(p, SshCleanup)
  /\ ssh' \in {ssh, "clean"}
  /\ Report(p, "failed")
  /\ UNCHANGED <<durable, candidate, trees, gateway, prior, locks, role, viewJ,
                 viewB, owned, faults>>

(* Step 3: candidate Gateway, authority trees, config, and (live only) the  *)
(* prior Gateway and AppState.                                              *)

\* A replay stops only a listener with the frozen health identity.
StopCandidateGateway(p) ==
  /\ Runs(p, AuthorityRestore)
  /\ role[p] = "replay" =>
       /\ Quiescent(p)
       /\ plan.gateway = "managed" => gateway # "prior"
       /\ plan.gateway = "absent" => gateway = "none"
  /\ gateway' = IF plan.gateway = "untouched" THEN gateway ELSE "none"
  /\ Goto(p, "trees")
  /\ UNCHANGED <<durable, candidate, ssh, trees, prior, locks, local, faults>>

RestoreRefused(p) ==
  /\ Runs(p, AuthorityRestore)
  /\ Report(p, "failed")
  /\ UNCHANGED <<durable, world, locks, role, viewJ, viewB, owned, faults>>

\* Every tree is removed and copied back from the snapshot.
RestoreTrees(p) ==
  /\ pc[p] = "trees"
  /\ IF trees # "mixed"
     THEN trees' = "mixed" /\ UNCHANGED pc
     ELSE trees' = "restored" /\ Goto(p, "config")
  /\ UNCHANGED <<durable, candidate, ssh, gateway, prior, locks, local, faults>>

\* The live restore still writes the config; a replay stops here.
RestoreTreesFails(p) ==
  /\ pc[p] = "trees"
  /\ trees' \in {trees, "mixed"}
  /\ result' = [result EXCEPT ![p] = "failed"]
  /\ Goto(p, IF role[p] = "live" THEN "config" ELSE "outcome")
  /\ UNCHANGED <<durable, candidate, ssh, gateway, prior, locks, role, viewJ,
                 viewB, owned, faults>>

\* config := captured config, the compensation journal kept.
RestoreConfig(p) ==
  /\ pc[p] = "config"
  /\ \/ CasHolds(p)
     \/ role[p] = "replay" /\ journal = viewJ[p] /\ business = Captured
  /\ business' = Captured
  /\ IF role[p] = "live" THEN Goto(p, "regateway") /\ UNCHANGED result
                         ELSE Report(p, "succeeded")
  /\ UNCHANGED <<journal, manifest, registry, snapshot, plan, world, locks,
                 role, viewJ, viewB, owned, faults>>

RestoreConfigFails(p) ==
  /\ pc[p] = "config"
  /\ result' = [result EXCEPT ![p] = "failed"]
  /\ Goto(p, IF role[p] = "live" THEN "regateway" ELSE "outcome")
  /\ UNCHANGED <<durable, world, locks, role, viewJ, viewB, owned, faults>>

\* AppAuthoritySnapshot::restore_with_gateway: the captured AppState returns.
RestoreAppState(p) ==
  /\ pc[p] = "regateway"
  /\ gateway' = IF plan.priorGateway THEN "prior" ELSE gateway
  /\ \E b \in BOOLEAN : /\ plan.prior => b
                       /\ owned' = [owned EXCEPT ![p] = b]
  /\ Report(p, IF result[p] = "failed" THEN "failed" ELSE "succeeded")
  /\ UNCHANGED <<durable, candidate, ssh, trees, prior, locks, role, viewJ,
                 viewB, faults>>

RestoreAppStateFails(p) ==
  /\ pc[p] = "regateway"
  /\ Report(p, "failed")
  /\ UNCHANGED <<durable, world, locks, role, viewJ, viewB, owned, faults>>

(* Step 4: the prior Science.  The live funnel lets the launch pick an id;  *)
(* a replay uses the preallocated one, and adopts only that one.            *)

LaunchId(p) == IF role[p] = "live" THEN "fresh_id" ELSE "durable_id"

RestartPriorScience(p) ==
  /\ Runs(p, PriorScienceRestart)
  /\ candidate = "stopped"
  /\ \/ prior = "stopped"
     \/ role[p] = "replay" /\ prior = "durable_id"
  /\ prior' = LaunchId(p)
  /\ owned' = [owned EXCEPT ![p] = TRUE]
  /\ Report(p, "succeeded")
  /\ UNCHANGED <<durable, candidate, ssh, trees, gateway, locks, role, viewJ,
                 viewB, faults>>

RestartPriorScienceFails(p) ==
  /\ Runs(p, PriorScienceRestart)
  /\ prior' \in IF prior = "stopped" THEN {prior, LaunchId(p)} ELSE {prior}
  /\ Report(p, "failed")
  /\ UNCHANGED <<durable, candidate, ssh, trees, gateway, locks, role, viewJ,
                 viewB, owned, faults>>

(* Step 5: ActiveRecovery -> CleanupOnly, remove the root, empty the registry. *)

PrepareCleanup(p) ==
  /\ Runs(p, SnapshotCleanup)
  /\ snapshot = "present"
  /\ registry \in IF role[p] = "live" THEN {"active_recovery"}
                  ELSE {"active_recovery", "cleanup_only"}
  /\ registry' = "cleanup_only"
  /\ Goto(p, "discard")
  /\ UNCHANGED <<journal, business, manifest, snapshot, plan, world, locks,
                 local, faults>>

\* Only an emptied registry proves to a replay that the cleanup was done.
CleanupAlreadyDone(p) ==
  /\ Runs(p, SnapshotCleanup)
  /\ role[p] = "replay"
  /\ registry = "empty" /\ snapshot = "missing"
  /\ Report(p, "succeeded")
  /\ UNCHANGED <<durable, world, locks, role, viewJ, viewB, owned, faults>>

\* The root is renamed to a tombstone and then removed.
DiscardSnapshot(p) ==
  /\ pc[p] = "discard"
  /\ IF snapshot = "present"
     THEN snapshot' = "tombstone" /\ UNCHANGED pc
     ELSE snapshot' = "missing" /\ Goto(p, "unregister")
  /\ UNCHANGED <<journal, business, manifest, registry, plan, world, locks,
                 local, faults>>

Unregister(p) ==
  /\ pc[p] = "unregister"
  /\ registry' = "empty"
  /\ Report(p, "succeeded")
  /\ UNCHANGED <<journal, business, manifest, snapshot, plan, world, locks,
                 role, viewJ, viewB, owned, faults>>

SnapshotCleanupFails(p) ==
  /\ Runs(p, SnapshotCleanup) \/ pc[p] \in {"discard", "unregister"}
  /\ Report(p, "failed")
  /\ UNCHANGED <<durable, world, locks, role, viewJ, viewB, owned, faults>>

-----------------------------------------------------------------------------
(* Failures of the process itself.                                          *)

\* A config write or a lease acquisition that errors: no further effect.
CheckpointFault(p) ==
  /\ pc[p] \in {"publish", "live_wait", "load", "intent", "outcome", "finish"}
  /\ faults < MaxFaults
  /\ faults' = faults + 1
  /\ Leave(p)

\* The Gateway child may or may not outlive its Desktop.
Crash(p) ==
  /\ pc[p] # "down"
  /\ faults < MaxFaults
  /\ faults' = faults + 1
  /\ gateway' \in {gateway, "none"}
  /\ Release(p)
  /\ Goto(p, "down")
  /\ DropLocals(p)
  /\ owned' = [owned EXCEPT ![p] = FALSE]
  /\ UNCHANGED <<durable, candidate, ssh, trees, prior>>

Relaunch(p) ==
  /\ pc[p] = "down"
  /\ Goto(p, "idle")
  /\ UNCHANGED <<durable, world, locks, local, faults>>

\* The user closes an idle Desktop and opens it again.
QuitAndReopen(p) ==
  /\ pc[p] = "idle"
  /\ Open(journal) /\ owned[p]
  /\ owned' = [owned EXCEPT ![p] = FALSE]
  /\ UNCHANGED <<durable, world, locks, pc, role, viewJ, viewB, result, faults>>

-----------------------------------------------------------------------------

Checkpoint(p) ==
  \/ PersistManifest(p) \/ PersistFails(p) \/ PublishJournal(p)
  \/ BeginStep(p) \/ FinishStep(p) \/ Finish(p) \/ LoseCheckpoint(p)

Acquire(p) == TakeLiveLease(p) \/ TakeReplayLease(p) \/ TakeAuthLease(p)

Entry(p) ==
  \/ EnterCommand(p) \/ RecheckBeforeAuth(p) \/ FinishAuth(p)
  \/ LoadStep(p) \/ RefuseReplay(p)

Effect(p) ==
  \/ DecideStep(p)
  \/ StopCandidate(p) \/ StopCandidateFails(p)
  \/ CompensateSsh(p) \/ CompensateSshFails(p)
  \/ StopCandidateGateway(p) \/ RestoreRefused(p)
  \/ RestoreTrees(p) \/ RestoreTreesFails(p)
  \/ RestoreConfig(p) \/ RestoreConfigFails(p)
  \/ RestoreAppState(p) \/ RestoreAppStateFails(p)
  \/ RestartPriorScience(p) \/ RestartPriorScienceFails(p)
  \/ PrepareCleanup(p) \/ CleanupAlreadyDone(p)
  \/ DiscardSnapshot(p) \/ Unregister(p) \/ SnapshotCleanupFails(p)

Progress(p) == Checkpoint(p) \/ Entry(p) \/ Effect(p) \/ Relaunch(p)

Next == \E p \in Procs :
          Progress(p) \/ Acquire(p) \/ CheckpointFault(p) \/ Crash(p)
            \/ QuitAndReopen(p)

Spec == Init /\ [][Next]_vars

-----------------------------------------------------------------------------
(* Safety.                                                                  *)

\* Every authority the failed run touched is back to its before-image, and
\* the prior Science runs again unless it must not.
Restored ==
  /\ candidate = "stopped"
  /\ ssh = "clean"
  /\ trees = "restored"
  /\ business = Captured
  /\ plan.prior /\ ~plan.cross => prior # "stopped"

\* The recovery snapshot stops being protected, and is removed, only when the
\* world is restored (cleanup_when_expendable, replay_compensation_snapshot_cleanup).
SnapshotKeptUntilRestored ==
  (registry # "active_recovery" \/ snapshot # "present") => Restored

\* Whatever is in config.json passes valid_runtime_compensation_steps, so a
\* crash at any point leaves a configuration the next process can load.
JournalDecodes ==
  /\ \A s, t \in Steps :
       s < t /\ journal.steps[s] \notin Terminal => journal.steps[t] = "pending"
  /\ journal.state = "incomplete" =>
       /\ \A s \in Steps : journal.steps[s] # "in_progress"
       /\ journal.failed = FailedSteps(journal)
       /\ journal.failed # {}

\* An effect runs only in the process that holds the exclusive lease, and only
\* under its own durable in_progress step: no two owners, no unrecorded effect.
EffectsUnderDurableIntent ==
  \A p \in Procs : pc[p] \in Effecting =>
    /\ exHolder = p
    /\ Open(journal)
    /\ journal = viewJ[p]
    /\ \E s \in Steps : journal.steps[s] = "in_progress"

\* Provider authentication never runs beside an open compensation journal,
\* although the journal is published by another process at any time.
AuthOnlyWithoutJournal ==
  \A p \in Procs : pc[p] = "auth" => journal.state = "none"

\* As long as a step other than the last may have to be replayed, its private
\* manifest is on disk inside a protected snapshot.
ReplayInputsPresent ==
  journal.state # "none" /\ journal.steps[SnapshotCleanup] = "pending" =>
    manifest /\ snapshot = "present" /\ registry = "active_recovery"

\* The trees are replaced only when no candidate runs on them, and the prior
\* Science comes back only on restored trees.
RestoreUnderQuiescence ==
  /\ trees # "candidate" => candidate = "stopped"
  /\ prior # "stopped" => trees = "restored" /\ business = Captured

\* No process ever rewrites a terminal outcome or reopens a closed journal,
\* and a step in progress never falls back to pending.
OutcomesAreFinal ==
  [][/\ journal.state = "incomplete" => UNCHANGED journal
     /\ journal'.state # "none" =>
          \A s \in Steps :
            /\ journal.steps[s] \in Terminal =>
                 journal'.steps[s] = journal.steps[s]
            /\ journal.steps[s] = "in_progress" =>
                 journal'.steps[s] # "pending"]_vars

-----------------------------------------------------------------------------
(* The contract this implements.                                            *)

Contract == INSTANCE CompensationContract WITH
  phase <- CASE journal.state = "in_progress" -> "open"
             [] journal.state = "incomplete"  -> "incomplete"
             [] OTHER -> IF registry = "empty" THEN "cleared" ELSE "unpublished",
  restored <- Restored,
  recoverable <- registry = "active_recovery" /\ snapshot = "present"

ImplementsContract == Contract!Spec

-----------------------------------------------------------------------------
(* Liveness.                                                                *)

\* The user keeps pressing one-click, a crashed Desktop is opened again, and a
\* process queued on the flock is eventually served.
FairSpec == /\ Spec
            /\ \A p \in Procs : WF_vars(Progress(p)) /\ SF_vars(Acquire(p))

\* In addition a user whose command was refused reopens the Desktop.
ReopeningSpec == FairSpec /\ \A p \in Procs : SF_vars(QuitAndReopen(p))

Settled == ~Open(journal)

\* A replay that recorded a failed Science cleanup refuses to go on while that
\* candidate still runs.
BlockedByCandidate == ScienceFailed(journal) /\ candidate = "running"

\* An open journal is eventually cleared or closed, however often its owners
\* crash, except when the candidate cannot be stopped.
CompensationSettles == Open(journal) ~> Settled \/ BlockedByCandidate

\* A freshly opened Desktop replays an interrupted compensation to convergence
\* (docs: the command "first replays one-click compensation ... to convergence")
\* without being closed and opened again in between.
ReplayConverges ==
  Open(journal) /\ (\A p \in Procs : pc[p] = "idle" /\ ~owned[p])
    ~> Settled \/ BlockedByCandidate

\* A typed incomplete compensation keeps its journal and its snapshot (docs).
IncompleteKeepsSnapshot ==
  journal.state = "incomplete" => snapshot # "missing"

=============================================================================
