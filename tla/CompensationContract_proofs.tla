--------------------- MODULE CompensationContract_proofs ---------------------
(* OneClickCompensation implements CompensationContract, and restores under  *)
(* quiescence, for every number of processes, every set of failed runs and   *)
(* every bound on faults.  Both rest on why an outcome may be in the journal, *)
(* which the invariant of OneClickCompensation_proofs does not say.          *)
EXTENDS OneClickCompensation_proofs

-----------------------------------------------------------------------------
(* The outcomes a step may have, and what each says of the steps before it. *)

Outcomes(s) ==
  CASE s = ScienceCleanup      -> {"succeeded", "failed", "no_candidate"}
    [] s = PriorScienceRestart -> {"succeeded", "failed", "no_prior",
                                   "cross_runtime", "blocked_science",
                                   "blocked_authority"}
    [] s = SnapshotCleanup     -> {"succeeded", "failed", "preserved"}
    [] OTHER                   -> {"succeeded", "failed", "blocked_science"}

Why(j, s, o) ==
  /\ o \in Outcomes(s)
  /\ o = "blocked_science" => ScienceFailed(j)
  /\ o = "blocked_authority" => j.steps[AuthorityRestore] # "succeeded"
  /\ o = "preserved" => ~AuthoritiesRestored(j)
  /\ s = SnapshotCleanup /\ o = "succeeded" => registry = "empty"

RecordedWhy ==
  \A s \in Steps :
    journal.steps[s] \in Terminal => Why(journal, s, journal.steps[s])

ReportedWhy ==
  \A p \in Procs, s \in Steps :
    pc[p] = "outcome" /\ viewJ[p].steps[s] = "in_progress" =>
      Why(viewJ[p], s, result[p])

WhyInv == RecordedWhy /\ ReportedWhy

LEMMA WhyInit == Init => WhyInv
BY DEF Init, WhyInv, RecordedWhy, ReportedWhy, NoJournal, Terminal, SkipCauses

\* A decision without an effect is one of the outcomes of its step.
LEMMA DecidedOutcome ==
  ASSUME NEW p \in Procs, NEW s \in Steps, NEW o \in Decisions(p, s) \ {"none"}
  PROVE  Why(viewJ[p], s, o)
BY DEF Why, Outcomes, Decisions, Reconfirmed, Steps, ScienceCleanup, SshCleanup,
       AuthorityRestore, PriorScienceRestart, SnapshotCleanup

\* What does not touch the journal, the registry or a reported outcome.
LEMMA KeepWhy ==
  ASSUME WhyInv, UNCHANGED <<journal, registry>>,
         \A q \in Procs : pc'[q] = "outcome" =>
           /\ pc[q] = "outcome"
           /\ viewJ'[q] = viewJ[q]
           /\ result'[q] = result[q]
  PROVE  WhyInv'
BY DEF WhyInv, RecordedWhy, ReportedWhy, Why, ScienceFailed,
       AuthoritiesRestored

\* What reports an outcome of the step in progress.
LEMMA ReportKeepsWhy ==
  ASSUME TypeInv, LockInv, IntentInv, JournalDecodes, WhyInv,
         NEW p \in Procs, NEW s \in Steps, NEW o \in Terminal,
         pc[p] \in Effecting, journal.steps[s] = "in_progress",
         UNCHANGED <<journal, viewJ>>, Report(p, o),
         registry' = registry \/ s = SnapshotCleanup,
         Why(journal, s, o)'
  PROVE  WhyInv'
<1> /\ pc \in [Procs -> PCs]
    /\ result \in [Procs -> Terminal \cup {"none"}]
    BY DEF TypeInv, TypeOK
<1>1. RecordedWhy'
  <2> SUFFICES ASSUME NEW t \in Steps, journal.steps[t] \in Terminal
               PROVE  Why(journal, t, journal.steps[t])'
      BY DEF RecordedWhy
  <2>1. Why(journal, t, journal.steps[t])
    BY DEF WhyInv, RecordedWhy
  <2>2. t # s
    BY DEF Terminal, SkipCauses
  <2>3. QED
    BY <2>1, <2>2 DEF Why, ScienceFailed, AuthoritiesRestored
<1>2. ReportedWhy'
  <2> SUFFICES ASSUME NEW q \in Procs, NEW t \in Steps,
                      pc'[q] = "outcome", viewJ[q].steps[t] = "in_progress"
               PROVE  Why(viewJ[q], t, result[q])'
      BY DEF ReportedWhy
  <2>1. q = p
    BY OneOwner DEF Report, Goto, Exclusive, Effecting
  <2>2. viewJ[p] = journal /\ t = s
    BY <2>1, OneStep DEF IntentInv, EffectsUnderDurableIntent
  <2>3. result'[p] = o
    BY DEF Report
  <2>4. QED
    BY <2>1, <2>2, <2>3 DEF Why, ScienceFailed, AuthoritiesRestored
<1>3. QED
  BY <1>1, <1>2 DEF WhyInv

\* "succeeded" and "failed" need no reason, except for the last step.
LEMMA PlainOutcome ==
  ASSUME NEW s \in Steps, NEW o \in {"succeeded", "failed"},
         s # SnapshotCleanup \/ o = "failed" \/ registry' = "empty"
  PROVE  Why(journal, s, o)' /\ o \in Terminal
BY DEF Why, Outcomes, Terminal

\* A command that returns.
LEMMA ReturnKeepsWhy ==
  ASSUME TypeInv, WhyInv, NEW p \in Procs, Return(p),
         UNCHANGED <<journal, registry>>
  PROVE  WhyInv'
<1>1. \A q \in Procs : pc'[q] = "outcome" =>
        /\ pc[q] = "outcome"
        /\ viewJ'[q] = viewJ[q]
        /\ result'[q] = result[q]
  BY DEF TypeInv, TypeOK, Return, Goto, DropLocals
<1>2. QED
  BY <1>1, KeepWhy

LEMMA WhyStep ==
  TypeInv /\ LockInv /\ IntentInv /\ JournalDecodes /\ WorldInv /\ WhyInv
    /\ [Next]_vars => WhyInv'
<1> SUFFICES ASSUME TypeInv, LockInv, IntentInv, JournalDecodes, WorldInv,
                    WhyInv, [Next]_vars
             PROVE  WhyInv'
    OBVIOUS
<1> /\ pc \in [Procs -> PCs]
    /\ viewJ \in [Procs -> Journals]
    /\ journal \in Journals
    /\ result \in [Procs -> Terminal \cup {"none"}]
    BY DEF TypeInv, TypeOK
<1> USE DEF Goto, durable, world, locks, local
<1>1. CASE UNCHANGED vars
  BY <1>1, KeepWhy DEF vars
<1>2. ASSUME NEW p \in Procs, Checkpoint(p) PROVE WhyInv'
  <2>1. CASE PersistManifest(p)
    BY <2>1, KeepWhy DEF PersistManifest
  <2>2. CASE PersistFails(p) \/ LoseCheckpoint(p)
    BY <2>2, ReturnKeepsWhy DEF PersistFails, LoseCheckpoint, Leave
  <2>3. CASE PublishJournal(p)
    <3>1. RecordedWhy'
      BY <2>3 DEF PublishJournal, RecordedWhy, NoJournal, Terminal, SkipCauses
    <3>2. ReportedWhy'
      BY <2>3 DEF PublishJournal, WhyInv, ReportedWhy, Why, ScienceFailed,
                  AuthoritiesRestored
    <3>3. QED
      BY <3>1, <3>2 DEF WhyInv
  <2>4. CASE BeginStep(p)
    <3>1. PICK s \in Steps : /\ CanonicalAt(journal, s, "pending")
                             /\ journal' = WithStep(journal, s, "in_progress")
      BY <2>4 DEF BeginStep, CasHolds
    <3>2. \A t \in Steps : journal'.steps[t] =
             IF t = s THEN "in_progress" ELSE journal.steps[t]
      BY <3>1 DEF WithStep, Journals
    <3>3. RecordedWhy'
      <4> SUFFICES ASSUME NEW t \in Steps, journal'.steps[t] \in Terminal
                   PROVE  Why(journal, t, journal.steps[t])'
          BY DEF RecordedWhy
      <4>1. t < s /\ journal'.steps[t] = journal.steps[t]
        BY <3>1, <3>2 DEF CanonicalAt, Terminal, SkipCauses, Steps
      <4>2. Why(journal, t, journal.steps[t])
        BY <4>1 DEF WhyInv, RecordedWhy
      <4>3. t # SnapshotCleanup /\ journal.steps[t] # "preserved"
        BY <4>1, <4>2 DEF Why, Outcomes, Steps, SnapshotCleanup
      <4>4. journal.steps[t] = "blocked_science" =>
              ScienceCleanup < s /\ journal'.steps[ScienceCleanup] = "failed"
        BY <3>2, <3>1, <4>1, <4>2
           DEF Why, ScienceFailed, CanonicalAt, Steps, ScienceCleanup
      <4>5. journal.steps[t] = "blocked_authority" =>
              t = PriorScienceRestart /\ AuthorityRestore < s
        BY <4>1, <4>2 DEF Why, Outcomes, PriorScienceRestart,
                          AuthorityRestore, Steps
      <4>6. QED
        BY <3>2, <4>1, <4>2, <4>3, <4>4, <4>5
           DEF Why, ScienceFailed, AuthorityRestore, Steps
    <3>4. ReportedWhy'
      <4> SUFFICES ASSUME NEW q \in Procs, pc'[q] = "outcome"
                   PROVE  FALSE
          BY DEF ReportedWhy
      <4>1. q # p /\ pc[q] = "outcome" /\ pc[p] = "intent"
        BY <2>4 DEF BeginStep
      <4>2. QED
        BY <4>1, OneOwner DEF Exclusive
    <3>5. QED
      BY <3>3, <3>4 DEF WhyInv
  <2>5. CASE FinishStep(p)
    <3>1. PICK s \in Steps :
            /\ CanonicalAt(journal, s, "in_progress")
            /\ journal' = WithStep(journal, s, result[p])
            /\ viewJ[p] = journal
      BY <2>5 DEF FinishStep, OutcomeCas, CasHolds
    <3>2. /\ \A t \in Steps : journal'.steps[t] =
                IF t = s THEN result[p] ELSE journal.steps[t]
          /\ registry' = registry
      BY <2>5, <3>1 DEF FinishStep, WithStep, Journals
    <3>3. Why(journal, s, result[p])
      BY <2>5, <3>1 DEF FinishStep, CanonicalAt, WhyInv, ReportedWhy
    <3>4. RecordedWhy'
      <4> SUFFICES ASSUME NEW t \in Steps, journal'.steps[t] \in Terminal
                   PROVE  Why(journal, t, journal.steps[t])'
          BY DEF RecordedWhy
      <4>1. t <= s /\ Why(journal, t, journal'.steps[t])
        BY <3>1, <3>2, <3>3
           DEF CanonicalAt, WhyInv, RecordedWhy, Terminal, SkipCauses, Steps
      <4>2. \A u \in Steps : u < t => journal'.steps[u] = journal.steps[u]
        BY <3>2, <4>1 DEF Steps
      <4>3. journal'.steps[t] = "preserved" => t = SnapshotCleanup
        BY <4>1 DEF Why, Outcomes, Steps, ScienceCleanup, SshCleanup,
                    AuthorityRestore, PriorScienceRestart, SnapshotCleanup
      <4>4. journal'.steps[t] = "blocked_authority" => t = PriorScienceRestart
        BY <4>1 DEF Why, Outcomes, Steps, ScienceCleanup, SshCleanup,
                    AuthorityRestore, PriorScienceRestart, SnapshotCleanup
      <4>5. journal'.steps[t] = "blocked_science" => t # ScienceCleanup
        BY <4>1 DEF Why, Outcomes, Steps, ScienceCleanup, SshCleanup,
                    AuthorityRestore, PriorScienceRestart, SnapshotCleanup
      <4>6. QED
        BY <3>2, <4>1, <4>2, <4>3, <4>4, <4>5
           DEF Why, ScienceFailed, AuthoritiesRestored, Steps,
               ScienceCleanup, SshCleanup, AuthorityRestore,
               PriorScienceRestart, SnapshotCleanup
    <3>5. ReportedWhy'
      <4> SUFFICES ASSUME NEW q \in Procs, pc'[q] = "outcome"
                   PROVE  FALSE
          BY DEF ReportedWhy
      <4>1. q # p /\ pc[q] = "outcome" /\ pc[p] = "outcome"
        BY <2>5 DEF FinishStep, AfterOutcome, Return
      <4>2. QED
        BY <4>1, OneOwner DEF Exclusive
    <3>6. QED
      BY <3>4, <3>5 DEF WhyInv
  <2>6. CASE Finish(p)
    <3>1. /\ journal' = NoJournal \/ journal'.steps = journal.steps
          /\ registry' = registry
      BY <2>6 DEF Finish, CasHolds, Journals
    <3>2. RecordedWhy'
      BY <3>1 DEF RecordedWhy, WhyInv, Why, NoJournal, Terminal, SkipCauses,
                  ScienceFailed, AuthoritiesRestored
    <3>3. ReportedWhy'
      BY <2>6 DEF Finish, Return, DropLocals, WhyInv, ReportedWhy, Why,
                  ScienceFailed, AuthoritiesRestored
    <3>4. QED
      BY <3>2, <3>3 DEF WhyInv
  <2>7. QED
    BY <1>2, <2>1, <2>2, <2>3, <2>4, <2>5, <2>6 DEF Checkpoint
<1>3. ASSUME NEW p \in Procs, Acquire(p) PROVE WhyInv'
  BY <1>3, KeepWhy DEF Acquire, TakeLiveLease, TakeReplayLease, TakeAuthLease
<1>4. ASSUME NEW p \in Procs, Entry(p) PROVE WhyInv'
  <2>1. CASE EnterCommand(p)
    BY <2>1, KeepWhy DEF EnterCommand
  <2>2. CASE LoadStep(p)
    BY <2>2, KeepWhy DEF LoadStep
  <2>3. CASE RecheckBeforeAuth(p)
    BY <2>3, KeepWhy, ReturnKeepsWhy DEF RecheckBeforeAuth, Leave
  <2>4. CASE FinishAuth(p) \/ RefuseReplay(p)
    BY <2>4, ReturnKeepsWhy DEF FinishAuth, RefuseReplay, Leave
  <2>5. QED
    BY <1>4, <2>1, <2>2, <2>3, <2>4 DEF Entry
<1>5. ASSUME NEW p \in Procs, Effect(p) PROVE WhyInv'
  <2> \A s \in Steps : At(p, s) =>
        /\ pc[p] \in Effecting
        /\ viewJ[p] = journal
        /\ journal.steps[s] = "in_progress"
      BY DEF At, Effecting, IntentInv, EffectsUnderDurableIntent
  <2> pc[p] \in {"trees", "config", "regateway"} =>
        /\ pc[p] \in Effecting
        /\ journal.steps[AuthorityRestore] = "in_progress"
      BY DEF Effecting, IntentInv, EffectsUnderDurableIntent, WorldInv,
             PointInv, AtPoint
  <2> pc[p] \in {"discard", "unregister"} =>
        /\ pc[p] \in Effecting
        /\ journal.steps[SnapshotCleanup] = "in_progress"
      BY DEF Effecting, IntentInv, EffectsUnderDurableIntent, WorldInv,
             PointInv, AtPoint
  <2> /\ {ScienceCleanup, SshCleanup, AuthorityRestore, PriorScienceRestart,
          SnapshotCleanup} = Steps
      /\ SnapshotCleanup \notin {ScienceCleanup, SshCleanup, AuthorityRestore,
                                 PriorScienceRestart}
      BY DEF Steps, ScienceCleanup, SshCleanup, AuthorityRestore,
             PriorScienceRestart, SnapshotCleanup
  <2>1. CASE DecideStep(p)
    <3>1. PICK s \in Steps, o \in Terminal \cup {"none"} :
            o \in Decisions(p, s) \ {"none"} /\ At(p, s) /\ Report(p, o)
      BY <2>1, DecidedTerminal DEF DecideStep
    <3>2. o \in Terminal
      BY <3>1
    <3>3. Why(journal, s, o)'
      BY <2>1, <3>1, <3>2, DecidedOutcome
         DEF DecideStep, Why, ScienceFailed, AuthoritiesRestored
    <3>4. QED
      BY <2>1, <3>1, <3>2, <3>3, ReportKeepsWhy DEF DecideStep
  <2>2. CASE StopCandidate(p) \/ StopCandidateFails(p)
    BY <2>2, PlainOutcome, ReportKeepsWhy
       DEF StopCandidate, StopCandidateFails, Runs
  <2>3. CASE CompensateSsh(p) \/ CompensateSshFails(p)
    BY <2>3, PlainOutcome, ReportKeepsWhy
       DEF CompensateSsh, CompensateSshFails, Runs
  <2>4. CASE StopCandidateGateway(p) \/ RestoreTrees(p)
    BY <2>4, KeepWhy DEF StopCandidateGateway, RestoreTrees
  <2>5. CASE RestoreRefused(p)
    BY <2>5, PlainOutcome, ReportKeepsWhy DEF RestoreRefused, Runs
  <2>6. CASE RestoreTreesFails(p)
    <3>1. CASE role[p] = "live"
      BY <2>6, <3>1, KeepWhy DEF RestoreTreesFails
    <3>2. CASE role[p] # "live"
      BY <2>6, <3>2, PlainOutcome, ReportKeepsWhy
         DEF RestoreTreesFails, Report
    <3>3. QED
      BY <3>1, <3>2
  <2>7. CASE RestoreConfig(p)
    <3>1. CASE role[p] = "live"
      BY <2>7, <3>1, KeepWhy DEF RestoreConfig
    <3>2. CASE role[p] # "live"
      BY <2>7, <3>2, PlainOutcome, ReportKeepsWhy DEF RestoreConfig
    <3>3. QED
      BY <3>1, <3>2
  <2>8. CASE RestoreConfigFails(p)
    <3>1. CASE role[p] = "live"
      BY <2>8, <3>1, KeepWhy DEF RestoreConfigFails
    <3>2. CASE role[p] # "live"
      BY <2>8, <3>2, PlainOutcome, ReportKeepsWhy
         DEF RestoreConfigFails, Report
    <3>3. QED
      BY <3>1, <3>2
  <2>9. CASE RestoreAppState(p)
    BY <2>9, PlainOutcome, ReportKeepsWhy DEF RestoreAppState
  <2>10. CASE RestoreAppStateFails(p)
    BY <2>10, PlainOutcome, ReportKeepsWhy DEF RestoreAppStateFails
  <2>11. CASE RestartPriorScience(p) \/ RestartPriorScienceFails(p)
    BY <2>11, PlainOutcome, ReportKeepsWhy
       DEF RestartPriorScience, RestartPriorScienceFails, Runs
  <2>12. CASE PrepareCleanup(p)
    <3>1. journal.steps[SnapshotCleanup] = "in_progress"
      BY <2>12 DEF PrepareCleanup, Runs
    <3>2. RecordedWhy'
      BY <2>12, <3>1 DEF PrepareCleanup, WhyInv, RecordedWhy, Why, Terminal,
                         SkipCauses, ScienceFailed, AuthoritiesRestored
    <3>3. \A q \in Procs : pc'[q] # "outcome"
      <4>1. \A q \in Procs \ {p} : pc[q] # "outcome"
        BY <2>12, OneOwner DEF PrepareCleanup, Runs, At, Exclusive
      <4>2. QED
        BY <2>12, <4>1 DEF PrepareCleanup
    <3>4. QED
      BY <3>2, <3>3 DEF WhyInv, ReportedWhy
  <2>13. CASE CleanupAlreadyDone(p)
    BY <2>13, PlainOutcome, ReportKeepsWhy DEF CleanupAlreadyDone, Runs
  <2>14. CASE DiscardSnapshot(p)
    BY <2>14, KeepWhy DEF DiscardSnapshot
  <2>15. CASE Unregister(p)
    BY <2>15, PlainOutcome, ReportKeepsWhy DEF Unregister
  <2>16. CASE SnapshotCleanupFails(p)
    BY <2>16, PlainOutcome, ReportKeepsWhy DEF SnapshotCleanupFails, Runs
  <2>17. QED
    BY <1>5, <2>1, <2>2, <2>3, <2>4, <2>5, <2>6, <2>7, <2>8, <2>9, <2>10,
       <2>11, <2>12, <2>13, <2>14, <2>15, <2>16 DEF Effect
<1>6. ASSUME NEW p \in Procs,
             Relaunch(p) \/ CheckpointFault(p) \/ Crash(p) \/ QuitAndReopen(p)
      PROVE  WhyInv'
  <2>1. CASE Relaunch(p) \/ QuitAndReopen(p)
    BY <2>1, KeepWhy DEF Relaunch, QuitAndReopen
  <2>2. CASE CheckpointFault(p)
    BY <2>2, ReturnKeepsWhy DEF CheckpointFault, Leave
  <2>3. CASE Crash(p)
    BY <2>3, KeepWhy DEF Crash, DropLocals
  <2>4. QED
    BY <1>6, <2>1, <2>2, <2>3
<1>7. QED
  BY <1>1, <1>2, <1>3, <1>4, <1>5, <1>6 DEF Next, Progress

-----------------------------------------------------------------------------
(* Restore under quiescence.                                                *)

\* The trees are only reached with the candidate known to be stopped, and the
\* prior Science only after the restore was recorded; neither is undone while
\* the journal that says so is open, and no other run is published after it.
QuietInv ==
  /\ \A p \in Procs : pc[p] = "trees" => ~ScienceFailed(viewJ[p])
  /\ trees # "candidate" => candidate = "stopped"
  /\ prior # "stopped" =>
       /\ trees = "restored" /\ business = Captured
       /\ journal.state = "none"
            \/ journal.steps[AuthorityRestore] = "succeeded"
       /\ \A p \in Procs : pc[p] \notin {"persist", "publish"}

LEMMA QuietInit == Init => QuietInv
BY DEF Init, QuietInv

\* A step that leaves the world and the journal alone and enters none of the
\* points QuietInv speaks of.
LEMMA KeepQuiet ==
  ASSUME QuietInv, UNCHANGED <<journal, business, plan, trees, prior>>,
         candidate' = candidate \/ candidate' = "stopped",
         \A q \in Procs :
           /\ pc'[q] = "trees" => pc[q] = "trees" /\ viewJ'[q] = viewJ[q]
           /\ pc'[q] \in {"persist", "publish"} =>
                pc[q] \in {"persist", "publish"}
  PROVE  QuietInv'
BY DEF QuietInv, ScienceFailed, Captured

LEMMA ReturnKeepsQuiet ==
  ASSUME TypeInv, QuietInv, NEW p \in Procs, Leave(p)
  PROVE  QuietInv'
<1>1. \A q \in Procs :
        /\ pc'[q] = "trees" => pc[q] = "trees" /\ viewJ'[q] = viewJ[q]
        /\ pc'[q] \in {"persist", "publish"} =>
             pc[q] \in {"persist", "publish"}
  BY DEF TypeInv, TypeOK, Leave, Return, Goto, DropLocals
<1>2. QED
  BY <1>1, KeepQuiet DEF Leave, durable, world

\* Under the intent of a step, the recorded outcomes say what QuietInv needs.
LEMMA IntentMeans ==
  ASSUME IntentInv, JournalDecodes, WorldInv, WhyInv, NEW p \in Procs,
         pc[p] \in Effecting
  PROVE  /\ journal.state = "in_progress" /\ viewJ[p] = journal
         /\ journal.steps[AuthorityRestore] = "in_progress"
              /\ ~ScienceFailed(journal)
            => candidate = "stopped"
         /\ journal.steps[PriorScienceRestart] = "in_progress"
            => journal.steps[AuthorityRestore] \in Terminal
<1>1. journal.state = "in_progress" /\ viewJ[p] = journal
  BY DEF IntentInv, EffectsUnderDurableIntent, Open
<1>2. \A s, t \in Steps : s < t /\ journal.steps[t] = "in_progress" =>
        journal.steps[s] \in Terminal
  BY DEF JournalDecodes
<1>3. ASSUME journal.steps[AuthorityRestore] = "in_progress",
             ~ScienceFailed(journal)
      PROVE  candidate = "stopped"
  <2>1. journal.steps[ScienceCleanup] \in Terminal
    BY <1>2, <1>3 DEF Steps, ScienceCleanup, AuthorityRestore
  <2>2. journal.steps[ScienceCleanup] \in Outcomes(ScienceCleanup)
    BY <2>1 DEF WhyInv, RecordedWhy, Why, Steps, ScienceCleanup
  <2>3. journal.steps[ScienceCleanup] \in {"succeeded", "no_candidate"}
    BY <1>3, <2>2 DEF Outcomes, ScienceFailed, ScienceCleanup,
                      PriorScienceRestart, SnapshotCleanup
  <2>4. QED
    BY <2>3 DEF WorldInv, DoneInv, Asserts, Steps, ScienceCleanup
<1>4. journal.steps[PriorScienceRestart] = "in_progress"
        => journal.steps[AuthorityRestore] \in Terminal
  BY <1>2 DEF Steps, PriorScienceRestart, AuthorityRestore
<1>5. QED
  BY <1>1, <1>3, <1>4

\* What the effects that reach the world were decided on.
LEMMA RunsMeans ==
  ASSUME NEW p \in Procs
  PROVE  /\ Runs(p, AuthorityRestore) => ~ScienceFailed(viewJ[p])
         /\ Runs(p, PriorScienceRestart) =>
              viewJ[p].steps[AuthorityRestore] = "succeeded"
BY DEF Runs, Decisions, ScienceCleanup, AuthorityRestore, PriorScienceRestart,
       SnapshotCleanup

LEMMA QuietStep ==
  TypeInv /\ LockInv /\ IntentInv /\ JournalDecodes /\ WorldInv /\ SnapshotInv
    /\ WhyInv /\ QuietInv /\ [Next]_vars => QuietInv'
<1> SUFFICES ASSUME TypeInv, LockInv, IntentInv, JournalDecodes, WorldInv,
                    SnapshotInv, WhyInv, QuietInv, [Next]_vars
             PROVE  QuietInv'
    OBVIOUS
<1> /\ pc \in [Procs -> PCs]
    /\ viewJ \in [Procs -> Journals]
    /\ journal \in Journals
    /\ trees \in {"candidate", "mixed", "restored"}
    BY DEF TypeInv, TypeOK
<1> USE DEF Goto, durable, world, locks, local
<1>1. CASE UNCHANGED vars
  BY <1>1, KeepQuiet DEF vars
<1>2. ASSUME NEW p \in Procs, Checkpoint(p) PROVE QuietInv'
  <2>1. CASE PersistManifest(p)
    BY <2>1, KeepQuiet DEF PersistManifest
  <2>2. CASE PersistFails(p) \/ LoseCheckpoint(p)
    BY <2>2, ReturnKeepsQuiet DEF PersistFails, LoseCheckpoint
  <2>3. CASE PublishJournal(p)
    <3>1. prior = "stopped"
      BY <2>3 DEF PublishJournal, QuietInv
    <3>2. QED
      BY <2>3, <3>1 DEF PublishJournal, QuietInv, ScienceFailed
  <2>4. CASE BeginStep(p)
    <3>1. PICK s \in Steps : /\ CanonicalAt(journal, s, "pending")
                             /\ journal' = WithStep(journal, s, "in_progress")
      BY <2>4 DEF BeginStep, CasHolds
    <3>2. /\ journal'.state = journal.state
          /\ journal.steps[AuthorityRestore] = "succeeded" =>
               journal'.steps[AuthorityRestore] = "succeeded"
      BY <3>1 DEF CanonicalAt, WithStep, Journals, Steps, AuthorityRestore
    <3>3. QED
      BY <2>4, <3>2 DEF BeginStep, QuietInv, ScienceFailed, Captured
  <2>5. CASE FinishStep(p)
    <3>1. PICK s \in Steps : /\ CanonicalAt(journal, s, "in_progress")
                             /\ journal' = WithStep(journal, s, result[p])
      BY <2>5 DEF FinishStep, OutcomeCas, CasHolds
    <3>2. /\ journal'.state = journal.state
          /\ journal.steps[AuthorityRestore] = "succeeded" =>
               journal'.steps[AuthorityRestore] = "succeeded"
      BY <3>1 DEF CanonicalAt, WithStep, Journals, Steps, AuthorityRestore
    <3>3. /\ pc'[p] \in {"idle", "intent", "finish"}
          /\ \A q \in Procs \ {p} : pc'[q] = pc[q] /\ viewJ'[q] = viewJ[q]
      BY <2>5 DEF FinishStep, AfterOutcome, Return, DropLocals
    <3>4. QED
      BY <2>5, <3>2, <3>3 DEF FinishStep, QuietInv, ScienceFailed, Captured
  <2>6. CASE Finish(p)
    <3>1. /\ journal.state = "in_progress"
          /\ journal' = NoJournal \/ journal'.steps = journal.steps
      BY <2>6 DEF Finish, CasHolds, Open, Journals
    <3>2. prior # "stopped" =>
            journal'.state = "none"
              \/ journal'.steps[AuthorityRestore] = "succeeded"
      BY <3>1 DEF QuietInv, NoJournal
    <3>3. QED
      BY <2>6, <3>2
         DEF Finish, Return, DropLocals, QuietInv, ScienceFailed, Captured
  <2>7. QED
    BY <1>2, <2>1, <2>2, <2>3, <2>4, <2>5, <2>6 DEF Checkpoint
<1>3. ASSUME NEW p \in Procs, Acquire(p) PROVE QuietInv'
  BY <1>3, KeepQuiet DEF Acquire, TakeLiveLease, TakeReplayLease, TakeAuthLease
<1>4. ASSUME NEW p \in Procs, Entry(p) PROVE QuietInv'
  <2>1. CASE EnterCommand(p) \/ LoadStep(p)
    BY <2>1, KeepQuiet DEF EnterCommand, LoadStep
  <2>2. CASE RecheckBeforeAuth(p)
    BY <2>2, KeepQuiet, ReturnKeepsQuiet DEF RecheckBeforeAuth
  <2>3. CASE FinishAuth(p) \/ RefuseReplay(p)
    BY <2>3, ReturnKeepsQuiet DEF FinishAuth, RefuseReplay
  <2>4. QED
    BY <1>4, <2>1, <2>2, <2>3 DEF Entry
<1>5. ASSUME NEW p \in Procs, Effect(p) PROVE QuietInv'
  <2>1. CASE DecideStep(p) \/ RestoreRefused(p) \/ CleanupAlreadyDone(p)
               \/ RestoreConfigFails(p)
               \/ RestoreAppState(p) \/ RestoreAppStateFails(p)
    BY <2>1, KeepQuiet
       DEF DecideStep, RestoreRefused, CleanupAlreadyDone,
           RestoreConfigFails, RestoreAppState, RestoreAppStateFails, Report
  <2>2. CASE StopCandidate(p) \/ StopCandidateFails(p) \/ CompensateSsh(p)
               \/ CompensateSshFails(p)
    BY <2>2, KeepQuiet
       DEF StopCandidate, StopCandidateFails, CompensateSsh,
           CompensateSshFails, Report
  <2>3. CASE PrepareCleanup(p) \/ DiscardSnapshot(p) \/ Unregister(p)
               \/ SnapshotCleanupFails(p)
    BY <2>3, KeepQuiet
       DEF PrepareCleanup, DiscardSnapshot, Unregister, SnapshotCleanupFails,
           Report
  <2>4. CASE StopCandidateGateway(p)
    BY <2>4, RunsMeans DEF StopCandidateGateway, QuietInv, ScienceFailed,
                           Captured
  <2>5. CASE RestoreTrees(p) \/ RestoreTreesFails(p)
    <3>1. /\ journal.steps[AuthorityRestore] = "in_progress"
          /\ ~ScienceFailed(journal)
          /\ journal.state = "in_progress"
          /\ candidate = "stopped"
      <4>1. pc[p] = "trees" /\ pc[p] \in Effecting
        BY <2>5 DEF RestoreTrees, RestoreTreesFails, Effecting
      <4>2. journal.state = "in_progress" /\ viewJ[p] = journal
        BY <4>1, IntentMeans
      <4>3. /\ journal.steps[AuthorityRestore] = "in_progress"
            /\ ~ScienceFailed(journal)
        BY <4>1, <4>2 DEF WorldInv, PointInv, AtPoint, QuietInv
      <4>4. QED
        BY <4>1, <4>2, <4>3, IntentMeans
    <3>2. prior = "stopped"
      BY <3>1 DEF QuietInv
    <3>3. /\ UNCHANGED <<journal, business, plan, prior, candidate, viewJ>>
          /\ \A q \in Procs :
               /\ pc'[q] = "trees" => pc[q] = "trees"
               /\ pc'[q] \in {"persist", "publish"} => pc[q] = pc'[q]
      BY <2>5 DEF RestoreTrees, RestoreTreesFails
    <3>4. QED
      BY <3>1, <3>2, <3>3 DEF QuietInv, ScienceFailed
  <2>6. CASE RestoreConfig(p)
    <3>1. Captured' = Captured /\ business' = Captured
      BY <2>6 DEF RestoreConfig, Captured
    <3>2. QED
      BY <2>6, <3>1 DEF RestoreConfig, Report, QuietInv, ScienceFailed
  <2>7. CASE RestartPriorScience(p) \/ RestartPriorScienceFails(p)
    <3>1. Runs(p, PriorScienceRestart) /\ pc[p] \in Effecting
      BY <2>7 DEF RestartPriorScience, RestartPriorScienceFails, Runs, At,
                  Effecting
    <3>2. /\ journal.state = "in_progress"
          /\ journal.steps[AuthorityRestore] = "succeeded"
      BY <3>1, IntentMeans, RunsMeans
    <3>3. trees = "restored" /\ business = Captured
      BY <3>2 DEF WorldInv, DoneInv, Asserts, Steps, AuthorityRestore
    <3>4. \A q \in Procs : pc[q] \notin {"persist", "publish"}
      BY <3>2 DEF SnapshotInv, Unpublished, NoJournal
    <3>5. /\ UNCHANGED <<journal, business, plan, trees, candidate, viewJ>>
          /\ \A q \in Procs :
               pc'[q] \in {"trees", "persist", "publish"} => pc'[q] = pc[q]
      BY <2>7 DEF RestartPriorScience, RestartPriorScienceFails, Report
    <3>6. QED
      BY <3>2, <3>3, <3>4, <3>5 DEF QuietInv, ScienceFailed, Captured
  <2>8. QED
    BY <1>5, <2>1, <2>2, <2>3, <2>4, <2>5, <2>6, <2>7 DEF Effect
<1>6. ASSUME NEW p \in Procs,
             Relaunch(p) \/ CheckpointFault(p) \/ Crash(p) \/ QuitAndReopen(p)
      PROVE  QuietInv'
  <2>1. CASE Relaunch(p) \/ QuitAndReopen(p)
    BY <2>1, KeepQuiet DEF Relaunch, QuitAndReopen
  <2>2. CASE CheckpointFault(p)
    BY <2>2, ReturnKeepsQuiet DEF CheckpointFault
  <2>3. CASE Crash(p)
    BY <2>3, KeepQuiet DEF Crash, DropLocals
  <2>4. QED
    BY <1>6, <2>1, <2>2, <2>3
<1>7. QED
  BY <1>1, <1>2, <1>3, <1>4, <1>5, <1>6 DEF Next, Progress

-----------------------------------------------------------------------------
(* The theorems.                                                            *)

CInv == Inv /\ WhyInv /\ QuietInv

\* Inv, strengthened by the reasons of the outcomes, is inductive.
THEOREM ContractInvariance == Spec => []CInv
<1>1. Init => WhyInv /\ QuietInv
  BY WhyInit, QuietInit
<1>2. Inv /\ WhyInv /\ QuietInv /\ [Next]_vars => WhyInv' /\ QuietInv'
  BY WhyStep, QuietStep DEF Inv
<1>3. QED
  BY <1>1, <1>2, Invariance, PTL DEF Spec, CInv

\* The authority trees are replaced only with the candidate stopped, and the
\* prior Science comes back only on the restored trees and business record.
THEOREM RestoresUnderQuiescence == Spec => []RestoreUnderQuiescence
<1>1. CInv => RestoreUnderQuiescence
  BY DEF CInv, QuietInv, RestoreUnderQuiescence
<1>2. QED
  BY <1>1, ContractInvariance, PTL

-----------------------------------------------------------------------------
(* The refinement.                                                          *)

\* A journal with five outcomes and no failure says that all is restored and
\* that the snapshot is gone.
LEMMA CleanMeansRestored ==
  ASSUME CInv, AllTerminal(journal), FailedSteps(journal) = {}
  PROVE  Restored /\ registry = "empty"
<1> USE DEF Steps, ScienceCleanup, SshCleanup, AuthorityRestore,
            PriorScienceRestart, SnapshotCleanup
<1>1. \A s \in Steps : /\ Why(journal, s, journal.steps[s])
                       /\ journal.steps[s] # "failed"
  BY DEF CInv, WhyInv, RecordedWhy, AllTerminal, FailedSteps
<1>2. ~ScienceFailed(journal)
  BY <1>1 DEF ScienceFailed
<1>3. \A s \in Steps : /\ journal.steps[s] \in Outcomes(s)
                       /\ journal.steps[s] \notin {"failed", "blocked_science"}
  BY <1>1, <1>2 DEF Why
<1>4. /\ journal.steps[ScienceCleanup] \in {"succeeded", "no_candidate"}
      /\ journal.steps[SshCleanup] = "succeeded"
      /\ journal.steps[AuthorityRestore] = "succeeded"
  BY <1>3 DEF Outcomes
<1>5. journal.steps[PriorScienceRestart]
        \in {"succeeded", "no_prior", "cross_runtime"}
  BY <1>1, <1>3, <1>4 DEF Outcomes, Why
<1>6. AuthoritiesRestored(journal)
  BY <1>4, <1>5 DEF AuthoritiesRestored
<1>7. journal.steps[SnapshotCleanup] = "succeeded"
  BY <1>1, <1>3, <1>6 DEF Outcomes, Why
<1>8. registry = "empty"
  BY <1>1, <1>7 DEF Why
<1>9. QED
  BY <1>6, <1>8, DoneRestores DEF CInv, Inv, WorldInv

\* The actions that no part of the mapping sees.
LEMMA Stutters ==
  ASSUME UNCHANGED <<journal, registry, snapshot, plan, candidate, ssh, trees,
                     business, prior>>
  PROVE  UNCHANGED Contract!cvars
BY DEF Contract!cvars, Restored, Captured

\* An effect of a step before the last works on the world under an open
\* journal, with the snapshot whole.
LEMMA Works ==
  ASSUME CInv, NEW p \in Procs, pc[p] \in Effecting, NEW s \in Steps,
         journal.steps[s] = "in_progress", s # SnapshotCleanup,
         UNCHANGED <<journal, registry, snapshot>>
  PROVE  Contract!Work
<1>1. journal.state = "in_progress"
  BY DEF CInv, Inv, IntentInv, EffectsUnderDurableIntent, Open
<1>2. registry = "active_recovery" /\ snapshot = "present"
  BY <1>1, KeptDuring DEF CInv, Inv, SnapshotInv, GivenUp, Open
<1>3. Restored' \in BOOLEAN
  BY DEF Restored
<1>4. QED
  BY <1>1, <1>2, <1>3 DEF Contract!Work

\* An effect of the last step gives the snapshot up, of a restored world.
LEMMA GivesUp ==
  ASSUME CInv, NEW p \in Procs, pc[p] \in Effecting,
         AuthoritiesRestored(journal),
         UNCHANGED <<journal, plan, candidate, ssh, trees, business, prior>>,
         registry' # "active_recovery" \/ snapshot' # "present"
  PROVE  Contract!GiveUpSnapshot
<1>1. journal.state = "in_progress"
  BY DEF CInv, Inv, IntentInv, EffectsUnderDurableIntent, Open
<1>2. Restored /\ Restored'
  BY DoneRestores DEF CInv, Inv, WorldInv, Restored, Captured
<1>3. QED
  BY <1>1, <1>2 DEF Contract!GiveUpSnapshot

\* The journal moves between two open states.
LEMMA StaysOpen ==
  ASSUME journal.state = "in_progress", journal'.state = "in_progress",
         UNCHANGED <<registry, snapshot, plan, candidate, ssh, trees,
                     business, prior>>
  PROVE  UNCHANGED Contract!cvars
BY DEF Contract!cvars, Restored, Captured

LEMMA ContractInit == Init => Contract!Init
BY DEF Init, NoJournal, Contract!Init, Restored

LEMMA ContractStep == CInv /\ [Next]_vars => [Contract!Next]_Contract!cvars
<1> SUFFICES ASSUME CInv, [Next]_vars
             PROVE  Contract!Next \/ UNCHANGED Contract!cvars
    OBVIOUS
<1> journal \in Journals /\ viewJ \in [Procs -> Journals]
    BY DEF CInv, Inv, TypeInv, TypeOK
<1> USE DEF durable, world, Leave, Contract!Next
<1>1. CASE UNCHANGED vars
  BY <1>1, Stutters DEF vars
<1>2. ASSUME NEW p \in Procs, Checkpoint(p)
      PROVE  Contract!Next \/ UNCHANGED Contract!cvars
  <2>1. CASE PersistManifest(p) \/ PersistFails(p) \/ LoseCheckpoint(p)
    BY <2>1, Stutters DEF PersistManifest, PersistFails, LoseCheckpoint
  <2>2. CASE PublishJournal(p)
    <3>1. /\ journal.state = "none" /\ journal'.state = "in_progress"
          /\ UNCHANGED <<registry, snapshot, plan, candidate, ssh, trees,
                         business, prior>>
      BY <2>2 DEF PublishJournal, NoJournal
    <3>2. registry = "active_recovery"
      BY <2>2 DEF PublishJournal, CInv, Inv, SnapshotInv, Unpublished, GivenUp
    <3>3. Contract!Publish
      BY <3>1, <3>2 DEF Contract!Publish, Restored, Captured
    <3>4. QED
      BY <3>3
  <2>3. CASE BeginStep(p)
    <3>1. \E s \in Steps : /\ CanonicalAt(journal, s, "pending")
                           /\ journal' = WithStep(journal, s, "in_progress")
      BY <2>3 DEF BeginStep, CasHolds
    <3>2. journal.state = "in_progress" /\ journal'.state = "in_progress"
      BY <3>1 DEF CanonicalAt, Open, WithStep, Journals
    <3>3. QED
      BY <2>3, <3>2, StaysOpen DEF BeginStep
  <2>4. CASE FinishStep(p)
    <3>1. \E s \in Steps : /\ CanonicalAt(journal, s, "in_progress")
                           /\ journal' = WithStep(journal, s, result[p])
      BY <2>4 DEF FinishStep, OutcomeCas, CasHolds
    <3>2. journal.state = "in_progress" /\ journal'.state = "in_progress"
      BY <3>1 DEF CanonicalAt, Open, WithStep, Journals
    <3>3. QED
      BY <2>4, <3>2, StaysOpen DEF FinishStep
  <2>5. CASE Finish(p)
    <3>1. /\ journal = viewJ[p] /\ journal.state = "in_progress"
          /\ UNCHANGED <<registry, snapshot, plan, candidate, ssh, trees,
                         business, prior>>
      BY <2>5 DEF Finish, CasHolds, Open
    <3>2. Restored' = Restored
      BY <3>1 DEF Restored, Captured
    <3>3. CASE FailedSteps(journal) = {}
      <4>1. Restored /\ registry = "empty"
        BY <2>5, <3>1, <3>3, CleanMeansRestored DEF Finish
      <4>2. journal'.state = "none"
        BY <2>5, <3>1, <3>3 DEF Finish, NoJournal
      <4>3. Contract!Clear
        BY <3>1, <3>2, <4>1, <4>2 DEF Contract!Clear
      <4>4. QED
        BY <4>3
    <3>4. CASE FailedSteps(journal) # {}
      <4>1. journal'.state = "incomplete"
        BY <2>5, <3>1, <3>4 DEF Finish, Journals
      <4>2. Contract!CloseIncomplete
        BY <3>1, <3>2, <4>1 DEF Contract!CloseIncomplete
      <4>3. QED
        BY <4>2
    <3>5. QED
      BY <3>3, <3>4
  <2>6. QED
    BY <1>2, <2>1, <2>2, <2>3, <2>4, <2>5 DEF Checkpoint
<1>3. ASSUME NEW p \in Procs, Acquire(p)
      PROVE  Contract!Next \/ UNCHANGED Contract!cvars
  BY <1>3, Stutters DEF Acquire, TakeLiveLease, TakeReplayLease, TakeAuthLease
<1>4. ASSUME NEW p \in Procs, Entry(p)
      PROVE  Contract!Next \/ UNCHANGED Contract!cvars
  BY <1>4, Stutters
     DEF Entry, EnterCommand, RecheckBeforeAuth, FinishAuth, LoadStep,
         RefuseReplay
<1>5. ASSUME NEW p \in Procs, Effect(p)
      PROVE  Contract!Next \/ UNCHANGED Contract!cvars
  <2> /\ IntentInv /\ PointInv
      /\ \A s \in Steps : Runs(p, s) =>
           pc[p] \in Effecting /\ journal.steps[s] = "in_progress"
      BY DEF CInv, Inv, WorldInv, Runs, At, Effecting, IntentInv,
             EffectsUnderDurableIntent
  <2> pc[p] \in {"trees", "config", "regateway", "discard", "unregister"} =>
        /\ pc[p] \in Effecting
        /\ viewJ[p] = journal
      BY DEF Effecting, IntentInv, EffectsUnderDurableIntent
  <2> {ScienceCleanup, SshCleanup, AuthorityRestore, PriorScienceRestart}
        = Steps \ {SnapshotCleanup}
      BY DEF Steps, ScienceCleanup, SshCleanup, AuthorityRestore,
             PriorScienceRestart, SnapshotCleanup
  <2>1. CASE DecideStep(p) \/ RestoreRefused(p) \/ CleanupAlreadyDone(p)
               \/ SnapshotCleanupFails(p) \/ StopCandidateGateway(p)
               \/ RestoreConfigFails(p) \/ RestoreAppState(p)
               \/ RestoreAppStateFails(p)
    BY <2>1, Stutters
       DEF DecideStep, RestoreRefused, CleanupAlreadyDone,
           SnapshotCleanupFails, StopCandidateGateway, RestoreConfigFails,
           RestoreAppState, RestoreAppStateFails
  <2>2. CASE StopCandidate(p) \/ StopCandidateFails(p)
    BY <2>2, Works DEF StopCandidate, StopCandidateFails
  <2>3. CASE CompensateSsh(p) \/ CompensateSshFails(p)
    BY <2>3, Works DEF CompensateSsh, CompensateSshFails
  <2>4. CASE RestoreTrees(p) \/ RestoreTreesFails(p) \/ RestoreConfig(p)
    <3>1. /\ pc[p] \in Effecting
          /\ journal.steps[AuthorityRestore] = "in_progress"
      BY <2>4 DEF RestoreTrees, RestoreTreesFails, RestoreConfig, PointInv,
                  AtPoint
    <3>2. UNCHANGED <<journal, registry, snapshot>>
      BY <2>4 DEF RestoreTrees, RestoreTreesFails, RestoreConfig
    <3>3. QED
      BY <3>1, <3>2, Works
  <2>5. CASE RestartPriorScience(p) \/ RestartPriorScienceFails(p)
    BY <2>5, Works DEF RestartPriorScience, RestartPriorScienceFails
  <2>6. CASE PrepareCleanup(p)
    <3>1. pc[p] \in Effecting /\ viewJ[p] = journal
      BY <2>6 DEF PrepareCleanup, Runs, At, Effecting, IntentInv,
                  EffectsUnderDurableIntent
    <3>2. AuthoritiesRestored(journal)
      BY <2>6, <3>1, DecidedWhy DEF PrepareCleanup, Runs, Steps,
                                    SnapshotCleanup
    <3>3. QED
      BY <2>6, <3>1, <3>2, GivesUp DEF PrepareCleanup
  <2>7. CASE DiscardSnapshot(p) \/ Unregister(p)
    <3>1. pc[p] \in Effecting /\ AuthoritiesRestored(journal)
      BY <2>7 DEF DiscardSnapshot, Unregister, PointInv, AtPoint
    <3>2. /\ UNCHANGED <<journal, plan, candidate, ssh, trees, business, prior>>
          /\ registry' # "active_recovery" \/ snapshot' # "present"
      BY <2>7 DEF DiscardSnapshot, Unregister
    <3>3. QED
      BY <3>1, <3>2, GivesUp
  <2>8. QED
    BY <1>5, <2>1, <2>2, <2>3, <2>4, <2>5, <2>6, <2>7 DEF Effect
<1>6. ASSUME NEW p \in Procs,
             Relaunch(p) \/ CheckpointFault(p) \/ Crash(p) \/ QuitAndReopen(p)
      PROVE  Contract!Next \/ UNCHANGED Contract!cvars
  BY <1>6, Stutters DEF Relaunch, CheckpointFault, Crash, QuitAndReopen
<1>7. QED
  BY <1>1, <1>2, <1>3, <1>4, <1>5, <1>6 DEF Next, Progress

\* The compensation, live or replayed, interrupted at any point and however
\* often, keeps the contract: it gives the snapshot up only of a restored
\* world and clears the journal only after that.
THEOREM Implements == Spec => ImplementsContract
<1>1. CInv /\ [Next]_vars => [Contract!Next]_Contract!cvars
  BY ContractStep
<1>2. QED
  BY <1>1, ContractInit, ContractInvariance, PTL
     DEF Spec, ImplementsContract, Contract!Spec
=============================================================================
