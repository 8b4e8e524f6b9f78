-------------------- MODULE OneClickCompensation_proofs --------------------
(* Proofs about OneClickCompensation, for every number of processes, every *)
(* set of failed runs and every bound on faults.                           *)
EXTENDS OneClickCompensation, TLAPS

-----------------------------------------------------------------------------
(* Type correctness.  An outcome can only be recorded once it is known.    *)

ResultReported == \A p \in Procs : pc[p] = "outcome" => result[p] \in Terminal

TypeInv == TypeOK /\ ResultReported

LEMMA NoJournalType == NoJournal \in Journals
BY DEF NoJournal, Journals, StepStates

LEMMA PublishedType == [NoJournal EXCEPT !.state = "in_progress"] \in Journals
BY NoJournalType DEF Journals

LEMMA WithStepType ==
  ASSUME NEW j \in Journals, NEW s \in Steps, NEW o \in StepStates
  PROVE  WithStep(j, s, o) \in Journals
BY DEF Journals, WithStep

LEMMA ClosedType ==
  ASSUME NEW j \in Journals
  PROVE  [j EXCEPT !.state = "incomplete", !.failed = FailedSteps(j)]
           \in Journals
<1>1. FailedSteps(j) \subseteq Steps
  BY DEF FailedSteps
<1>2. QED
  BY <1>1 DEF Journals

LEMMA DecidedTerminal ==
  \A p \in Procs, s \in Steps : Decisions(p, s) \subseteq Terminal \cup {"none"}
BY DEF Decisions, Reconfirmed, Terminal, SkipCauses

LEMMA TypeInit == Init => TypeInv
<1> SUFFICES ASSUME Init PROVE TypeInv
    OBVIOUS
<1>1. PICK p \in Procs, b \in BOOLEAN :
        /\ pc = [q \in Procs |-> IF q = p THEN "persist" ELSE "idle"]
        /\ role = [q \in Procs |-> IF q = p THEN "live" ELSE "replay"]
        /\ owned = [q \in Procs |-> q = p /\ b]
  BY DEF Init
<1>2. pc \in [Procs -> PCs] /\ role \in [Procs -> {"live", "replay"}]
  BY <1>1 DEF PCs
<1>3. owned \in [Procs -> BOOLEAN]
  BY <1>1, Zenon
<1>4. /\ journal \in Journals
      /\ viewJ \in [Procs -> Journals]
  BY NoJournalType DEF Init
<1>5. plan \in Plans /\ candidate \in {"running", "stopped"}
  BY DEF Init, PossiblePlans
<1>6. /\ viewB \in [Procs -> {"active", "captured"}]
      /\ result \in [Procs -> Terminal \cup {"none"}]
  BY DEF Init
<1>7. faults \in 0..MaxFaults
  BY FaultAssumption DEF Init
<1>8. ResultReported
  BY <1>1 DEF ResultReported
<1>9. QED
  BY <1>2, <1>3, <1>4, <1>5, <1>6, <1>7, <1>8 DEF Init, TypeInv, TypeOK

LEMMA TypeStep == TypeInv /\ [Next]_vars => TypeInv'
<1> SUFFICES ASSUME TypeInv, [Next]_vars PROVE TypeInv'
    OBVIOUS
<1> USE DEF TypeInv, TypeOK, ResultReported, Goto, Leave, Return,
        Release, DropLocals, durable, world, locks, local, PCs
<1>1. CASE UNCHANGED vars
  BY <1>1 DEF vars
<1>2. ASSUME NEW p \in Procs, Checkpoint(p) PROVE TypeInv'
  <2>1. CASE PersistManifest(p)
    BY <2>1 DEF PersistManifest
  <2>2. CASE PersistFails(p)
    BY <2>2, NoJournalType DEF PersistFails
  <2>3. CASE PublishJournal(p)
    BY <2>3, PublishedType DEF PublishJournal
  <2>4. CASE BeginStep(p)
    <3>1. PICK s \in Steps : journal' = WithStep(viewJ[p], s, "in_progress")
      BY <2>4 DEF BeginStep
    <3>2. journal' \in Journals
      BY <3>1, WithStepType DEF StepStates
    <3>3. QED
      BY <2>4, <3>2 DEF BeginStep
  <2>5. CASE FinishStep(p)
    <3>1. PICK s \in Steps :
            /\ journal' = WithStep(viewJ[p], s, result[p])
            /\ IF role[p] = "replay"
               THEN Return(p)
               ELSE /\ Goto(p, AfterOutcome(s, result[p]))
                    /\ viewJ' = [viewJ EXCEPT ![p] = journal']
                    /\ viewB' = [viewB EXCEPT ![p] = business]
                    /\ UNCHANGED <<locks, role, result>>
      BY <2>5 DEF FinishStep
    <3>2. journal' \in Journals
      BY <2>5, <3>1, WithStepType DEF FinishStep, StepStates
    <3>3. QED
      BY <2>5, <3>1, <3>2, NoJournalType DEF FinishStep, AfterOutcome
  <2>6. CASE Finish(p)
    <3>1. journal' \in Journals
      BY <2>6, NoJournalType, ClosedType DEF Finish
    <3>2. QED
      BY <2>6, <3>1, NoJournalType DEF Finish
  <2>7. CASE LoseCheckpoint(p)
    BY <2>7, NoJournalType DEF LoseCheckpoint
  <2>8. QED
    BY <1>2, <2>1, <2>2, <2>3, <2>4, <2>5, <2>6, <2>7 DEF Checkpoint
<1>3. ASSUME NEW p \in Procs, Acquire(p) PROVE TypeInv'
  <2>1. CASE TakeLiveLease(p)
    BY <2>1 DEF TakeLiveLease, TakeExclusive
  <2>2. CASE TakeReplayLease(p)
    BY <2>2 DEF TakeReplayLease, TakeExclusive
  <2>3. CASE TakeAuthLease(p)
    BY <2>3 DEF TakeAuthLease
  <2>4. QED
    BY <1>3, <2>1, <2>2, <2>3 DEF Acquire
<1>4. ASSUME NEW p \in Procs, Entry(p) PROVE TypeInv'
  <2>1. CASE EnterCommand(p)
    BY <2>1 DEF EnterCommand
  <2>2. CASE RecheckBeforeAuth(p)
    BY <2>2, NoJournalType DEF RecheckBeforeAuth
  <2>3. CASE FinishAuth(p)
    BY <2>3, NoJournalType DEF FinishAuth
  <2>4. CASE LoadStep(p)
    BY <2>4 DEF LoadStep, ExpectedBusiness
  <2>5. CASE RefuseReplay(p)
    BY <2>5, NoJournalType DEF RefuseReplay
  <2>6. QED
    BY <1>4, <2>1, <2>2, <2>3, <2>4, <2>5 DEF Entry
<1>5. ASSUME NEW p \in Procs, Effect(p) PROVE TypeInv'
  <2>1. CASE DecideStep(p)
    <3>1. PICK s \in Steps, o \in Terminal \cup {"none"} :
            o \in Decisions(p, s) \ {"none"} /\ Report(p, o)
      BY <2>1, DecidedTerminal DEF DecideStep
    <3>2. o \in Terminal
      BY <3>1
    <3>3. QED
      BY <2>1, <3>1, <3>2 DEF DecideStep, Report
  <2>2. CASE StopCandidate(p)
    BY <2>2 DEF StopCandidate, Report, Terminal
  <2>3. CASE StopCandidateFails(p)
    BY <2>3 DEF StopCandidateFails, Report, Terminal
  <2>4. CASE CompensateSsh(p)
    BY <2>4 DEF CompensateSsh, Report, Terminal
  <2>5. CASE CompensateSshFails(p)
    BY <2>5 DEF CompensateSshFails, Report, Terminal
  <2>6. CASE StopCandidateGateway(p)
    BY <2>6 DEF StopCandidateGateway
  <2>7. CASE RestoreRefused(p)
    BY <2>7 DEF RestoreRefused, Report, Terminal
  <2>8. CASE RestoreTrees(p)
    BY <2>8 DEF RestoreTrees
  <2>9. CASE RestoreTreesFails(p)
    BY <2>9 DEF RestoreTreesFails, Terminal
  <2>10. CASE RestoreConfig(p)
    BY <2>10 DEF RestoreConfig, Report, Captured, Terminal
  <2>11. CASE RestoreConfigFails(p)
    BY <2>11 DEF RestoreConfigFails, Terminal
  <2>12. CASE RestoreAppState(p)
    BY <2>12 DEF RestoreAppState, Report, Terminal
  <2>13. CASE RestoreAppStateFails(p)
    BY <2>13 DEF RestoreAppStateFails, Report, Terminal
  <2>14. CASE RestartPriorScience(p)
    BY <2>14 DEF RestartPriorScience, Report, LaunchId, Terminal
  <2>15. CASE RestartPriorScienceFails(p)
    BY <2>15 DEF RestartPriorScienceFails, Report, LaunchId, Terminal
  <2>16. CASE PrepareCleanup(p)
    BY <2>16 DEF PrepareCleanup
  <2>17. CASE CleanupAlreadyDone(p)
    BY <2>17 DEF CleanupAlreadyDone, Report, Terminal
  <2>18. CASE DiscardSnapshot(p)
    BY <2>18 DEF DiscardSnapshot
  <2>19. CASE Unregister(p)
    BY <2>19 DEF Unregister, Report, Terminal
  <2>20. CASE SnapshotCleanupFails(p)
    BY <2>20 DEF SnapshotCleanupFails, Report, Terminal
  <2>21. QED
    BY <1>5, <2>1, <2>2, <2>3, <2>4, <2>5, <2>6, <2>7, <2>8, <2>9, <2>10, <2>11, <2>12, <2>13, <2>14, <2>15, <2>16, <2>17, <2>18, <2>19, <2>20 DEF Effect
<1>6. ASSUME NEW p \in Procs,
             Relaunch(p) \/ CheckpointFault(p) \/ Crash(p) \/ QuitAndReopen(p)
      PROVE  TypeInv'
  <2>1. CASE Relaunch(p)
    BY <2>1 DEF Relaunch
  <2>2. CASE CheckpointFault(p)
    BY <2>2, NoJournalType, FaultAssumption DEF CheckpointFault
  <2>3. CASE Crash(p)
    BY <2>3, NoJournalType, FaultAssumption DEF Crash
  <2>4. CASE QuitAndReopen(p)
    BY <2>4 DEF QuitAndReopen
  <2>5. QED
    BY <1>6, <2>1, <2>2, <2>3, <2>4
<1>7. QED
  BY <1>1, <1>2, <1>3, <1>4, <1>5, <1>6 DEF Next, Progress

\* Every variable keeps its type, and no outcome is recorded before the effect
\* it describes has reported one (type of the state of the compensation).
THEOREM TypeCorrect == Spec => []TypeOK
<1>1. TypeInv => TypeOK
  BY DEF TypeInv
<1>2. QED
  BY TypeInit, TypeStep, <1>1, PTL DEF Spec

-----------------------------------------------------------------------------
(* The flock: who is past an acquisition holds what it acquired, and an    *)
(* exclusive holder excludes every shared one.                             *)

LockInv ==
  /\ \A p \in Procs : pc[p] \in Exclusive => exHolder = p
  /\ \A p \in Procs : pc[p] \in {"auth_check", "auth"} => p \in shHolders
  /\ exHolder # None => shHolders = {}

LEMMA LockInit == Init => LockInv
BY DEF Init, LockInv, Exclusive

LEMMA LockStep == TypeInv /\ LockInv /\ [Next]_vars => LockInv'
<1> SUFFICES ASSUME TypeInv, LockInv, [Next]_vars PROVE LockInv'
    OBVIOUS
<1> pc \in [Procs -> PCs]
    BY DEF TypeInv, TypeOK
<1> USE NoneAssumption DEF LockInv, LockFree, Exclusive, Goto, Leave, Return, Release, locks
<1>1. CASE UNCHANGED vars
  BY <1>1 DEF vars
<1>2. ASSUME NEW p \in Procs, Checkpoint(p) PROVE LockInv'
  <2>1. CASE PersistManifest(p)
    BY <2>1 DEF PersistManifest
  <2>2. CASE PersistFails(p)
    BY <2>2 DEF PersistFails
  <2>3. CASE PublishJournal(p)
    BY <2>3 DEF PublishJournal
  <2>4. CASE BeginStep(p)
    BY <2>4 DEF BeginStep
  <2>5. CASE FinishStep(p)
    BY <2>5 DEF FinishStep, AfterOutcome
  <2>6. CASE Finish(p)
    BY <2>6 DEF Finish
  <2>7. CASE LoseCheckpoint(p)
    BY <2>7 DEF LoseCheckpoint
  <2>8. QED
    BY <1>2, <2>1, <2>2, <2>3, <2>4, <2>5, <2>6, <2>7 DEF Checkpoint
<1>3. ASSUME NEW p \in Procs, Acquire(p) PROVE LockInv'
  <2>1. CASE TakeLiveLease(p)
    BY <2>1 DEF TakeLiveLease, TakeExclusive
  <2>2. CASE TakeReplayLease(p)
    BY <2>2 DEF TakeReplayLease, TakeExclusive
  <2>3. CASE TakeAuthLease(p)
    BY <2>3 DEF TakeAuthLease
  <2>4. QED
    BY <1>3, <2>1, <2>2, <2>3 DEF Acquire
<1>4. ASSUME NEW p \in Procs, Entry(p) PROVE LockInv'
  <2>1. CASE EnterCommand(p)
    BY <2>1 DEF EnterCommand
  <2>2. CASE RecheckBeforeAuth(p)
    BY <2>2 DEF RecheckBeforeAuth
  <2>3. CASE FinishAuth(p)
    BY <2>3 DEF FinishAuth
  <2>4. CASE LoadStep(p)
    BY <2>4 DEF LoadStep
  <2>5. CASE RefuseReplay(p)
    BY <2>5 DEF RefuseReplay
  <2>6. QED
    BY <1>4, <2>1, <2>2, <2>3, <2>4, <2>5 DEF Entry
<1>5. ASSUME NEW p \in Procs, Effect(p) PROVE LockInv'
  <2>1. CASE DecideStep(p)
    BY <2>1 DEF DecideStep, Report, At
  <2>2. CASE StopCandidate(p)
    BY <2>2 DEF StopCandidate, Report, Runs, At
  <2>3. CASE StopCandidateFails(p)
    BY <2>3 DEF StopCandidateFails, Report, Runs, At
  <2>4. CASE CompensateSsh(p)
    BY <2>4 DEF CompensateSsh, Report, Runs, At
  <2>5. CASE CompensateSshFails(p)
    BY <2>5 DEF CompensateSshFails, Report, Runs, At
  <2>6. CASE StopCandidateGateway(p)
    BY <2>6 DEF StopCandidateGateway, Runs, At
  <2>7. CASE RestoreRefused(p)
    BY <2>7 DEF RestoreRefused, Report, Runs, At
  <2>8. CASE RestoreTrees(p)
    BY <2>8 DEF RestoreTrees
  <2>9. CASE RestoreTreesFails(p)
    BY <2>9 DEF RestoreTreesFails
  <2>10. CASE RestoreConfig(p)
    BY <2>10 DEF RestoreConfig, Report
  <2>11. CASE RestoreConfigFails(p)
    BY <2>11 DEF RestoreConfigFails
  <2>12. CASE RestoreAppState(p)
    BY <2>12 DEF RestoreAppState, Report
  <2>13. CASE RestoreAppStateFails(p)
    BY <2>13 DEF RestoreAppStateFails, Report
  <2>14. CASE RestartPriorScience(p)
    BY <2>14 DEF RestartPriorScience, Report, Runs, At
  <2>15. CASE RestartPriorScienceFails(p)
    BY <2>15 DEF RestartPriorScienceFails, Report, Runs, At
  <2>16. CASE PrepareCleanup(p)
    BY <2>16 DEF PrepareCleanup, Runs, At
  <2>17. CASE CleanupAlreadyDone(p)
    BY <2>17 DEF CleanupAlreadyDone, Report, Runs, At
  <2>18. CASE DiscardSnapshot(p)
    BY <2>18 DEF DiscardSnapshot
  <2>19. CASE Unregister(p)
    BY <2>19 DEF Unregister, Report
  <2>20. CASE SnapshotCleanupFails(p)
    BY <2>20 DEF SnapshotCleanupFails, Report, Runs, At
  <2>21. QED
    BY <1>5, <2>1, <2>2, <2>3, <2>4, <2>5, <2>6, <2>7, <2>8, <2>9, <2>10,
             <2>11, <2>12, <2>13, <2>14, <2>15, <2>16, <2>17, <2>18, <2>19,
             <2>20 DEF Effect
<1>6. ASSUME NEW p \in Procs,
             Relaunch(p) \/ CheckpointFault(p) \/ Crash(p) \/ QuitAndReopen(p)
      PROVE  LockInv'
  <2>1. CASE Relaunch(p)
    BY <2>1 DEF Relaunch
  <2>2. CASE CheckpointFault(p)
    BY <2>2 DEF CheckpointFault
  <2>3. CASE Crash(p)
    BY <2>3 DEF Crash
  <2>4. CASE QuitAndReopen(p)
    BY <2>4 DEF QuitAndReopen
  <2>5. QED
    BY <1>6, <2>1, <2>2, <2>3, <2>4
<1>7. QED
  BY <1>1, <1>2, <1>3, <1>4, <1>5, <1>6 DEF Next, Progress
-----------------------------------------------------------------------------
(* The durable intent: between the intent and the outcome of a step its    *)
(* process owns the lease and the journal it sees is the one on disk.      *)

IntentInv == EffectsUnderDurableIntent /\ AuthOnlyWithoutJournal

LEMMA IntentInit == Init => IntentInv
BY DEF Init, IntentInv, EffectsUnderDurableIntent, AuthOnlyWithoutJournal,
       Effecting

LEMMA IntentStep ==
  TypeInv /\ LockInv /\ IntentInv /\ [Next]_vars => IntentInv'
<1> SUFFICES ASSUME TypeInv, LockInv, IntentInv, [Next]_vars
             PROVE  IntentInv'
    OBVIOUS
<1> /\ pc \in [Procs -> PCs]
    /\ viewJ \in [Procs -> Journals]
    /\ journal \in Journals
    BY DEF TypeInv, TypeOK
<1> LockInv'
    BY LockStep
<1> USE NoneAssumption DEF IntentInv, EffectsUnderDurableIntent, AuthOnlyWithoutJournal,
        LockInv, LockFree, Exclusive, Effecting, Open, Goto, Leave, Return, Release, DropLocals,
        durable, world, locks, local
<1>1. CASE UNCHANGED vars
  BY <1>1 DEF vars
<1>2. ASSUME NEW p \in Procs, Checkpoint(p) PROVE IntentInv'
  <2>1. CASE PersistManifest(p)
    BY <2>1 DEF PersistManifest
  <2>2. CASE PersistFails(p)
    BY <2>2 DEF PersistFails
  <2>3. CASE PublishJournal(p)
    BY <2>3 DEF PublishJournal, NoJournal
  <2>4. CASE BeginStep(p)
    BY <2>4 DEF BeginStep, CasHolds, CanonicalAt, WithStep, Journals
  <2>5. CASE FinishStep(p)
    BY <2>5 DEF FinishStep, AfterOutcome, WithStep
  <2>6. CASE Finish(p)
    BY <2>6 DEF Finish
  <2>7. CASE LoseCheckpoint(p)
    BY <2>7 DEF LoseCheckpoint
  <2>8. QED
    BY <1>2, <2>1, <2>2, <2>3, <2>4, <2>5, <2>6, <2>7 DEF Checkpoint
<1>3. ASSUME NEW p \in Procs, Acquire(p) PROVE IntentInv'
  <2>1. CASE TakeLiveLease(p)
    BY <2>1 DEF TakeLiveLease, TakeExclusive
  <2>2. CASE TakeReplayLease(p)
    BY <2>2 DEF TakeReplayLease, TakeExclusive
  <2>3. CASE TakeAuthLease(p)
    BY <2>3 DEF TakeAuthLease
  <2>4. QED
    BY <1>3, <2>1, <2>2, <2>3 DEF Acquire
<1>4. ASSUME NEW p \in Procs, Entry(p) PROVE IntentInv'
  <2>1. CASE EnterCommand(p)
    BY <2>1 DEF EnterCommand
  <2>2. CASE RecheckBeforeAuth(p)
    BY <2>2 DEF RecheckBeforeAuth
  <2>3. CASE FinishAuth(p)
    BY <2>3 DEF FinishAuth
  <2>4. CASE LoadStep(p)
    BY <2>4 DEF LoadStep, IsNext, Journals, StepStates
  <2>5. CASE RefuseReplay(p)
    BY <2>5 DEF RefuseReplay
  <2>6. QED
    BY <1>4, <2>1, <2>2, <2>3, <2>4, <2>5 DEF Entry
<1>5. ASSUME NEW p \in Procs, Effect(p) PROVE IntentInv'
  <2>1. CASE DecideStep(p)
    BY <2>1 DEF DecideStep, Report, At
  <2>2. CASE StopCandidate(p)
    BY <2>2 DEF StopCandidate, Report, Runs, At
  <2>3. CASE StopCandidateFails(p)
    BY <2>3 DEF StopCandidateFails, Report, Runs, At
  <2>4. CASE CompensateSsh(p)
    BY <2>4 DEF CompensateSsh, Report, Runs, At
  <2>5. CASE CompensateSshFails(p)
    BY <2>5 DEF CompensateSshFails, Report, Runs, At
  <2>6. CASE StopCandidateGateway(p)
    BY <2>6 DEF StopCandidateGateway, Runs, At
  <2>7. CASE RestoreRefused(p)
    BY <2>7 DEF RestoreRefused, Report, Runs, At
  <2>8. CASE RestoreTrees(p)
    BY <2>8 DEF RestoreTrees
  <2>9. CASE RestoreTreesFails(p)
    BY <2>9 DEF RestoreTreesFails
  <2>10. CASE RestoreConfig(p)
    BY <2>10 DEF RestoreConfig, Report
  <2>11. CASE RestoreConfigFails(p)
    BY <2>11 DEF RestoreConfigFails
  <2>12. CASE RestoreAppState(p)
    BY <2>12 DEF RestoreAppState, Report
  <2>13. CASE RestoreAppStateFails(p)
    BY <2>13 DEF RestoreAppStateFails, Report
  <2>14. CASE RestartPriorScience(p)
    BY <2>14 DEF RestartPriorScience, Report, Runs, At
  <2>15. CASE RestartPriorScienceFails(p)
    BY <2>15 DEF RestartPriorScienceFails, Report, Runs, At
  <2>16. CASE PrepareCleanup(p)
    BY <2>16 DEF PrepareCleanup, Runs, At
  <2>17. CASE CleanupAlreadyDone(p)
    BY <2>17 DEF CleanupAlreadyDone, Report, Runs, At
  <2>18. CASE DiscardSnapshot(p)
    BY <2>18 DEF DiscardSnapshot
  <2>19. CASE Unregister(p)
    BY <2>19 DEF Unregister, Report
  <2>20. CASE SnapshotCleanupFails(p)
    BY <2>20 DEF SnapshotCleanupFails, Report, Runs, At
  <2>21. QED
    BY <1>5, <2>1, <2>2, <2>3, <2>4, <2>5, <2>6, <2>7, <2>8, <2>9, <2>10,
             <2>11, <2>12, <2>13, <2>14, <2>15, <2>16, <2>17, <2>18, <2>19,
             <2>20 DEF Effect
<1>6. ASSUME NEW p \in Procs,
             Relaunch(p) \/ CheckpointFault(p) \/ Crash(p) \/ QuitAndReopen(p)
      PROVE  IntentInv'
  <2>1. CASE Relaunch(p)
    BY <2>1 DEF Relaunch
  <2>2. CASE CheckpointFault(p)
    BY <2>2 DEF CheckpointFault
  <2>3. CASE Crash(p)
    BY <2>3 DEF Crash
  <2>4. CASE QuitAndReopen(p)
    BY <2>4 DEF QuitAndReopen
  <2>5. QED
    BY <1>6, <2>1, <2>2, <2>3, <2>4
<1>7. QED
  BY <1>1, <1>2, <1>3, <1>4, <1>5, <1>6 DEF Next, Progress
-----------------------------------------------------------------------------
(* The journal is written by its lease holder only, one canonical step at  *)
(* a time, so that it always decodes.                                      *)

\* Only these actions write the journal.
LEMMA JournalWriters ==
  ASSUME TypeInv, NEW p \in Procs,
         Progress(p) \/ Acquire(p) \/ CheckpointFault(p) \/ Crash(p)
           \/ QuitAndReopen(p)
  PROVE  \/ UNCHANGED journal
         \/ PublishJournal(p) \/ BeginStep(p) \/ FinishStep(p) \/ Finish(p)
<1> USE DEF Leave, durable
<1>1. ASSUME Checkpoint(p) PROVE UNCHANGED journal \/ PublishJournal(p)
               \/ BeginStep(p) \/ FinishStep(p) \/ Finish(p)
  BY <1>1 DEF Checkpoint, PersistManifest, PersistFails, LoseCheckpoint
<1>2. ASSUME Acquire(p) PROVE UNCHANGED journal
  BY <1>2 DEF Acquire, TakeLiveLease, TakeReplayLease, TakeAuthLease
<1>3. ASSUME Entry(p) PROVE UNCHANGED journal
  BY <1>3 DEF Entry, EnterCommand, RecheckBeforeAuth, FinishAuth, LoadStep,
              RefuseReplay
<1>4. ASSUME Effect(p) PROVE UNCHANGED journal
  BY <1>4 DEF Effect, DecideStep, StopCandidate, StopCandidateFails,
              CompensateSsh, CompensateSshFails, StopCandidateGateway,
              RestoreRefused, RestoreTrees, RestoreTreesFails, RestoreConfig,
              RestoreConfigFails, RestoreAppState, RestoreAppStateFails,
              RestartPriorScience, RestartPriorScienceFails, PrepareCleanup,
              CleanupAlreadyDone, DiscardSnapshot, Unregister,
              SnapshotCleanupFails
<1>5. QED
  BY <1>1, <1>2, <1>3, <1>4
     DEF Progress, Relaunch, CheckpointFault, Crash, QuitAndReopen

LEMMA DecodeInit == Init => JournalDecodes
BY DEF Init, JournalDecodes, NoJournal

\* A step may move only when it is the canonical one.
LEMMA MoveDecodes ==
  ASSUME NEW j \in Journals, NEW s \in Steps, NEW from \in StepStates,
         NEW to \in StepStates, CanonicalAt(j, s, from),
         to = "in_progress" \/ to \in Terminal
  PROVE  LET k == WithStep(j, s, to) IN
         /\ k.state = "in_progress"
         /\ \A t, u \in Steps :
              t < u /\ k.steps[t] \notin Terminal => k.steps[u] = "pending"
BY DEF Journals, CanonicalAt, WithStep, Open, Steps

LEMMA DecodeStep ==
  TypeInv /\ JournalDecodes /\ [Next]_vars => JournalDecodes'
<1> SUFFICES ASSUME TypeInv, JournalDecodes, [Next]_vars
             PROVE  JournalDecodes'
    OBVIOUS
<1>1. CASE UNCHANGED journal
  BY <1>1 DEF JournalDecodes, FailedSteps
<1>2. ASSUME NEW p \in Procs, PublishJournal(p) PROVE JournalDecodes'
  BY <1>2 DEF PublishJournal, JournalDecodes, NoJournal
<1>3. ASSUME NEW p \in Procs, BeginStep(p) PROVE JournalDecodes'
  <2>1. PICK s \in Steps : /\ CanonicalAt(viewJ[p], s, "pending")
                           /\ journal' = WithStep(viewJ[p], s, "in_progress")
    BY <1>3 DEF BeginStep
  <2>2. viewJ[p] \in Journals
    BY DEF TypeInv, TypeOK
  <2>3. QED
    BY <2>1, <2>2, MoveDecodes DEF JournalDecodes, StepStates
<1>4. ASSUME NEW p \in Procs, FinishStep(p) PROVE JournalDecodes'
  <2>1. PICK s \in Steps : /\ CanonicalAt(viewJ[p], s, "in_progress")
                           /\ journal' = WithStep(viewJ[p], s, result[p])
    BY <1>4 DEF FinishStep
  <2>2. viewJ[p] \in Journals /\ result[p] \in Terminal
    BY <1>4 DEF TypeInv, TypeOK, ResultReported, FinishStep
  <2>3. QED
    BY <2>1, <2>2, MoveDecodes DEF JournalDecodes, StepStates
<1>5. ASSUME NEW p \in Procs, Finish(p) PROVE JournalDecodes'
  <2>1. journal \in Journals /\ journal = viewJ[p]
    BY <1>5 DEF TypeInv, TypeOK, Finish, CasHolds
  <2>2. CASE FailedSteps(viewJ[p]) = {}
    BY <1>5, <2>2 DEF Finish, JournalDecodes, NoJournal
  <2>3. CASE FailedSteps(viewJ[p]) # {}
    <3>1. /\ journal'.state = "incomplete"
          /\ journal'.steps = journal.steps
          /\ journal'.failed = FailedSteps(journal)
      BY <1>5, <2>1, <2>3 DEF Finish, Journals
    <3>2. FailedSteps(journal') = FailedSteps(journal)
      BY <3>1 DEF FailedSteps
    <3>3. QED
      BY <1>5, <2>1, <2>3, <3>1, <3>2 DEF Finish, JournalDecodes
  <2>4. QED
    BY <2>2, <2>3
<1>6. QED
  BY <1>1, <1>2, <1>3, <1>4, <1>5, JournalWriters DEF Next, vars, durable

-----------------------------------------------------------------------------
(* What the points of the restore have established, and what the terminal  *)
(* outcomes in the journal say of the world.                               *)

\* The step a program point belongs to, and what it has established.
AtPoint(p) ==
  /\ pc[p] = "effect" => result[p] = "none"
  /\ pc[p] \in {"trees", "config", "regateway"} =>
       viewJ[p].steps[AuthorityRestore] = "in_progress"
  /\ pc[p] = "trees" => result[p] = "none"
  /\ pc[p] = "config" =>
       result[p] = "none" \/ (role[p] = "live" /\ result[p] = "failed")
  /\ pc[p] = "config" /\ result[p] = "none" => trees = "restored"
  /\ pc[p] = "regateway" => result[p] \in {"none", "failed"}
  /\ pc[p] = "regateway" /\ result[p] = "none" =>
       trees = "restored" /\ business = Captured
  /\ pc[p] \in {"discard", "unregister"} =>
       /\ viewJ[p].steps[SnapshotCleanup] = "in_progress"
       /\ AuthoritiesRestored(viewJ[p])

PointInv == \A p \in Procs : AtPoint(p)

\* What outcome o of step s asserts.
Asserts(s, o) ==
  /\ s = ScienceCleanup /\ o \in {"succeeded", "no_candidate"} =>
       candidate = "stopped"
  /\ s = SshCleanup /\ o = "succeeded" => ssh = "clean"
  /\ s = AuthorityRestore /\ o = "succeeded" =>
       trees = "restored" /\ business = Captured
  /\ s = PriorScienceRestart =>
       /\ o = "succeeded" => prior # "stopped"
       /\ o = "no_prior" => ~plan.prior
       /\ o = "cross_runtime" => plan.cross

OutcomeInv ==
  \A p \in Procs, s \in Steps :
    pc[p] = "outcome" /\ viewJ[p].steps[s] = "in_progress" =>
      Asserts(s, result[p])

DoneInv == \A s \in Steps : Asserts(s, journal.steps[s])

NoCandidateInv ==
  plan.candidate = "none" => candidate = "stopped"

WorldInv == PointInv /\ OutcomeInv /\ DoneInv /\ NoCandidateInv

LEMMA WorldInit == Init => WorldInv
<1> SUFFICES ASSUME Init PROVE WorldInv
    OBVIOUS
<1>1. PointInv /\ OutcomeInv
  BY DEF Init, PointInv, AtPoint, OutcomeInv
<1>2. DoneInv
  BY DEF Init, DoneInv, Asserts, NoJournal
<1>3. NoCandidateInv
  BY DEF Init, NoCandidateInv, PossiblePlans, Plans
<1>4. QED
  BY <1>1, <1>2, <1>3 DEF WorldInv

LEMMA OneOwner ==
  ASSUME LockInv, NEW p \in Procs, NEW q \in Procs,
         pc[p] \in Exclusive, pc[q] \in Exclusive
  PROVE  p = q
BY NoneAssumption DEF LockInv

\* In a journal that decodes at most one step is in progress.
LEMMA OneStep ==
  ASSUME JournalDecodes, NEW s \in Steps, NEW t \in Steps,
         journal.steps[s] = "in_progress", journal.steps[t] = "in_progress"
  PROVE  s = t
BY DEF JournalDecodes, Steps, Terminal, SkipCauses

\* What a decision without an effect rests on.
LEMMA DecidedWhy ==
  ASSUME NEW p \in Procs, NEW s \in Steps, NEW o \in Decisions(p, s)
  PROVE
    /\ s = ScienceCleanup =>
         /\ o = "no_candidate" => plan.candidate = "none"
         /\ o = "succeeded" => candidate = "stopped"
    /\ s \in {SshCleanup, AuthorityRestore} => o # "succeeded"
    /\ s = PriorScienceRestart =>
         /\ o # "succeeded"
         /\ o = "no_prior" => ~plan.prior
         /\ o = "cross_runtime" => plan.cross
    /\ s = SnapshotCleanup =>
         /\ o # "succeeded"
         /\ o = "none" => AuthoritiesRestored(viewJ[p])
BY DEF Decisions, Reconfirmed, Steps, ScienceCleanup, SshCleanup, AuthorityRestore,
       PriorScienceRestart, SnapshotCleanup

\* A command that returns leaves the world, and what is known of it, alone.
LEMMA LeaveWorld ==
  ASSUME TypeInv, WorldInv, NEW p \in Procs, Leave(p)
  PROVE  WorldInv'
<1> USE DEF Leave, Return, Release, DropLocals, Goto, durable, world,
            TypeInv, TypeOK
<1>1. /\ UNCHANGED <<journal, business, plan, world>>
      /\ pc'[p] = "idle"
      /\ \A q \in Procs \ {p} : /\ pc'[q] = pc[q]
                               /\ viewJ'[q] = viewJ[q]
                               /\ result'[q] = result[q]
                               /\ role'[q] = role[q]
  OBVIOUS
<1> HIDE DEF Leave, Return, Release, DropLocals, Goto, durable, TypeInv,
             TypeOK
<1>2. PointInv'
  BY <1>1 DEF WorldInv, PointInv, AtPoint, Captured, AuthoritiesRestored
<1>3. OutcomeInv' /\ DoneInv' /\ NoCandidateInv'
  BY <1>1
     DEF WorldInv, OutcomeInv, DoneInv, NoCandidateInv, Asserts, Captured
<1>4. QED
  BY <1>2, <1>3 DEF WorldInv

LEMMA WorldStep ==
  TypeInv /\ LockInv /\ IntentInv /\ JournalDecodes /\ WorldInv /\ [Next]_vars
    => WorldInv'
<1> SUFFICES ASSUME TypeInv, LockInv, IntentInv, JournalDecodes, WorldInv,
                    [Next]_vars
             PROVE  WorldInv'
    OBVIOUS
<1> /\ pc \in [Procs -> PCs]
    /\ viewJ \in [Procs -> Journals]
    /\ journal \in Journals
    /\ result \in [Procs -> Terminal \cup {"none"}]
    BY DEF TypeInv, TypeOK
<1> USE OneOwner, OneStep DEF IntentInv, EffectsUnderDurableIntent, Exclusive, Effecting,
        WorldInv, PointInv, AtPoint, OutcomeInv, DoneInv, NoCandidateInv,
        Goto, Leave, Return, Release, DropLocals,
        durable, world, locks, local, ScienceCleanup, SshCleanup, AuthorityRestore, PriorScienceRestart, SnapshotCleanup, Steps
<1>1. CASE UNCHANGED vars
  BY <1>1 DEF vars, Asserts, Captured, AuthoritiesRestored
<1>2. ASSUME NEW p \in Procs, Checkpoint(p) PROVE WorldInv'
  <2>1. CASE PersistManifest(p)
    BY <2>1 DEF PersistManifest, Asserts, Captured
  <2>2. CASE PersistFails(p)
    BY <2>2, LeaveWorld DEF PersistFails
  <2>3. CASE PublishJournal(p)
    BY <2>3 DEF PublishJournal, NoJournal, Asserts
  <2>4. CASE BeginStep(p)
    <3>1. PICK s \in Steps : /\ CanonicalAt(viewJ[p], s, "pending")
                             /\ journal' = WithStep(viewJ[p], s, "in_progress")
      BY <2>4 DEF BeginStep
    <3>2. /\ journal = viewJ[p]
          /\ \A t \in Steps : journal'.steps[t] =
                IF t = s THEN "in_progress" ELSE journal.steps[t]
      BY <2>4, <3>1 DEF BeginStep, CasHolds, WithStep, Journals
    <3>3. PointInv' /\ OutcomeInv' /\ NoCandidateInv'
      BY <2>4, OneOwner DEF BeginStep, Asserts, Captured, AuthoritiesRestored
    <3>4. DoneInv'
      BY <2>4, <3>2 DEF BeginStep, Asserts, Captured
    <3>5. QED
      BY <3>3, <3>4
  <2>5. CASE FinishStep(p)
    <3>1. PICK s \in Steps :
            /\ CanonicalAt(viewJ[p], s, "in_progress")
            /\ journal' = WithStep(viewJ[p], s, result[p])
            /\ IF role[p] = "replay"
               THEN Return(p)
               ELSE /\ Goto(p, AfterOutcome(s, result[p]))
                    /\ viewJ' = [viewJ EXCEPT ![p] = journal']
                    /\ viewB' = [viewB EXCEPT ![p] = business]
                    /\ UNCHANGED <<locks, role, result>>
      BY <2>5 DEF FinishStep
    <3>2. /\ journal = viewJ[p]
          /\ \A t \in Steps : journal'.steps[t] =
                IF t = s THEN result[p] ELSE journal.steps[t]
      BY <2>5, <3>1 DEF FinishStep, WithStep, Journals
    <3>3. /\ pc'[p] \in {"idle", "intent", "finish"}
          /\ \A q \in Procs \ {p} : /\ pc'[q] = pc[q]
                                   /\ viewJ'[q] = viewJ[q]
                                   /\ result'[q] = result[q]
      BY <3>1 DEF AfterOutcome
    <3>4. UNCHANGED <<business, plan, world>>
      BY <2>5 DEF FinishStep
    <3>5. PointInv'
      BY <2>5, <3>3, <3>4, OneOwner
         DEF FinishStep, Captured, AuthoritiesRestored
    <3>6. OutcomeInv' /\ NoCandidateInv'
      BY <2>5, <3>3, <3>4, OneOwner DEF FinishStep, Asserts, Captured
    <3>7. Asserts(s, result[p])
      BY <2>5, <3>1 DEF FinishStep, CanonicalAt
    <3>8. DoneInv'
      BY <3>2, <3>4, <3>7 DEF Asserts, Captured
    <3>9. QED
      BY <3>5, <3>6, <3>8
  <2>6. CASE Finish(p)
    <3>1. /\ journal = viewJ[p]
          /\ pc'[p] = "idle"
          /\ UNCHANGED <<business, plan, world>>
      BY <2>6 DEF Finish, CasHolds
    <3>2. \A t \in Steps : journal'.steps[t] \in {journal.steps[t], "pending"}
      BY <2>6, <3>1 DEF Finish, NoJournal, Journals
    <3>3. PointInv' /\ OutcomeInv' /\ NoCandidateInv'
      BY <2>6, <3>1, OneOwner
         DEF Finish, Asserts, Captured, AuthoritiesRestored
    <3>4. DoneInv'
      BY <3>1, <3>2 DEF Asserts, Captured
    <3>5. QED
      BY <3>3, <3>4
  <2>7. CASE LoseCheckpoint(p)
    BY <2>7, LeaveWorld DEF LoseCheckpoint
  <2>8. QED
    BY <1>2, <2>1, <2>2, <2>3, <2>4, <2>5, <2>6, <2>7 DEF Checkpoint
<1>3. ASSUME NEW p \in Procs, Acquire(p) PROVE WorldInv'
  <2>1. CASE TakeLiveLease(p)
    BY <2>1 DEF TakeLiveLease, TakeExclusive, Asserts, Captured
  <2>2. CASE TakeReplayLease(p)
    BY <2>2 DEF TakeReplayLease, TakeExclusive, Asserts, Captured
  <2>3. CASE TakeAuthLease(p)
    BY <2>3 DEF TakeAuthLease, Asserts, Captured
  <2>4. QED
    BY <1>3, <2>1, <2>2, <2>3 DEF Acquire
<1>4. ASSUME NEW p \in Procs, Entry(p) PROVE WorldInv'
  <2>1. CASE EnterCommand(p)
    BY <2>1 DEF EnterCommand, Asserts, Captured
  <2>2. CASE RecheckBeforeAuth(p)
    <3>1. CASE journal.state = "none"
      BY <2>2, <3>1 DEF RecheckBeforeAuth, Asserts, Captured
    <3>2. CASE journal.state # "none"
      BY <2>2, <3>2, LeaveWorld DEF RecheckBeforeAuth
    <3>3. QED
      BY <3>1, <3>2
  <2>3. CASE FinishAuth(p)
    BY <2>3, LeaveWorld DEF FinishAuth
  <2>4. CASE LoadStep(p)
    BY <2>4 DEF LoadStep, Asserts, Captured
  <2>5. CASE RefuseReplay(p)
    BY <2>5, LeaveWorld DEF RefuseReplay
  <2>6. QED
    BY <1>4, <2>1, <2>2, <2>3, <2>4, <2>5 DEF Entry
<1>5. ASSUME NEW p \in Procs, Effect(p) PROVE WorldInv'
  <2>1. CASE DecideStep(p)
    <3>1. PICK s \in Steps, o \in Terminal \cup {"none"} :
            o \in Decisions(p, s) /\ At(p, s) /\ Report(p, o)
      BY <2>1, DecidedTerminal DEF DecideStep
    <3>2. Asserts(s, o)
      BY <3>1, DecidedWhy DEF Asserts
    <3>3. OutcomeInv'
      BY <2>1, <3>1, <3>2 DEF DecideStep, Report, At, Asserts, Captured
    <3>4. PointInv' /\ DoneInv' /\ NoCandidateInv'
      BY <2>1, <3>1
         DEF DecideStep, Report, At, Asserts, Captured, AuthoritiesRestored
    <3>5. QED
      BY <3>3, <3>4
  <2>2. CASE StopCandidate(p)
    BY <2>2 DEF StopCandidate, Report, Runs, At, Asserts, Captured
  <2>3. CASE StopCandidateFails(p)
    BY <2>3 DEF StopCandidateFails, Report, Runs, At, Asserts, Captured
  <2>4. CASE CompensateSsh(p)
    BY <2>4 DEF CompensateSsh, Report, Runs, At, Asserts, Captured
  <2>5. CASE CompensateSshFails(p)
    BY <2>5 DEF CompensateSshFails, Report, Runs, At, Asserts, Captured
  <2>6. CASE StopCandidateGateway(p)
    BY <2>6 DEF StopCandidateGateway, Runs, At, Asserts, Captured
  <2>7. CASE RestoreRefused(p)
    BY <2>7 DEF RestoreRefused, Report, Runs, At, Asserts, Captured
  <2>8. CASE RestoreTrees(p)
    <3>1. /\ journal.steps[AuthorityRestore] = "in_progress"
          /\ UNCHANGED <<journal, business, plan, viewJ, result, role>>
          /\ \/ trees' = "mixed" /\ UNCHANGED pc
             \/ trees' = "restored" /\ pc' = [pc EXCEPT ![p] = "config"]
      BY <2>8 DEF RestoreTrees
    <3>2. \A q \in Procs \ {p} : pc[q] \notin Exclusive
      BY <2>8, OneOwner DEF RestoreTrees
    <3>3. PointInv'
      BY <2>8, <3>1, <3>2 DEF RestoreTrees
    <3>4. OutcomeInv' /\ DoneInv' /\ NoCandidateInv'
      BY <2>8, <3>1 DEF RestoreTrees, Asserts, Captured
    <3>5. QED
      BY <3>3, <3>4
  <2>9. CASE RestoreTreesFails(p)
    BY <2>9 DEF RestoreTreesFails, Asserts, Captured
  <2>10. CASE RestoreConfig(p)
    <3>1. /\ business' = Captured /\ Captured' = Captured
          /\ journal.steps[AuthorityRestore] = "in_progress"
          /\ viewJ[p] = journal
          /\ UNCHANGED <<journal, plan, world, viewJ>>
          /\ pc'[p] \in {"regateway", "outcome"}
      BY <2>10 DEF RestoreConfig, Report, Captured
    <3>2. PointInv'
      BY <2>10, <3>1, OneOwner DEF RestoreConfig, Report, AuthoritiesRestored
    <3>3. OutcomeInv' /\ DoneInv' /\ NoCandidateInv'
      BY <2>10, <3>1 DEF RestoreConfig, Report, Asserts
    <3>4. QED
      BY <3>2, <3>3
  <2>11. CASE RestoreConfigFails(p)
    BY <2>11 DEF RestoreConfigFails, Asserts, Captured
  <2>12. CASE RestoreAppState(p)
    BY <2>12 DEF RestoreAppState, Report, Asserts, Captured
  <2>13. CASE RestoreAppStateFails(p)
    BY <2>13 DEF RestoreAppStateFails, Report, Asserts, Captured
  <2>14. CASE RestartPriorScience(p)
    <3>1. At(p, PriorScienceRestart) /\ prior' # "stopped"
      BY <2>14 DEF RestartPriorScience, Runs, LaunchId
    <3>2. OutcomeInv'
      BY <2>14, <3>1
         DEF RestartPriorScience, Report, At, Asserts, Captured
    <3>3. PointInv' /\ DoneInv' /\ NoCandidateInv'
      BY <2>14, <3>1
         DEF RestartPriorScience, Report, At, Asserts, Captured,
             AuthoritiesRestored
    <3>4. QED
      BY <3>2, <3>3
  <2>15. CASE RestartPriorScienceFails(p)
    BY <2>15 DEF RestartPriorScienceFails, Report, Runs, At, Asserts,
                 Captured
  <2>16. CASE PrepareCleanup(p)
    <3>1. /\ At(p, SnapshotCleanup)
          /\ AuthoritiesRestored(viewJ[p])
      BY <2>16, DecidedWhy DEF PrepareCleanup, Runs
    <3>2. PointInv'
      BY <2>16, <3>1 DEF PrepareCleanup, At, Captured, AuthoritiesRestored
    <3>3. OutcomeInv' /\ DoneInv' /\ NoCandidateInv'
      BY <2>16 DEF PrepareCleanup, Asserts, Captured
    <3>4. QED
      BY <3>2, <3>3
  <2>17. CASE CleanupAlreadyDone(p)
    BY <2>17 DEF CleanupAlreadyDone, Report, Runs, At, Asserts, Captured
  <2>18. CASE DiscardSnapshot(p)
    BY <2>18 DEF DiscardSnapshot, Asserts, Captured
  <2>19. CASE Unregister(p)
    BY <2>19 DEF Unregister, Report, Asserts, Captured
  <2>20. CASE SnapshotCleanupFails(p)
    BY <2>20 DEF SnapshotCleanupFails, Report, Runs, At, Asserts, Captured
  <2>21. QED
    BY <1>5, <2>1, <2>2, <2>3, <2>4, <2>5, <2>6, <2>7, <2>8, <2>9, <2>10,
             <2>11, <2>12, <2>13, <2>14, <2>15, <2>16, <2>17, <2>18, <2>19,
             <2>20 DEF Effect
<1>6. ASSUME NEW p \in Procs,
             Relaunch(p) \/ CheckpointFault(p) \/ Crash(p) \/ QuitAndReopen(p)
      PROVE  WorldInv'
  <2>1. CASE Relaunch(p)
    BY <2>1 DEF Relaunch, Asserts, Captured
  <2>2. CASE CheckpointFault(p)
    BY <2>2, LeaveWorld DEF CheckpointFault
  <2>3. CASE Crash(p)
    BY <2>3 DEF Crash, Asserts, Captured
  <2>4. CASE QuitAndReopen(p)
    BY <2>4 DEF QuitAndReopen, Asserts, Captured
  <2>5. QED
    BY <1>6, <2>1, <2>2, <2>3, <2>4
<1>7. QED
  BY <1>1, <1>2, <1>3, <1>4, <1>5, <1>6 DEF Next, Progress

-----------------------------------------------------------------------------
(* The recovery snapshot.  It is given up by the last step alone, which     *)
(* runs when the outcomes recorded before it say that all is restored.      *)

GivenUp == registry # "active_recovery" \/ snapshot # "present"

\* A run that has not published yet is alone with an untouched snapshot.
Unpublished ==
  \A p \in Procs : pc[p] \in {"persist", "publish"} =>
    /\ journal = NoJournal
    /\ ~GivenUp
    /\ \A q \in Procs \ {p} : pc[q] \notin {"persist", "publish"}

GivenUpInv ==
  GivenUp =>
    /\ Restored
    /\ \/ journal.state = "none"
       \/ /\ AuthoritiesRestored(journal)
          /\ journal.steps[SnapshotCleanup] # "pending"

SnapshotInv == Unpublished /\ GivenUpInv

LEMMA SnapshotInit == Init => SnapshotInv
BY DEF Init, SnapshotInv, Unpublished, GivenUpInv, GivenUp

\* The decision of the last step, read together with what the outcomes assert.
LEMMA DoneRestores ==
  ASSUME DoneInv, AuthoritiesRestored(journal)
  PROVE  Restored
BY DEF DoneInv, Asserts, AuthoritiesRestored, Restored, Steps, ScienceCleanup,
       SshCleanup, AuthorityRestore, PriorScienceRestart

LEMMA LeaveSnapshot ==
  ASSUME TypeInv, SnapshotInv, NEW p \in Procs, Leave(p)
  PROVE  SnapshotInv'
<1> USE DEF Leave, Return, Release, DropLocals, Goto, durable, world,
            TypeInv, TypeOK
<1>1. /\ UNCHANGED <<journal, business, plan, world, registry, snapshot>>
      /\ pc'[p] = "idle"
      /\ \A q \in Procs \ {p} : pc'[q] = pc[q]
  OBVIOUS
<1> HIDE DEF Leave, Return, Release, DropLocals, Goto, durable, TypeInv,
             TypeOK
<1>2. QED
  BY <1>1 DEF SnapshotInv, Unpublished, GivenUpInv, GivenUp, Restored,
              Captured, AuthoritiesRestored

\* A step that may still run, or that is not the last, keeps the snapshot.
LEMMA OpenKeepsSnapshot ==
  ASSUME GivenUpInv, Open(journal), NEW s \in Steps,
         \/ journal.steps[s] = "pending"
         \/ journal.steps[s] = "in_progress" /\ s # SnapshotCleanup,
         \A t \in Steps : t < s => journal.steps[t] \in Terminal
  PROVE  ~GivenUp
BY DEF GivenUpInv, Open, AuthoritiesRestored, Steps, ScienceCleanup,
       SshCleanup, AuthorityRestore, PriorScienceRestart, SnapshotCleanup

\* So no effect before the last step finds it given up.
LEMMA KeptDuring ==
  ASSUME TypeInv, JournalDecodes, GivenUpInv, Open(journal), NEW s \in Steps,
         journal.steps[s] = "in_progress", s # SnapshotCleanup
  PROVE  ~GivenUp /\ journal # NoJournal
<1>1. \A t \in Steps : t < s => journal.steps[t] \in Terminal
  BY DEF JournalDecodes, Terminal, SkipCauses
<1>2. QED
  BY <1>1, OpenKeepsSnapshot DEF NoJournal

LEMMA SnapshotStep ==
  TypeInv /\ LockInv /\ IntentInv /\ JournalDecodes /\ WorldInv /\ SnapshotInv
    /\ [Next]_vars => SnapshotInv'
<1> SUFFICES ASSUME TypeInv, LockInv, IntentInv, JournalDecodes, WorldInv,
                    SnapshotInv, [Next]_vars
             PROVE  SnapshotInv'
    OBVIOUS
<1> /\ pc \in [Procs -> PCs]
    /\ viewJ \in [Procs -> Journals]
    /\ journal \in Journals
    /\ result \in [Procs -> Terminal \cup {"none"}]
    BY DEF TypeInv, TypeOK
<1> USE DEF IntentInv, EffectsUnderDurableIntent, Effecting, PointInv, AtPoint,
        SnapshotInv, Unpublished, GivenUpInv, GivenUp,
        Goto, Leave, Return, Release, DropLocals,
        durable, world, locks, local, ScienceCleanup, SshCleanup,
        AuthorityRestore, PriorScienceRestart, SnapshotCleanup, Steps
<1>1. CASE UNCHANGED vars
  BY <1>1 DEF vars, Restored, Captured, AuthoritiesRestored
<1>2. ASSUME NEW p \in Procs, Checkpoint(p) PROVE SnapshotInv'
  <2>1. CASE PersistManifest(p)
    BY <2>1 DEF PersistManifest, Restored, Captured, AuthoritiesRestored
  <2>2. CASE PersistFails(p)
    BY <2>2, LeaveSnapshot DEF PersistFails
  <2>3. CASE PublishJournal(p)
    <3>1. ~GivenUp /\ ~GivenUp'
      BY <2>3 DEF PublishJournal
    <3>2. QED
      BY <2>3, <3>1 DEF PublishJournal
  <2>4. CASE BeginStep(p)
    <3>1. PICK s \in Steps : /\ CanonicalAt(journal, s, "pending")
                             /\ journal' = WithStep(journal, s, "in_progress")
      BY <2>4 DEF BeginStep, CasHolds
    <3>2. ~GivenUp
      BY <3>1, OpenKeepsSnapshot DEF CanonicalAt
    <3>3. ~GivenUp'
      BY <2>4, <3>2 DEF BeginStep
    <3>4. Unpublished'
      BY <2>4, <3>1, <3>3 DEF BeginStep, CanonicalAt, Open, NoJournal
    <3>5. QED
      BY <3>3, <3>4
  <2>5. CASE FinishStep(p)
    <3>1. PICK s \in Steps : /\ CanonicalAt(journal, s, "in_progress")
                             /\ journal' = WithStep(journal, s, result[p])
      BY <2>5 DEF FinishStep
    <3>2. /\ pc'[p] \in {"idle", "intent", "finish"}
          /\ \A q \in Procs \ {p} : pc'[q] = pc[q]
          /\ UNCHANGED <<registry, snapshot, business, plan, world>>
      BY <2>5 DEF FinishStep, AfterOutcome
    <3>3. Unpublished'
      BY <3>1, <3>2 DEF CanonicalAt, Open, NoJournal
    <3>4. CASE ~GivenUp
      BY <3>2, <3>3, <3>4
    <3>5. CASE GivenUp
      <4>1. s = SnapshotCleanup
        BY <3>1, <3>5, OpenKeepsSnapshot DEF CanonicalAt
      <4>2. result[p] \in Terminal
        BY <2>5 DEF TypeInv, ResultReported, FinishStep
      <4>3. journal'.steps[SnapshotCleanup] # "pending"
        BY <3>1, <4>1, <4>2 DEF WithStep, Journals, Terminal, SkipCauses
      <4>4. \A t \in Steps \ {s} : journal'.steps[t] = journal.steps[t]
        BY <3>1 DEF WithStep, Journals
      <4>5. /\ Restored /\ AuthoritiesRestored(journal)
        BY <3>1, <3>5 DEF CanonicalAt, Open
      <4>6. AuthoritiesRestored(journal')
        BY <4>1, <4>4, <4>5 DEF AuthoritiesRestored
      <4>7. Restored'
        BY <3>2, <4>5 DEF Restored, Captured
      <4>8. QED
        BY <3>3, <4>3, <4>6, <4>7
    <3>6. QED
      BY <3>4, <3>5
  <2>6. CASE Finish(p)
    <3>1. /\ journal = viewJ[p] /\ journal.state = "in_progress"
          /\ pc'[p] = "idle"
          /\ \A q \in Procs \ {p} : pc'[q] = pc[q]
          /\ UNCHANGED <<registry, snapshot, business, plan, world>>
          /\ \/ journal' = NoJournal
             \/ journal'.steps = journal.steps
      BY <2>6 DEF Finish, CasHolds, Open, Journals
    <3>2. Unpublished'
      BY <3>1 DEF NoJournal
    <3>3. GivenUpInv'
      BY <3>1 DEF NoJournal, Restored, Captured, AuthoritiesRestored
    <3>4. QED
      BY <3>2, <3>3
  <2>7. CASE LoseCheckpoint(p)
    BY <2>7, LeaveSnapshot DEF LoseCheckpoint
  <2>8. QED
    BY <1>2, <2>1, <2>2, <2>3, <2>4, <2>5, <2>6, <2>7 DEF Checkpoint
<1>3. ASSUME NEW p \in Procs, Acquire(p) PROVE SnapshotInv'
  <2>1. CASE TakeLiveLease(p)
    BY <2>1 DEF TakeLiveLease, TakeExclusive, Restored, Captured,
                AuthoritiesRestored
  <2>2. CASE TakeReplayLease(p)
    BY <2>2 DEF TakeReplayLease, TakeExclusive, Restored, Captured,
                AuthoritiesRestored
  <2>3. CASE TakeAuthLease(p)
    BY <2>3 DEF TakeAuthLease, Restored, Captured, AuthoritiesRestored
  <2>4. QED
    BY <1>3, <2>1, <2>2, <2>3 DEF Acquire
<1>4. ASSUME NEW p \in Procs, Entry(p) PROVE SnapshotInv'
  <2>1. CASE EnterCommand(p)
    BY <2>1 DEF EnterCommand, Restored, Captured, AuthoritiesRestored
  <2>2. CASE RecheckBeforeAuth(p)
    <3>1. CASE journal.state = "none"
      BY <2>2, <3>1 DEF RecheckBeforeAuth, Restored, Captured,
         AuthoritiesRestored
    <3>2. CASE journal.state # "none"
      BY <2>2, <3>2, LeaveSnapshot DEF RecheckBeforeAuth
    <3>3. QED
      BY <3>1, <3>2
  <2>3. CASE FinishAuth(p)
    BY <2>3, LeaveSnapshot DEF FinishAuth
  <2>4. CASE LoadStep(p)
    BY <2>4 DEF LoadStep, Restored, Captured, AuthoritiesRestored
  <2>5. CASE RefuseReplay(p)
    BY <2>5, LeaveSnapshot DEF RefuseReplay
  <2>6. QED
    BY <1>4, <2>1, <2>2, <2>3, <2>4, <2>5 DEF Entry
<1>5. ASSUME NEW p \in Procs, Effect(p) PROVE SnapshotInv'
  <2>1. CASE DecideStep(p)
    BY <2>1 DEF DecideStep, Report, At, Restored, Captured,
                AuthoritiesRestored
  <2>2. CASE StopCandidate(p)
    <3>1. journal.steps[ScienceCleanup] = "in_progress"
      BY <2>2 DEF StopCandidate, Runs, At, WorldInv
    <3>2. ~GivenUp /\ journal # NoJournal
      BY <2>2, <3>1, KeptDuring DEF StopCandidate, Runs, At, WorldInv
    <3>3. QED
      BY <2>2, <3>2 DEF StopCandidate, Runs, At, Report
  <2>3. CASE StopCandidateFails(p)
    <3>1. journal.steps[ScienceCleanup] = "in_progress"
      BY <2>3 DEF StopCandidateFails, Runs, At, WorldInv
    <3>2. ~GivenUp /\ journal # NoJournal
      BY <2>3, <3>1, KeptDuring DEF StopCandidateFails, Runs, At, WorldInv
    <3>3. QED
      BY <2>3, <3>2 DEF StopCandidateFails, Runs, At, Report
  <2>4. CASE CompensateSsh(p)
    <3>1. journal.steps[SshCleanup] = "in_progress"
      BY <2>4 DEF CompensateSsh, Runs, At, WorldInv
    <3>2. ~GivenUp /\ journal # NoJournal
      BY <2>4, <3>1, KeptDuring DEF CompensateSsh, Runs, At, WorldInv
    <3>3. QED
      BY <2>4, <3>2 DEF CompensateSsh, Runs, At, Report
  <2>5. CASE CompensateSshFails(p)
    <3>1. journal.steps[SshCleanup] = "in_progress"
      BY <2>5 DEF CompensateSshFails, Runs, At, WorldInv
    <3>2. ~GivenUp /\ journal # NoJournal
      BY <2>5, <3>1, KeptDuring DEF CompensateSshFails, Runs, At, WorldInv
    <3>3. QED
      BY <2>5, <3>2 DEF CompensateSshFails, Runs, At, Report
  <2>6. CASE StopCandidateGateway(p)
    <3>1. journal.steps[AuthorityRestore] = "in_progress"
      BY <2>6 DEF StopCandidateGateway, Runs, At, WorldInv
    <3>2. ~GivenUp /\ journal # NoJournal
      BY <2>6, <3>1, KeptDuring DEF StopCandidateGateway, Runs, At, WorldInv
    <3>3. QED
      BY <2>6, <3>2 DEF StopCandidateGateway, Runs, At, Report
  <2>7. CASE RestoreRefused(p)
    <3>1. journal.steps[AuthorityRestore] = "in_progress"
      BY <2>7 DEF RestoreRefused, Runs, At, WorldInv
    <3>2. ~GivenUp /\ journal # NoJournal
      BY <2>7, <3>1, KeptDuring DEF RestoreRefused, Runs, At, WorldInv
    <3>3. QED
      BY <2>7, <3>2 DEF RestoreRefused, Runs, At, Report
  <2>8. CASE RestoreTrees(p)
    <3>1. journal.steps[AuthorityRestore] = "in_progress"
      BY <2>8 DEF RestoreTrees, WorldInv
    <3>2. ~GivenUp /\ journal # NoJournal
      BY <2>8, <3>1, KeptDuring DEF RestoreTrees, WorldInv
    <3>3. QED
      BY <2>8, <3>2 DEF RestoreTrees, Report
  <2>9. CASE RestoreTreesFails(p)
    <3>1. journal.steps[AuthorityRestore] = "in_progress"
      BY <2>9 DEF RestoreTreesFails, WorldInv
    <3>2. ~GivenUp /\ journal # NoJournal
      BY <2>9, <3>1, KeptDuring DEF RestoreTreesFails, WorldInv
    <3>3. QED
      BY <2>9, <3>2 DEF RestoreTreesFails, Report
  <2>10. CASE RestoreConfig(p)
    <3>1. journal.steps[AuthorityRestore] = "in_progress"
      BY <2>10 DEF RestoreConfig, WorldInv
    <3>2. ~GivenUp /\ journal # NoJournal
      BY <2>10, <3>1, KeptDuring DEF RestoreConfig, WorldInv
    <3>3. QED
      BY <2>10, <3>2 DEF RestoreConfig, Report
  <2>11. CASE RestoreConfigFails(p)
    <3>1. journal.steps[AuthorityRestore] = "in_progress"
      BY <2>11 DEF RestoreConfigFails, WorldInv
    <3>2. ~GivenUp /\ journal # NoJournal
      BY <2>11, <3>1, KeptDuring DEF RestoreConfigFails, WorldInv
    <3>3. QED
      BY <2>11, <3>2 DEF RestoreConfigFails, Report
  <2>12. CASE RestoreAppState(p)
    <3>1. journal.steps[AuthorityRestore] = "in_progress"
      BY <2>12 DEF RestoreAppState, WorldInv
    <3>2. ~GivenUp /\ journal # NoJournal
      BY <2>12, <3>1, KeptDuring DEF RestoreAppState, WorldInv
    <3>3. QED
      BY <2>12, <3>2 DEF RestoreAppState, Report
  <2>13. CASE RestoreAppStateFails(p)
    <3>1. journal.steps[AuthorityRestore] = "in_progress"
      BY <2>13 DEF RestoreAppStateFails, WorldInv
    <3>2. ~GivenUp /\ journal # NoJournal
      BY <2>13, <3>1, KeptDuring DEF RestoreAppStateFails, WorldInv
    <3>3. QED
      BY <2>13, <3>2 DEF RestoreAppStateFails, Report
  <2>14. CASE RestartPriorScience(p)
    <3>1. journal.steps[PriorScienceRestart] = "in_progress"
      BY <2>14 DEF RestartPriorScience, Runs, At, WorldInv
    <3>2. ~GivenUp /\ journal # NoJournal
      BY <2>14, <3>1, KeptDuring DEF RestartPriorScience, Runs, At, WorldInv
    <3>3. QED
      BY <2>14, <3>2 DEF RestartPriorScience, Runs, At, Report
  <2>15. CASE RestartPriorScienceFails(p)
    <3>1. journal.steps[PriorScienceRestart] = "in_progress"
      BY <2>15 DEF RestartPriorScienceFails, Runs, At, WorldInv
    <3>2. ~GivenUp /\ journal # NoJournal
      BY <2>15, <3>1, KeptDuring DEF RestartPriorScienceFails, Runs, At, WorldInv
    <3>3. QED
      BY <2>15, <3>2 DEF RestartPriorScienceFails, Runs, At, Report
  <2>16. CASE PrepareCleanup(p)
    <3>1. /\ journal.steps[SnapshotCleanup] = "in_progress"
          /\ AuthoritiesRestored(journal)
      BY <2>16, DecidedWhy DEF PrepareCleanup, Runs, At
    <3>2. Restored
      BY <3>1, DoneRestores DEF WorldInv
    <3>3. journal # NoJournal
      BY <3>1 DEF NoJournal
    <3>4. QED
      BY <2>16, <3>1, <3>2, <3>3
         DEF PrepareCleanup, Restored, Captured, AuthoritiesRestored
  <2>17. CASE CleanupAlreadyDone(p)
    BY <2>17 DEF CleanupAlreadyDone, Report, Runs, At, Restored, Captured,
                 AuthoritiesRestored
  <2>18. CASE DiscardSnapshot(p)
    <3>1. /\ journal.steps[SnapshotCleanup] = "in_progress"
          /\ AuthoritiesRestored(journal)
      BY <2>18 DEF DiscardSnapshot, WorldInv
    <3>2. Restored
      BY <3>1, DoneRestores DEF WorldInv
    <3>3. journal # NoJournal
      BY <3>1 DEF NoJournal
    <3>4. QED
      BY <2>18, <3>1, <3>2, <3>3
         DEF DiscardSnapshot, Report, Restored, Captured, AuthoritiesRestored
  <2>19. CASE Unregister(p)
    <3>1. /\ journal.steps[SnapshotCleanup] = "in_progress"
          /\ AuthoritiesRestored(journal)
      BY <2>19 DEF Unregister, WorldInv
    <3>2. Restored
      BY <3>1, DoneRestores DEF WorldInv
    <3>3. journal # NoJournal
      BY <3>1 DEF NoJournal
    <3>4. QED
      BY <2>19, <3>1, <3>2, <3>3
         DEF Unregister, Report, Restored, Captured, AuthoritiesRestored
  <2>20. CASE SnapshotCleanupFails(p)
    BY <2>20 DEF SnapshotCleanupFails, Report, Runs, At, Restored, Captured,
                 AuthoritiesRestored
  <2>21. QED
    BY <1>5, <2>1, <2>2, <2>3, <2>4, <2>5, <2>6, <2>7, <2>8, <2>9, <2>10,
             <2>11, <2>12, <2>13, <2>14, <2>15, <2>16, <2>17, <2>18, <2>19,
             <2>20 DEF Effect
<1>6. ASSUME NEW p \in Procs,
             Relaunch(p) \/ CheckpointFault(p) \/ Crash(p) \/ QuitAndReopen(p)
      PROVE  SnapshotInv'
  <2>1. CASE Relaunch(p)
    BY <2>1 DEF Relaunch, Restored, Captured, AuthoritiesRestored
  <2>2. CASE CheckpointFault(p)
    BY <2>2, LeaveSnapshot DEF CheckpointFault
  <2>3. CASE Crash(p)
    BY <2>3 DEF Crash, Restored, Captured, AuthoritiesRestored
  <2>4. CASE QuitAndReopen(p)
    BY <2>4 DEF QuitAndReopen, Restored, Captured, AuthoritiesRestored
  <2>5. QED
    BY <1>6, <2>1, <2>2, <2>3, <2>4
<1>7. QED
  BY <1>1, <1>2, <1>3, <1>4, <1>5, <1>6 DEF Next, Progress

-----------------------------------------------------------------------------
(* The manifest is never removed while a journal may have to be replayed.   *)

ManifestInv ==
  /\ journal.state # "none" => manifest
  /\ \A p \in Procs : pc[p] = "publish" => manifest

LEMMA ManifestInit == Init => ManifestInv
BY DEF Init, ManifestInv, NoJournal

LEMMA ManifestStep == TypeInv /\ ManifestInv /\ [Next]_vars => ManifestInv'
<1> SUFFICES ASSUME TypeInv, ManifestInv, [Next]_vars PROVE ManifestInv'
    OBVIOUS
<1> pc \in [Procs -> PCs] /\ journal \in Journals /\ manifest \in BOOLEAN
    BY DEF TypeInv, TypeOK
<1> USE DEF ManifestInv, Goto, Leave, Return, Release, DropLocals,
        durable, world, locks, local
<1>1. CASE UNCHANGED vars
  BY <1>1 DEF vars
<1>2. ASSUME NEW p \in Procs, Checkpoint(p) PROVE ManifestInv'
  <2>1. CASE PersistManifest(p)
    BY <2>1 DEF PersistManifest
  <2>2. CASE PersistFails(p)
    BY <2>2 DEF PersistFails
  <2>3. CASE PublishJournal(p)
    BY <2>3 DEF PublishJournal
  <2>4. CASE BeginStep(p)
    <3>1. \E s \in Steps : CanonicalAt(journal, s, "pending")
      BY <2>4 DEF BeginStep, CasHolds
    <3>2. QED
      BY <2>4, <3>1 DEF BeginStep, CanonicalAt, Open
  <2>5. CASE FinishStep(p)
    <3>1. \E s \in Steps : CanonicalAt(viewJ[p], s, "in_progress")
      BY <2>5 DEF FinishStep
    <3>2. manifest
      BY <2>5 DEF FinishStep, CanonicalAt, Open, OutcomeCas, CasHolds
    <3>3. QED
      BY <2>5, <3>2 DEF FinishStep, AfterOutcome
  <2>6. CASE Finish(p)
    <3>1. manifest
      BY <2>6 DEF Finish, CasHolds, Open
    <3>2. QED
      BY <2>6, <3>1 DEF Finish
  <2>7. CASE LoseCheckpoint(p)
    BY <2>7 DEF LoseCheckpoint
  <2>8. QED
    BY <1>2, <2>1, <2>2, <2>3, <2>4, <2>5, <2>6, <2>7 DEF Checkpoint
<1>3. ASSUME NEW p \in Procs, Acquire(p) PROVE ManifestInv'
  <2>1. CASE TakeLiveLease(p)
    BY <2>1 DEF TakeLiveLease, TakeExclusive
  <2>2. CASE TakeReplayLease(p)
    BY <2>2 DEF TakeReplayLease, TakeExclusive
  <2>3. CASE TakeAuthLease(p)
    BY <2>3 DEF TakeAuthLease
  <2>4. QED
    BY <1>3, <2>1, <2>2, <2>3 DEF Acquire
<1>4. ASSUME NEW p \in Procs, Entry(p) PROVE ManifestInv'
  <2>1. CASE EnterCommand(p)
    BY <2>1 DEF EnterCommand
  <2>2. CASE RecheckBeforeAuth(p)
    BY <2>2 DEF RecheckBeforeAuth
  <2>3. CASE FinishAuth(p)
    BY <2>3 DEF FinishAuth
  <2>4. CASE LoadStep(p)
    BY <2>4 DEF LoadStep
  <2>5. CASE RefuseReplay(p)
    BY <2>5 DEF RefuseReplay
  <2>6. QED
    BY <1>4, <2>1, <2>2, <2>3, <2>4, <2>5 DEF Entry
<1>5. ASSUME NEW p \in Procs, Effect(p) PROVE ManifestInv'
  <2>1. CASE DecideStep(p)
    BY <2>1 DEF DecideStep, Report, At
  <2>2. CASE StopCandidate(p)
    BY <2>2 DEF StopCandidate, Report, Runs, At
  <2>3. CASE StopCandidateFails(p)
    BY <2>3 DEF StopCandidateFails, Report, Runs, At
  <2>4. CASE CompensateSsh(p)
    BY <2>4 DEF CompensateSsh, Report, Runs, At
  <2>5. CASE CompensateSshFails(p)
    BY <2>5 DEF CompensateSshFails, Report, Runs, At
  <2>6. CASE StopCandidateGateway(p)
    BY <2>6 DEF StopCandidateGateway, Runs, At
  <2>7. CASE RestoreRefused(p)
    BY <2>7 DEF RestoreRefused, Report, Runs, At
  <2>8. CASE RestoreTrees(p)
    BY <2>8 DEF RestoreTrees
  <2>9. CASE RestoreTreesFails(p)
    BY <2>9 DEF RestoreTreesFails
  <2>10. CASE RestoreConfig(p)
    BY <2>10 DEF RestoreConfig, Report
  <2>11. CASE RestoreConfigFails(p)
    BY <2>11 DEF RestoreConfigFails
  <2>12. CASE RestoreAppState(p)
    BY <2>12 DEF RestoreAppState, Report
  <2>13. CASE RestoreAppStateFails(p)
    BY <2>13 DEF RestoreAppStateFails, Report
  <2>14. CASE RestartPriorScience(p)
    BY <2>14 DEF RestartPriorScience, Report, Runs, At
  <2>15. CASE RestartPriorScienceFails(p)
    BY <2>15 DEF RestartPriorScienceFails, Report, Runs, At
  <2>16. CASE PrepareCleanup(p)
    BY <2>16 DEF PrepareCleanup, Runs, At
  <2>17. CASE CleanupAlreadyDone(p)
    BY <2>17 DEF CleanupAlreadyDone, Report, Runs, At
  <2>18. CASE DiscardSnapshot(p)
    BY <2>18 DEF DiscardSnapshot
  <2>19. CASE Unregister(p)
    BY <2>19 DEF Unregister, Report
  <2>20. CASE SnapshotCleanupFails(p)
    BY <2>20 DEF SnapshotCleanupFails, Report, Runs, At
  <2>21. QED
    BY <1>5, <2>1, <2>2, <2>3, <2>4, <2>5, <2>6, <2>7, <2>8, <2>9, <2>10,
             <2>11, <2>12, <2>13, <2>14, <2>15, <2>16, <2>17, <2>18, <2>19,
             <2>20 DEF Effect
<1>6. ASSUME NEW p \in Procs,
             Relaunch(p) \/ CheckpointFault(p) \/ Crash(p) \/ QuitAndReopen(p)
      PROVE  ManifestInv'
  <2>1. CASE Relaunch(p)
    BY <2>1 DEF Relaunch
  <2>2. CASE CheckpointFault(p)
    BY <2>2 DEF CheckpointFault
  <2>3. CASE Crash(p)
    BY <2>3 DEF Crash
  <2>4. CASE QuitAndReopen(p)
    BY <2>4 DEF QuitAndReopen
  <2>5. QED
    BY <1>6, <2>1, <2>2, <2>3, <2>4
<1>7. QED
  BY <1>1, <1>2, <1>3, <1>4, <1>5, <1>6 DEF Next, Progress

-----------------------------------------------------------------------------
(* The theorems.                                                            *)

Inv ==
  /\ TypeInv /\ LockInv /\ IntentInv /\ JournalDecodes
  /\ WorldInv /\ SnapshotInv /\ ManifestInv

\* Inv is an inductive invariant of the specification.
THEOREM Invariance == Spec => []Inv
<1>1. Init => Inv
  BY TypeInit, LockInit, IntentInit, DecodeInit, WorldInit, SnapshotInit,
     ManifestInit DEF Inv
<1>2. Inv /\ [Next]_vars => Inv'
  BY TypeStep, LockStep, IntentStep, DecodeStep, WorldStep, SnapshotStep,
     ManifestStep DEF Inv
<1>3. QED
  BY <1>1, <1>2, PTL DEF Spec

\* Whatever is in config.json decodes, at every point of a run or a replay.
THEOREM JournalAlwaysDecodes == Spec => []JournalDecodes
<1>1. Inv => JournalDecodes
  BY DEF Inv
<1>2. QED
  BY <1>1, Invariance, PTL

\* Effects run in the one process that holds the exclusive lease, under its
\* own durable in_progress step.
THEOREM EffectsAreOwned == Spec => []EffectsUnderDurableIntent
<1>1. Inv => EffectsUnderDurableIntent
  BY DEF Inv, IntentInv
<1>2. QED
  BY <1>1, Invariance, PTL

\* Provider authentication never runs beside a compensation journal.
THEOREM AuthExcludesCompensation == Spec => []AuthOnlyWithoutJournal
<1>1. Inv => AuthOnlyWithoutJournal
  BY DEF Inv, IntentInv
<1>2. QED
  BY <1>1, Invariance, PTL

\* The recovery snapshot is given up only when everything is restored.
THEOREM SnapshotIsKept == Spec => []SnapshotKeptUntilRestored
<1>1. Inv => SnapshotKeptUntilRestored
  BY DEF Inv, SnapshotInv, GivenUpInv, GivenUp, SnapshotKeptUntilRestored
<1>2. QED
  BY <1>1, Invariance, PTL

\* A step that may have to be replayed finds its manifest and its snapshot.
THEOREM ReplayFindsItsInputs == Spec => []ReplayInputsPresent
<1>1. Inv => ReplayInputsPresent
  BY DEF Inv, ManifestInv, SnapshotInv, GivenUpInv, GivenUp, TypeInv, TypeOK,
         ReplayInputsPresent
<1>2. QED
  BY <1>1, Invariance, PTL

\* No step rewrites an outcome, reopens a closed journal, or takes a step in
\* progress back to pending.
THEOREM OutcomesStayFinal == Spec => OutcomesAreFinal
<1> DEFINE Kept(s) ==
      /\ journal.steps[s] \in Terminal => journal'.steps[s] = journal.steps[s]
      /\ journal.steps[s] = "in_progress" => journal'.steps[s] # "pending"
    Final == /\ journal.state = "incomplete" => UNCHANGED journal
             /\ journal'.state # "none" => \A s \in Steps : Kept(s)
<1>1. ASSUME Inv, [Next]_vars PROVE Final
  <2> TypeInv /\ journal \in Journals
      BY <1>1 DEF Inv, TypeInv, TypeOK
  <2> \A q \in Procs : viewJ[q] \in Journals
      BY DEF TypeInv, TypeOK
  <2>1. CASE UNCHANGED journal
    BY <2>1 DEF Terminal, SkipCauses
  <2>2. ASSUME NEW p \in Procs, PublishJournal(p) PROVE Final
    BY <2>2 DEF PublishJournal, NoJournal, Terminal, SkipCauses
  <2>3. ASSUME NEW p \in Procs, BeginStep(p) PROVE Final
    <3>1. PICK t \in Steps : /\ CanonicalAt(journal, t, "pending")
                             /\ journal' = WithStep(journal, t, "in_progress")
      BY <2>3 DEF BeginStep, CasHolds
    <3>2. QED
      BY <3>1 DEF CanonicalAt, Open, WithStep, Journals, Terminal, SkipCauses
  <2>4. ASSUME NEW p \in Procs, FinishStep(p) PROVE Final
    <3>1. PICK t \in Steps : /\ CanonicalAt(viewJ[p], t, "in_progress")
                             /\ OutcomeCas(p, t)
                             /\ journal' = WithStep(viewJ[p], t, result[p])
      BY <2>4 DEF FinishStep
    <3>2. journal = viewJ[p]
      BY <3>1 DEF OutcomeCas, CasHolds
    <3>3. result[p] \in Terminal
      BY <2>4 DEF FinishStep, TypeInv, ResultReported
    <3>4. QED
      BY <3>1, <3>2, <3>3
         DEF CanonicalAt, Open, WithStep, Journals, Terminal, SkipCauses
  <2>5. ASSUME NEW p \in Procs, Finish(p) PROVE Final
    <3>1. /\ journal.state = "in_progress"
          /\ journal' = NoJournal \/ journal'.steps = journal.steps
      BY <2>5 DEF Finish, CasHolds, Open, Journals
    <3>2. QED
      BY <3>1 DEF NoJournal, Terminal, SkipCauses
  <2>6. QED
    BY <1>1, <2>1, <2>2, <2>3, <2>4, <2>5, JournalWriters
       DEF Next, vars, durable
<1>2. QED
  BY <1>1, Invariance, PTL DEF Spec, OutcomesAreFinal
=============================================================================
