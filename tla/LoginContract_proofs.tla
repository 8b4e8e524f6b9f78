------------------------ MODULE LoginContract_proofs ------------------------
(* CodexAuthSupervisor implements LoginContract, for every number of logins  *)
(* and every set of other tasks.                                            *)
EXTENDS CodexAuthSupervisor_proofs

-----------------------------------------------------------------------------
(* The receipt follows the worker, and the flow follows its control.        *)

Unprepared == {"idle", "reserved", "spawn", "register", "bind", "inert",
               "prepare"}
Prepared   == {"authorize", "ack", "acked", "watch", "reaped", "closing"}
Working    == Flow \cup {"commit", "store", "finish"}

ReceiptInv == \A o \in Logins :
  /\ lpc[o] \in Unprepared => receipt[o] \notin Durable
  /\ lpc[o] \in Prepared => receipt[o] \in Durable

FlowInv == \A o \in Logins : stage[o] \in Working => ctl[o] # "waiting_start"

LEMMA OrderInit == Init => ReceiptInv /\ FlowInv
BY DEF Init, SidecarInit, ReceiptInv, FlowInv, Durable, Prepared, Working, Flow

LEMMA ReceiptStep == TypeOK /\ ReceiptInv /\ [Next]_vars => ReceiptInv'
<1> SUFFICES ASSUME TypeOK, ReceiptInv, [Next]_vars, NEW o \in Logins
             PROVE  /\ lpc'[o] \in Unprepared => receipt'[o] \notin Durable
                    /\ lpc'[o] \in Prepared => receipt'[o] \in Durable
    BY DEF ReceiptInv
<1>i. /\ lpc[o] \in Unprepared => receipt[o] \notin Durable
      /\ lpc[o] \in Prepared => receipt[o] \in Durable
  BY DEF ReceiptInv
<1> USE DEF TypeOK, LoginTo, Durable, Unprepared, Prepared
<1>1. CASE BeginLogin(o)
  BY <1>1, <1>i DEF BeginLogin
<1>2. CASE StartStep(o)
  <2>1. CASE CheckpointStart(o)
    <3>1. /\ lpc[o] \in {"inert", "prepare", "acked"}
          /\ receipt'[o] = NextReceipt(lpc[o])
          /\ lpc'[o] = AfterReceipt(lpc[o])
      BY <2>1 DEF CheckpointStart
    <3>2. QED
      BY <3>1 DEF NextReceipt, AfterReceipt
  <2>2. CASE OpenReceipt(o)
    BY <2>2 DEF OpenReceipt
  <2>3. CASE \/ SpawnSidecar(o) \/ SetPid(o) \/ BindIdentity(o)
             \/ AuthorizeLoginStart(o) \/ ReadStartAck(o)
    BY <1>i, <2>3 DEF SpawnSidecar, SetPid, BindIdentity, AuthorizeLoginStart,
                      ReadStartAck
  <2>4. CASE StartFails(o)
    BY <2>4 DEF StartFails, WorkerReturns
  <2>5. QED
    BY <1>2, <2>1, <2>2, <2>3, <2>4 DEF StartStep
<1>3. CASE WatchStep(o)
  <2>1. CASE FinishLogin(o)
    BY <2>1 DEF FinishLogin, WorkerReturns
  <2>2. CASE SendCancel(o) \/ ReadEvent(o) \/ LoginDeadline(o)
    BY <1>i, <2>2 DEF SendCancel, ReadEvent, LoginDeadline, worker
  <2>3. CASE \/ SendCancelFails(o) \/ ReapSidecar(o) \/ Watchdog(o)
             \/ ClearPid(o)
    BY <1>i, <2>3 DEF SendCancelFails, ReapSidecar, Watchdog, Reaped, ClearPid
  <2>4. QED
    BY <1>3, <2>1, <2>2, <2>3 DEF WatchStep
<1>4. CASE ~BeginLogin(o) /\ ~StartStep(o) /\ ~WatchStep(o)
  BY <1>4, <1>i, WorkerIsLocal
<1>5. QED
  BY <1>1, <1>2, <1>3, <1>4

LEMMA FlowFrame ==
  ASSUME FlowInv, UNCHANGED ctl,
         \A q \in Logins : stage'[q] = stage[q] \/ stage'[q] = "exit"
  PROVE  FlowInv'
BY DEF FlowInv, Working, Flow

LEMMA FlowSidecar ==
  ASSUME TypeOK, FlowInv, NEW o \in Logins, SidecarStep(o)
  PROVE  FlowInv'
<1> USE DEF TypeOK, SidecarTypeOK, StageTo, CancelControl, FlowInv, Working, Flow
<1>1. CASE ReadStart(o) \/ AuthorizeStart(o) \/ ReadCancel(o)
  BY <1>1 DEF ReadStart, AuthorizeStart, ReadCancel
<1>2. CASE WriteCancelAck(o)
  BY <1>2 DEF WriteCancelAck
<1>3. CASE ReadEof(o)
  <2>1. CancelControl(o) /\ UNCHANGED stage
    BY <1>3 DEF ReadEof
  <2>2. QED
    BY <2>1
<1>4. CASE LeaveInert(o)
  BY <1>4 DEF LeaveInert
<1>5. CASE FlowCancelled(o) \/ FlowFails(o) \/ Advance(o)
  BY <1>5 DEF FlowCancelled, FlowFails, Advance
<1>6. CASE BeginCommit(o) \/ AnnounceCommit(o) \/ StoreCredentials(o)
  BY <1>6 DEF BeginCommit, AnnounceCommit, StoreCredentials
<1>7. CASE FinishControl(o) \/ WriteTerminal(o) \/ Exit(o) \/ Die(o)
  BY <1>7 DEF FinishControl, WriteTerminal, Exit, Die
<1>8. QED
  BY <1>1, <1>2, <1>3, <1>4, <1>5, <1>6, <1>7
     DEF SidecarStep, ReaderStep, MainStep, FlowStep

LEMMA FlowStepKeeps == TypeOK /\ FlowInv /\ [Next]_vars => FlowInv'
<1> SUFFICES ASSUME TypeOK, FlowInv, [Next]_vars PROVE FlowInv'
    OBVIOUS
<1> USE DEF sidecar
<1>w. ASSUME NEW o \in Logins, Wait(o) PROVE FlowInv'
  BY <1>w, FlowFrame DEF Wait, TypeOK, SidecarTypeOK
<1>1. ASSUME NEW o \in Logins, StartStep(o) PROVE FlowInv'
  BY <1>1, <1>w, FlowFrame
     DEF StartStep, OpenReceipt, SpawnSidecar, SetPid, BindIdentity,
         CheckpointStart, AuthorizeLoginStart, ReadStartAck, StartFails,
         StopChild
<1>2. ASSUME NEW o \in Logins, WatchStep(o) PROVE FlowInv'
  BY <1>2, <1>w, FlowFrame
     DEF WatchStep, SendCancel, SendCancelFails, ReapSidecar, Watchdog,
         Reaped, ReadEvent, LoginDeadline, ClearPid, FinishLogin
<1>3. ASSUME NEW o \in Logins, Sidecar(o) PROVE FlowInv'
  BY <1>3, FlowSidecar DEF Sidecar
<1>4. QED
  BY <1>1, <1>2, <1>3, FlowFrame
     DEF Next, vars, BeginLogin, CancelAnswered, CancelAsks, BeginPreflight,
         BeginMutation, TaskStep, RegisterStatus, AwaitStatus, PromoteToProof,
         ReleaseProof, ReleaseMutation, CancelReturns, ExitBegins, ExitStep,
         ExitSignals, ExitLeaves, Crash, Gone

-----------------------------------------------------------------------------
(* What the parts of the mapping do.                                        *)

Turns    == [o \in Logins |-> Turn(o)]
Receipted == {o \in Logins : receipt[o] \in Durable}
Words    == [o \in Logins |-> Said(o)]

LEMMA SameTurns == ASSUME UNCHANGED lpc PROVE UNCHANGED Turns
BY DEF Turns, Turn

LEMMA SameReceipts == ASSUME UNCHANGED receipt PROVE UNCHANGED Receipted
BY DEF Receipted

LEMMA SameWords == ASSUME UNCHANGED <<disp, snap, last, told>> PROVE UNCHANGED Words
BY DEF Words, Said

LEMMA TurnMoves ==
  ASSUME TypeOK, NEW o \in Logins, NEW l \in LPCs, LoginTo(o, l)
  PROVE  /\ l \notin {"idle", "done"} =>
              Turns' = [Turns EXCEPT ![o] = "active"]
         /\ l = "done" => Turns' = [Turns EXCEPT ![o] = "ended"]
BY DEF TypeOK, LoginTo, Turns, Turn

LEMMA TurnStays ==
  ASSUME TypeOK, NEW o \in Logins, NEW l \in LPCs, LoginTo(o, l),
         Active(o), l \notin {"idle", "done"}
  PROVE  UNCHANGED Turns
<1>1. Turns' = [Turns EXCEPT ![o] = "active"] /\ Turns[o] = "active"
  BY TurnMoves DEF Turns, Turn, Active
<1>2. QED
  BY <1>1 DEF Turns

\* A receipt that is rewritten tells of a start before and after, or not yet.
LEMMA ReceiptMoves ==
  ASSUME TypeOK, NEW o \in Logins, NEW r \in Receipts,
         receipt' = [receipt EXCEPT ![o] = r]
  PROVE  /\ r \in Durable => Receipted' = Receipted \cup {o}
         /\ (r \in Durable <=> receipt[o] \in Durable) => UNCHANGED Receipted
BY DEF TypeOK, Receipted

\* Where nobody moves the barrier or the disk, every word is true by WordInv.
LEMMA SpeaksTrue ==
  ASSUME TypeOK', WordInv', UNCHANGED <<ctl, stored>>
  PROVE  Contract!Speak
<1> SUFFICES ASSUME NEW o \in Logins, NEW w \in Words'[o]
             PROVE  Contract!True(o, w)
    BY DEF Contract!Speak, Words
<1>1. w \in Said(o)'
  BY DEF Words
<1>2. CASE w = disp'[o] \/ w = snap'[o]
  <2>1. TrueOf(o, disp[o])' /\ TrueOf(o, snap[o])'
    BY DEF WordInv, RecordWords
  <2>2. QED
    BY <1>2, <2>1 DEF Contract!True, TrueOf, NoCommit, PastBarrier
<1>3. CASE last'.id = o /\ last'.state = w
  <2>1. last' # NoSnapshot => TrueOf(last.id, last.state)'
    BY DEF WordInv, LastWord
  <2>2. last' # NoSnapshot
    BY <1>3, LoginsAreNumbers DEF NoSnapshot
  <2>3. QED
    BY <1>3, <2>1, <2>2 DEF Contract!True, TrueOf, NoCommit, PastBarrier
<1>4. CASE told'.id = o /\ told'.answer = w /\ w # "accepted"
  <2>1. w = "commit_in_progress" => PastBarrier(o)'
    BY <1>4 DEF WordInv, ToldWord
  <2>2. w \notin {"cancelled", "committing", "succeeded"}
    BY <1>4 DEF TypeOK, Dispositions
  <2>3. QED
    BY <1>4, <2>1, <2>2 DEF Contract!True, PastBarrier
<1>5. QED
  BY <1>1, <1>2, <1>3, <1>4 DEF Said

-----------------------------------------------------------------------------
(* Every step of the system is a step of the contract or a stutter.         *)

MapInv == TypeInv /\ Exclusive /\ ChildInv /\ WordInv /\ StartInv
            /\ ReceiptInv /\ FlowInv

LEMMA MapInvHolds == Spec => []MapInv
<1>1. TypeInv => TypeOK
  BY DEF TypeInv
<1>2. QED
  BY <1>1, WordsAreTrue, StartsAreOrdered, ChildInit, ChildStep, OrderInit,
     ReceiptStep, FlowStepKeeps, PTL DEF Spec, MapInv

\* A child works in the turn of its login, and its control moves as promised.
LEMMA ChildWorks ==
  ASSUME MapInv, NEW o \in Logins, Sidecar(o)
  PROVE  Contract!Child(o) \/ UNCHANGED Contract!cvars
<1> /\ ctl \in [Logins -> Controls] /\ stored \subseteq Logins
    BY DEF MapInv, TypeInv, TypeOK, SidecarTypeOK
<1>1. Alive(o) /\ SidecarStep(o)
  BY DEF Sidecar, SidecarStep, ReaderStep, MainStep, FlowStep, ReadStart,
         AuthorizeStart, ReadCancel, WriteCancelAck, ReadEof, Listening,
         LeaveInert, FlowCancelled, AnnounceCommit, StoreCredentials,
         FinishControl, WriteTerminal, Exit, Advance, FlowFails, BeginCommit,
         Die
<1>2. Contract!Active(o)
  BY <1>1 DEF MapInv, ChildInv, Attended, Contract!Active, Turn
<1>3. UNCHANGED <<Turns, Receipted, Words>>
  BY SameTurns, SameReceipts, SameWords
     DEF Sidecar, inner, record, worker, user
<1>4. Begun(o) => o \in Receipted
  BY DEF MapInv, StartInv, Receipted
<1>s. ASSUME UNCHANGED <<ctl, stored>> PROVE UNCHANGED Contract!cvars
  BY <1>s, <1>3 DEF Contract!cvars, Turns, Receipted, Words
<1>c. ASSUME \/ Contract!Start(o) \/ Contract!Refuse(o) \/ Contract!Pass(o)
             \/ Contract!Store(o) \/ Contract!Finish(o)
      PROVE  Contract!Child(o)
  BY <1>c, <1>2, <1>3 DEF Contract!Child, Turns, Receipted, Words
<1>r. ASSUME CancelControl(o), UNCHANGED stored
      PROVE  Contract!Refuse(o) \/ UNCHANGED <<ctl, stored>>
  <2>1. CASE ctl[o] \in {"waiting_start", "running"}
    BY <1>r, <2>1 DEF CancelControl, Contract!Refuse, Contract!Moves
  <2>2. CASE ctl[o] \notin {"waiting_start", "running"}
    BY <1>r, <2>2 DEF CancelControl
  <2>3. QED
    BY <2>1, <2>2
<1>5. CASE ReadStart(o) \/ ReadCancel(o) \/ ReadEof(o)
  <2>1. CancelControl(o) \/ UNCHANGED ctl
    BY <1>5 DEF ReadStart, ReadCancel, ReadEof
  <2>2. UNCHANGED stored
    BY <1>5 DEF ReadStart, ReadCancel, ReadEof
  <2>3. QED
    BY <2>1, <2>2, <1>s, <1>c, <1>r
<1>6. CASE AuthorizeStart(o)
  <2>1. CASE ctl[o] = "waiting_start"
    <3>1. /\ ctl' = [ctl EXCEPT ![o] = "running"] /\ UNCHANGED stored
          /\ reader[o] = "granting"
      BY <1>6, <2>1 DEF AuthorizeStart
    <3>2. o \in Receipted
      BY <3>1, <1>4 DEF Begun
    <3>3. Contract!Start(o)
      BY <2>1, <3>1, <3>2 DEF Contract!Start, Contract!Moves, Receipted
    <3>4. QED
      BY <3>3, <1>c
  <2>2. CASE ctl[o] # "waiting_start"
    BY <1>6, <2>2, <1>s DEF AuthorizeStart
  <2>3. QED
    BY <2>1, <2>2
<1>7. CASE BeginCommit(o)
  <2>1. Contract!Pass(o)
    BY <1>7 DEF BeginCommit, Contract!Pass, Contract!Moves
  <2>2. QED
    BY <2>1, <1>c
<1>8. CASE StoreCredentials(o)
  <2>1. ctl[o] = "committing" /\ UNCHANGED ctl
    BY <1>8 DEF StoreCredentials, MapInv, WordInv, BarrierInv
  <2>2. stored' = stored \cup {o} \/ UNCHANGED stored
    BY <1>8 DEF StoreCredentials
  <2>3. Contract!Store(o) \/ UNCHANGED <<ctl, stored>>
    BY <2>1, <2>2 DEF Contract!Store
  <2>4. QED
    BY <2>3, <1>s, <1>c
<1>9. CASE FinishControl(o)
  <2>1. /\ stage[o] = "finish" /\ UNCHANGED stored
        /\ ctl' = [ctl EXCEPT ![o] = "finished"]
    BY <1>9 DEF FinishControl
  <2>2. ctl[o] # "waiting_start" /\ o \in Receipted
    BY <2>1, <1>4 DEF MapInv, FlowInv, Working, Begun
  <2>3. CASE ctl[o] = "finished"
    BY <2>1, <2>3, <1>s
  <2>4. CASE ctl[o] # "finished"
    <3>1. ctl[o] \in {"running", "cancelled", "committing"}
      BY <2>2, <2>4 DEF Controls
    <3>2. Contract!Finish(o)
      BY <2>1, <2>2, <3>1 DEF Contract!Finish, Contract!Moves, Receipted
    <3>3. QED
      BY <3>2, <1>c
  <2>5. QED
    BY <2>3, <2>4
<1>10. CASE \/ WriteCancelAck(o) \/ LeaveInert(o) \/ FlowCancelled(o)
            \/ AnnounceCommit(o) \/ WriteTerminal(o) \/ Exit(o)
            \/ Advance(o) \/ FlowFails(o) \/ Die(o)
  BY <1>10, <1>s
     DEF WriteCancelAck, LeaveInert, FlowCancelled, AnnounceCommit,
         WriteTerminal, Exit, Advance, FlowFails, Die
<1>11. QED
  BY <1>1, <1>5, <1>6, <1>7, <1>8, <1>9, <1>10
     DEF SidecarStep, ReaderStep, MainStep, FlowStep

\* A step outside the children that leaves turns and receipts alone.
LEMMA Reports ==
  ASSUME Contract!Speak, UNCHANGED <<ctl, stored, Turns, Receipted>>
  PROVE  Contract!Desktop
BY DEF Contract!Desktop, Contract!Report, Turns, Receipted

LEMMA WorkerWorks ==
  ASSUME MapInv, Contract!Speak, UNCHANGED <<ctl, stored>>,
         NEW o \in Logins, BeginLogin(o) \/ StartStep(o) \/ WatchStep(o)
  PROVE  Contract!Desktop
<1> TypeOK
    BY DEF MapInv, TypeInv
<1>r. /\ lpc[o] \in Unprepared => receipt[o] \notin Durable
      /\ lpc[o] \in Prepared => receipt[o] \in Durable
  BY DEF MapInv, ReceiptInv
<1>m. ASSUME NEW l \in LPCs, LoginTo(o, l), Active(o),
             l \notin {"idle", "done"}, UNCHANGED Receipted
      PROVE  Contract!Desktop
  BY <1>m, TurnStays, Reports
<1>e. ASSUME Active(o), WorkerReturns(o), UNCHANGED Receipted
      PROVE  Contract!Desktop
  <2>1. Turns' = [Turns EXCEPT ![o] = "ended"]
    BY <1>e, TurnMoves DEF WorkerReturns, LPCs
  <2>2. Contract!Active(o)
    BY <1>e DEF Active, Contract!Active, Turn
  <2>3. Contract!End(o)
    BY <1>e, <2>1, <2>2 DEF Contract!End, Contract!TurnTo, Turns, Receipted
  <2>4. QED
    BY <2>3 DEF Contract!Desktop
<1>1. CASE BeginLogin(o)
  <2>1. \A q \in Logins : ~Contract!Active(q)
    BY <1>1, FreeMeansIdle
       DEF BeginLogin, MapInv, Active, Contract!Active, Turn
  <2>2. Turns' = [Turns EXCEPT ![o] = "active"] /\ Turn(o) = "new"
    BY <1>1, TurnMoves DEF BeginLogin, Turn, LPCs, Starting
  <2>3. UNCHANGED Receipted
    BY <1>1, SameReceipts DEF BeginLogin
  <2>4. Contract!Begin(o)
    BY <2>1, <2>2, <2>3 DEF Contract!Begin, Contract!TurnTo, Turns, Receipted
  <2>5. QED
    BY <2>4 DEF Contract!Desktop
<1>2. CASE OpenReceipt(o)
  <2>1. UNCHANGED Receipted
    BY <1>2, <1>r, ReceiptMoves DEF OpenReceipt, Receipts, Unprepared, Durable
  <2>2. QED
    BY <1>2, <1>m, <2>1 DEF OpenReceipt, Active, LPCs, Starting
<1>3. CASE CheckpointStart(o)
  <2>1. /\ lpc[o] \in {"inert", "prepare", "acked"}
        /\ NextReceipt(lpc[o]) \in Receipts
        /\ receipt' = [receipt EXCEPT ![o] = NextReceipt(lpc[o])]
        /\ LoginTo(o, AfterReceipt(lpc[o])) /\ Active(o)
        /\ AfterReceipt(lpc[o]) \in LPCs \ {"idle", "done"}
    BY <1>3 DEF CheckpointStart, NextReceipt, AfterReceipt, Receipts, LPCs,
                Starting, Active
  <2>2. CASE lpc[o] = "prepare"
    <3>1. Receipted' = Receipted \cup {o}
      BY <2>1, <2>2, ReceiptMoves DEF NextReceipt, Durable
    <3>2. Contract!Active(o)
      BY <2>1 DEF Active, Contract!Active, Turn
    <3>3. UNCHANGED Turns
      BY <2>1, TurnStays
    <3>4. Contract!Prepare(o)
      BY <3>1, <3>2, <3>3 DEF Contract!Prepare, Turns, Receipted
    <3>5. QED
      BY <3>4 DEF Contract!Desktop
  <2>3. CASE lpc[o] # "prepare"
    <3>1. NextReceipt(lpc[o]) \in Durable <=> receipt[o] \in Durable
      BY <2>1, <2>3, <1>r DEF NextReceipt, Durable, Unprepared, Prepared
    <3>2. UNCHANGED Receipted
      BY <2>1, <3>1, ReceiptMoves
    <3>3. QED
      BY <2>1, <3>2, <1>m
  <2>4. QED
    BY <2>2, <2>3
<1>4. CASE \/ SpawnSidecar(o) \/ SetPid(o) \/ BindIdentity(o)
           \/ AuthorizeLoginStart(o) \/ ReadStartAck(o) \/ ClearPid(o)
  <2>1. UNCHANGED Receipted
    BY <1>4, SameReceipts
       DEF SpawnSidecar, SetPid, BindIdentity, AuthorizeLoginStart,
           ReadStartAck, ClearPid
  <2>2. QED
    BY <1>4, <1>m, <2>1
       DEF SpawnSidecar, SetPid, BindIdentity, AuthorizeLoginStart,
           ReadStartAck, ClearPid, Active, LPCs, Starting
<1>5. CASE SendCancelFails(o) \/ ReapSidecar(o) \/ Watchdog(o)
  <2>1. UNCHANGED receipt /\ LoginTo(o, "reaped") /\ lpc[o] = "watch"
    BY <1>5 DEF SendCancelFails, ReapSidecar, Watchdog, Reaped
  <2>2. QED
    BY <2>1, <1>m, SameReceipts DEF Active, LPCs
<1>6. CASE SendCancel(o) \/ ReadEvent(o) \/ LoginDeadline(o)
  <2>1. UNCHANGED <<lpc, receipt>>
    BY <1>6 DEF SendCancel, ReadEvent, LoginDeadline, worker
  <2>2. QED
    BY <2>1, SameTurns, SameReceipts, Reports
<1>7. CASE StartFails(o)
  <2>1. Active(o) /\ WorkerReturns(o) /\ UNCHANGED receipt
    BY <1>7 DEF StartFails, Active, Starting
  <2>2. QED
    BY <2>1, <1>e, SameReceipts
<1>8. CASE FinishLogin(o)
  <2>1. /\ Active(o) /\ WorkerReturns(o)
        /\ \/ UNCHANGED receipt
           \/ receipt' = [receipt EXCEPT ![o] = "terminal"]
    BY <1>8 DEF FinishLogin, Active
  <2>2. receipt[o] \in Durable
    BY <1>8, <1>r DEF FinishLogin, Prepared
  <2>3. "terminal" \in Durable /\ "terminal" \in Receipts
    BY DEF Durable, Receipts
  <2>4. UNCHANGED Receipted
    BY <2>1, <2>2, <2>3, SameReceipts, ReceiptMoves
  <2>5. QED
    BY <2>1, <2>4, <1>e
<1>9. QED
  BY <1>1, <1>2, <1>3, <1>4, <1>5, <1>6, <1>7, <1>8 DEF StartStep, WatchStep

\* What the contract promises: a word that is true of a login stays true,
\* whatever step the contract takes.
THEOREM TruthLasts ==
  ASSUME NEW o \in Logins, NEW w, ctl \in [Logins -> Controls],
         Contract!True(o, w), [Contract!Next]_Contract!cvars
  PROVE  Contract!True(o, w)'
<1>1. CASE UNCHANGED <<ctl, stored>>
  BY <1>1 DEF Contract!True
<1>2. ASSUME NEW q \in Logins, Contract!Child(q) PROVE Contract!True(o, w)'
  <2>1. CASE Contract!Store(q)
    BY <2>1 DEF Contract!Store, Contract!True
  <2>2. CASE Contract!Start(q)
    BY <2>2 DEF Contract!Start, Contract!Moves, Contract!True
  <2>3. CASE Contract!Refuse(q)
    BY <2>3 DEF Contract!Refuse, Contract!Moves, Contract!True
  <2>4. CASE Contract!Pass(q)
    BY <2>4 DEF Contract!Pass, Contract!Moves, Contract!True
  <2>5. CASE Contract!Finish(q)
    BY <2>5 DEF Contract!Finish, Contract!Moves, Contract!True
  <2>6. QED
    BY <1>2, <2>1, <2>2, <2>3, <2>4, <2>5 DEF Contract!Child
<1>3. QED
  BY <1>1, <1>2 DEF Contract!Next, Contract!Desktop, Contract!cvars

LEMMA ContractInit == Init => Contract!Init
BY DEF Init, SidecarInit, NoSnapshot, NoAnswer, Contract!Init, Turn, Said,
       Promises, Durable, Logins

\* What is not a step of a child moves no barrier and stores nothing.
LEMMA OnlyChildrenDecide ==
  ASSUME [Next]_vars, \A o \in Logins : ~Sidecar(o)
  PROVE  UNCHANGED <<ctl, stored>>
<1> USE DEF sidecar
<1>1. ASSUME NEW o \in Logins, BeginLogin(o) \/ StartStep(o)
      PROVE  UNCHANGED <<ctl, stored>>
  BY <1>1 DEF BeginLogin, StartStep, OpenReceipt, SpawnSidecar, SetPid,
              BindIdentity, CheckpointStart, AuthorizeLoginStart,
              ReadStartAck, StartFails, StopChild, Wait
<1>2. ASSUME NEW o \in Logins, WatchStep(o) PROVE UNCHANGED <<ctl, stored>>
  BY <1>2 DEF WatchStep, SendCancel, SendCancelFails, ReapSidecar, Watchdog,
              Reaped, Wait, ReadEvent, LoginDeadline, ClearPid, FinishLogin
<1>3. QED
  BY <1>1, <1>2
     DEF Next, vars, CancelAnswered, CancelAsks, BeginPreflight,
         BeginMutation, TaskStep, RegisterStatus, AwaitStatus, PromoteToProof,
         ReleaseProof, ReleaseMutation, CancelReturns, ExitBegins, ExitStep,
         ExitSignals, ExitLeaves, Crash, Gone

LEMMA ContractStep ==
  MapInv /\ MapInv' /\ [Next]_vars => [Contract!Next]_Contract!cvars
<1> SUFFICES ASSUME MapInv, MapInv', [Next]_vars
             PROVE  Contract!Next \/ UNCHANGED Contract!cvars
    OBVIOUS
<1>1. ASSUME NEW o \in Logins, Sidecar(o)
      PROVE  Contract!Next \/ UNCHANGED Contract!cvars
  BY <1>1, ChildWorks DEF Contract!Next
<1>2. ASSUME \A o \in Logins : ~Sidecar(o) PROVE Contract!Next
  <2>1. UNCHANGED <<ctl, stored>>
    BY <1>2, OnlyChildrenDecide
  <2>2. Contract!Speak
    BY <2>1, SpeaksTrue DEF MapInv, TypeInv
  <2>3. ASSUME NEW o \in Logins, BeginLogin(o) \/ StartStep(o) \/ WatchStep(o)
        PROVE  Contract!Next
    BY <2>1, <2>2, <2>3, WorkerWorks DEF Contract!Next
  <2>4. ASSUME \A o \in Logins : ~BeginLogin(o) /\ ~StartStep(o) /\ ~WatchStep(o)
        PROVE  Contract!Next
    <3>1. UNCHANGED <<lpc, receipt>>
      BY <1>2, <2>4
         DEF Next, vars, worker, CancelAnswered, CancelAsks, BeginPreflight,
             BeginMutation, TaskStep, RegisterStatus, AwaitStatus,
             PromoteToProof, ReleaseProof, ReleaseMutation, CancelReturns,
             ExitBegins, ExitStep, ExitSignals, ExitLeaves, Crash, Gone
    <3>2. Contract!Desktop
      BY <2>1, <2>2, <3>1, SameTurns, SameReceipts, Reports
    <3>3. QED
      BY <3>2 DEF Contract!Next
  <2>5. QED
    BY <2>3, <2>4
<1>3. QED
  BY <1>1, <1>2

\* The worker, the child with its two threads, the user who cancels and the
\* native exit implement the contract of the logins: turns, durable starts,
\* one decision, and words that stay true.
THEOREM Implements == Spec => ImplementsLogins
<1>1. MapInv /\ MapInv' /\ [Next]_vars => [Contract!Next]_Contract!cvars
  BY ContractStep
<1>2. QED
  BY <1>1, ContractInit, MapInvHolds, PTL
     DEF Spec, ImplementsLogins, Contract!Spec
=============================================================================
