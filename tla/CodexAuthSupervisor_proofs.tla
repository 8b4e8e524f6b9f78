--------------------- MODULE CodexAuthSupervisor_proofs ---------------------
(* Proofs about CodexAuthSupervisor, for every number of logins and every   *)
(* set of other tasks.                                                      *)
EXTENDS CodexAuthSupervisor, TLAPS

-----------------------------------------------------------------------------
(* Type correctness.  It needs that a flow which has ended has a result: the *)
(* terminal line is written from it.                                        *)

ResultKnown == \A o \in Logins : stage[o] \in {"finish", "terminal"} => res[o] \in Results
TypeInv     == TypeOK /\ ResultKnown

LEMMA LoginsAreNumbers == Logins \subseteq Nat /\ NoLogin \notin Logins
BY LoginsAssumption DEF Logins, NoLogin

LEMMA EventTypes ==
  /\ Event("start_ack", "start") \in Events
  /\ \A s \in {"waiting", "exchanging", "committing"} : Event("progress", s) \in Events
  /\ \A d \in Dispositions : Event("cancel_ack", d) \in Events
  /\ \A r \in Results : Event("terminal", r) \in Events
BY DEF Event, Events

LEMMA EmitType ==
  ASSUME NEW o \in Logins, NEW e \in Events, Emit(o, e),
         output \in [Logins -> Seq(Events)]
  PROVE  output' \in [Logins -> Seq(Events)]
<1>1. Append(output[o], e) \in Seq(Events)
  OBVIOUS
<1>2. QED
  BY <1>1 DEF Emit

LEMMA TailType ==
  ASSUME NEW o \in Logins, output[o] # <<>>,
         output \in [Logins -> Seq(Events)],
         output' = [output EXCEPT ![o] = Tail(@)]
  PROVE  /\ output' \in [Logins -> Seq(Events)]
         /\ Head(output[o]) \in Events
<1>1. Tail(output[o]) \in Seq(Events) /\ Head(output[o]) \in Events
  OBVIOUS
<1>2. QED
  BY <1>1

LEMMA InputType ==
  ASSUME NEW o \in Logins, input \in [Logins -> Seq({"start", "cancel"})]
  PROVE  /\ input[o] # <<>> => Tail(input[o]) \in Seq({"start", "cancel"})
         /\ \A c \in {"start", "cancel"} : Append(input[o], c) \in Seq({"start", "cancel"})
OBVIOUS

LEMMA TypeInit == Init => TypeInv
<1> SUFFICES ASSUME Init PROVE TypeInv
    OBVIOUS
<1>1. SidecarTypeOK
  <2>1. <<>> \in Seq(Events) /\ <<>> \in Seq({"start", "cancel"})
    OBVIOUS
  <2>2. QED
    BY <2>1 DEF Init, SidecarInit, SidecarTypeOK, Controls, Stages, Readers
<1>2. last \in [id : Logins \cup {NoLogin}, state : SnapStates \cup Results]
  BY DEF Init, NoSnapshot, SnapStates
<1>3. told \in [id : Logins \cup {NoLogin}, answer : Dispositions]
  BY DEF Init, NoAnswer, Dispositions
<1>4. TypeOK
  BY <1>1, <1>2, <1>3
  DEF Init, TypeOK, SnapStates, LPCs, UPCs, Exits, Receipts
<1>5. QED
  BY <1>4 DEF Init, SidecarInit, TypeInv, ResultKnown

\* A step of the child alone keeps the types of its variables.
LEMMA SidecarType ==
  ASSUME NEW o \in Logins, SidecarTypeOK, ResultKnown, SidecarStep(o)
  PROVE  SidecarTypeOK' /\ ResultKnown'
<1> USE DEF SidecarTypeOK, ResultKnown, StageTo, EndsAs, Consume, CancelControl
<1>1. CASE ReadStart(o)
  <2>1. output' \in [Logins -> Seq(Events)]
    BY <1>1, EmitType, EventTypes DEF ReadStart
  <2>2. input' \in [Logins -> Seq({"start", "cancel"})]
    BY <1>1, InputType DEF ReadStart, HasLine
  <2>3. QED
    BY <1>1, <2>1, <2>2 DEF ReadStart, Controls, Readers
<1>2. CASE AuthorizeStart(o)
  BY <1>2 DEF AuthorizeStart, Controls, Readers
<1>3. CASE ReadCancel(o)
  <2>1. input' \in [Logins -> Seq({"start", "cancel"})]
    BY <1>3, InputType DEF ReadCancel, HasLine
  <2>2. CancelAnswer(o) \in Dispositions
    BY DEF CancelAnswer, Dispositions
  <2>3. QED
    BY <1>3, <2>1, <2>2 DEF ReadCancel, Controls
<1>4. CASE WriteCancelAck(o)
  <2>1. ack[o] \in Dispositions
    BY <1>4 DEF WriteCancelAck
  <2>2. output' \in [Logins -> Seq(Events)]
    BY <1>4, <2>1, EmitType, EventTypes DEF WriteCancelAck
  <2>3. QED
    BY <1>4, <2>2 DEF WriteCancelAck, Readers
<1>5. CASE ReadEof(o)
  BY <1>5 DEF ReadEof, Controls, Readers
<1>6. CASE LeaveInert(o)
  <2>1. CASE ctl[o] = "cancelled"
    BY <1>6, <2>1 DEF LeaveInert, Stages, Results
  <2>2. CASE ctl[o] # "cancelled"
    BY <1>6, <2>2 DEF LeaveInert, Stages
  <2>3. QED
    BY <2>1, <2>2
<1>7. CASE FlowCancelled(o)
  BY <1>7 DEF FlowCancelled, Stages, Results
<1>8. CASE AnnounceCommit(o)
  <2>1. output' \in [Logins -> Seq(Events)]
    BY <1>8, EmitType, EventTypes DEF AnnounceCommit
  <2>2. QED
    BY <1>8, <2>1 DEF AnnounceCommit, Stages
<1>9. CASE StoreCredentials(o)
  BY <1>9 DEF StoreCredentials, Stages, Results
<1>10. CASE FinishControl(o)
  BY <1>10 DEF FinishControl, Stages, Controls
<1>11. CASE WriteTerminal(o)
  <2>1. res[o] \in Results
    BY <1>11 DEF WriteTerminal
  <2>2. output' \in [Logins -> Seq(Events)]
    BY <1>11, <2>1, EmitType, EventTypes DEF WriteTerminal
  <2>3. QED
    BY <1>11, <2>2 DEF WriteTerminal, Stages
<1>12. CASE Exit(o)
  BY <1>12 DEF Exit
<1>13. CASE Advance(o)
  BY <1>13, EmitType, EventTypes DEF Advance, Stages
<1>14. CASE FlowFails(o)
  BY <1>14 DEF FlowFails, Stages, Results
<1>15. CASE BeginCommit(o)
  BY <1>15 DEF BeginCommit, Stages, Controls
<1>16. CASE Die(o)
  BY <1>16 DEF Die
<1>17. QED
  BY <1>1, <1>2, <1>3, <1>4, <1>5, <1>6, <1>7, <1>8, <1>9, <1>10, <1>11, <1>12,
     <1>13, <1>14, <1>15, <1>16
  DEF SidecarStep, ReaderStep, MainStep, FlowStep

\* Waiting for a child leaves nothing of it to read.
LEMMA WaitType ==
  ASSUME NEW o \in Logins, SidecarTypeOK, ResultKnown, Wait(o)
  PROVE  SidecarTypeOK' /\ ResultKnown'
<1>1. <<>> \in Seq(Events) /\ <<>> \in Seq({"start", "cancel"})
  OBVIOUS
<1>2. QED
  BY <1>1 DEF Wait, SidecarTypeOK, ResultKnown, Stages, Readers

LEMMA DropLoginType ==
  ASSUME TypeOK, DropLogin
  PROVE  /\ login' \in Logins \cup {NoLogin}
         /\ cancel' \in [Logins -> BOOLEAN]
         /\ pid' \in [Logins -> BOOLEAN]
         /\ ident' \in [Logins -> BOOLEAN]
         /\ disp' \in [Logins -> Dispositions \cup {"none"}]
         /\ snap' \in [Logins -> SnapStates]
BY DEF TypeOK, DropLogin, SnapStates

LEMMA WorkerReturnsType ==
  ASSUME TypeOK, NEW o \in Logins, WorkerReturns(o)
  PROVE  /\ lpc' \in [Logins -> LPCs]
         /\ sent' \in [Logins -> BOOLEAN]
         /\ term' \in [Logins -> Results \cup {"none"}]
         /\ outcome' \in [Logins -> Results \cup {"none", "error"}]
         /\ acked' \in [Logins -> BOOLEAN]
BY DEF TypeOK, WorkerReturns, LoginTo, LPCs

LEMMA TypeStep == TypeInv /\ [Next]_vars => TypeInv'
<1> SUFFICES ASSUME TypeInv, [Next]_vars PROVE TypeInv'
    OBVIOUS
<1> USE DEF TypeInv
<1>r. ASSUME UNCHANGED <<stage, res>> PROVE ResultKnown'
  BY <1>r DEF ResultKnown
<1>s. ASSUME UNCHANGED sidecar PROVE SidecarTypeOK' /\ ResultKnown'
  BY <1>s DEF TypeOK, SidecarTypeOK, ResultKnown, sidecar
<1>1. ASSUME NEW o \in Logins, BeginLogin(o) PROVE TypeInv'
  BY <1>1, <1>s
  DEF BeginLogin, TypeOK, NoAnswer, LoginTo, SnapStates, LPCs, Starting,
      Dispositions, record, others
<1>2. ASSUME NEW o \in Logins, StartStep(o) PROVE TypeInv'
  <2> USE DEF TypeOK, LoginTo, LPCs, Starting, inner, record, others, user, sidecar
  <2>1. CASE OpenReceipt(o)
    BY <1>s, <2>1 DEF OpenReceipt, Receipts
  <2>2. CASE SpawnSidecar(o)
    BY <1>r, <2>2 DEF SpawnSidecar, SidecarTypeOK
  <2>3. CASE SetPid(o)
    BY <1>s, <2>3 DEF SetPid
  <2>4. CASE BindIdentity(o)
    BY <1>s, <2>4 DEF BindIdentity
  <2>5. CASE CheckpointStart(o)
    BY <1>s, <2>5 DEF CheckpointStart, NextReceipt, AfterReceipt, Receipts
  <2>6. CASE AuthorizeLoginStart(o)
    <3>1. input' \in [Logins -> Seq({"start", "cancel"})]
      BY <2>6, InputType DEF AuthorizeLoginStart, SidecarTypeOK
    <3>2. QED
      BY <1>r, <2>6, <3>1 DEF AuthorizeLoginStart, SidecarTypeOK
  <2>7. CASE ReadStartAck(o)
    <3>1. output' \in [Logins -> Seq(Events)]
      BY <2>7, TailType DEF ReadStartAck, HasEvent, SidecarTypeOK
    <3>2. QED
      BY <1>r, <2>7, <3>1 DEF ReadStartAck, SidecarTypeOK
  <2>8. CASE StartFails(o)
    <3>1. SidecarTypeOK' /\ ResultKnown'
      BY <1>s, <2>8, WaitType DEF StartFails, StopChild
    <3>2. UNCHANGED <<login, last, record>> \/ (DropLogin /\ last' = NoSnapshot)
      BY <2>8 DEF StartFails, Abort
    <3>3. /\ login' \in Logins \cup {NoLogin}
          /\ cancel' \in [Logins -> BOOLEAN]
          /\ pid' \in [Logins -> BOOLEAN]
          /\ ident' \in [Logins -> BOOLEAN]
          /\ disp' \in [Logins -> Dispositions \cup {"none"}]
          /\ snap' \in [Logins -> SnapStates]
      BY <3>2, DropLoginType
    <3>4. last' \in [id : Logins \cup {NoLogin}, state : SnapStates \cup Results]
      BY <3>2 DEF NoSnapshot, SnapStates
    <3>5. QED
      BY <2>8, <3>1, <3>3, <3>4, WorkerReturnsType DEF StartFails
  <2>9. QED
    BY <1>2, <2>1, <2>2, <2>3, <2>4, <2>5, <2>6, <2>7, <2>8 DEF StartStep
<1>3. ASSUME NEW o \in Logins, WatchStep(o) PROVE TypeInv'
  <2> USE DEF TypeOK, LoginTo, LPCs, inner, record, others, user, worker, sidecar
  <2>1. CASE SendCancel(o)
    <3>1. input' \in [Logins -> Seq({"start", "cancel"})]
      BY <2>1, InputType DEF SendCancel, SidecarTypeOK
    <3>2. QED
      BY <1>r, <2>1, <3>1 DEF SendCancel, SidecarTypeOK
  <2>2. ASSUME NEW r \in Results \cup {"error"}, Reaped(o, r) PROVE TypeInv'
    <3>1. SidecarTypeOK' /\ ResultKnown'
      BY <2>2, WaitType DEF Reaped
    <3>2. QED
      BY <2>2, <3>1 DEF Reaped
  <2>3. CASE SendCancelFails(o)
    BY <2>2, <2>3 DEF SendCancelFails
  <2>4. CASE ReapSidecar(o)
    <3>1. (IF proc[o] = "exited" /\ term[o] # "none" THEN term[o] ELSE "error")
             \in Results \cup {"error"}
      OBVIOUS
    <3>2. QED
      BY <2>2, <2>4, <3>1 DEF ReapSidecar
  <2>5. CASE Watchdog(o)
    BY <2>2, <2>5 DEF Watchdog, Results
  <2>6. CASE LoginDeadline(o)
    BY <1>s, <2>6 DEF LoginDeadline
  <2>7. CASE ClearPid(o)
    BY <1>s, <2>7 DEF ClearPid
  <2>8. CASE ReadEvent(o)
    <3> DEFINE e == Head(output[o])
    <3>1. output' \in [Logins -> Seq(Events)] /\ e \in Events
      BY <2>8, TailType DEF ReadEvent, SidecarTypeOK
    <3>2. /\ e.kind = "progress" => e.val \in SnapStates
          /\ e.kind = "cancel_ack" => e.val \in Dispositions
          /\ e.kind = "terminal" => e.val \in Results
      BY <3>1 DEF Events, SnapStates
    <3>3. /\ disp' \in [Logins -> Dispositions \cup {"none"}]
          /\ snap' \in [Logins -> SnapStates]
          /\ last' \in [id : Logins \cup {NoLogin}, state : SnapStates \cup Results]
      BY <2>8, <3>2 DEF ReadEvent, ShowState, ShowDisposition, SnapStates
    <3>4. term' \in [Logins -> Results \cup {"none"}]
      BY <2>8, <3>2 DEF ReadEvent
    <3>5. acked' \in [Logins -> BOOLEAN]
      BY <2>8 DEF ReadEvent
    <3>6. QED
      BY <1>r, <2>8, <3>1, <3>3, <3>4, <3>5 DEF ReadEvent, SidecarTypeOK
  <2>9. CASE FinishLogin(o)
    <3>1. \A s \in FinalStates(o) : s \in Results
      BY DEF FinalStates, Results
    <3>2. /\ last' \in [id : Logins \cup {NoLogin}, state : SnapStates \cup Results]
          /\ receipt' \in [Logins -> Receipts]
      BY <2>9, <3>1 DEF FinishLogin, Receipts
    <3>3. QED
      BY <1>s, <2>9, <3>2, DropLoginType, WorkerReturnsType DEF FinishLogin
  <2>10. QED
    BY <1>3, <2>1, <2>3, <2>4, <2>5, <2>6, <2>7, <2>8, <2>9 DEF WatchStep
<1>4. ASSUME NEW o \in Logins, Sidecar(o) PROVE TypeInv'
  BY <1>4, SidecarType
  DEF Sidecar, TypeOK, inner, record, worker, others, user
<1>5. ASSUME NEW o \in Logins, CancelAnswered(o) \/ CancelAsks(o) PROVE TypeInv'
  <2>1. cancel' \in [Logins -> BOOLEAN] /\ cpc' \in Logins \cup {NoLogin}
    BY <1>5 DEF CancelAnswered, CancelAsks, TypeOK
  <2>2. told' \in [id : Logins \cup {NoLogin}, answer : Dispositions]
    BY <1>5 DEF CancelAnswered, CancelAsks, Tell, TypeOK, Dispositions
  <2>3. UNCHANGED <<sidecar, inner, pid, ident, disp, snap, worker, others, xpc>>
    BY <1>5 DEF CancelAnswered, CancelAsks
  <2>4. QED
    BY <1>s, <2>1, <2>2, <2>3 DEF TypeOK, inner, worker, others
<1>6. ASSUME NEW u \in Tasks, BeginPreflight(u) \/ BeginMutation(u) \/ TaskStep(u)
      PROVE  TypeInv'
  <2> USE DEF TypeOK, TaskTo, UPCs, ReleasePreflight, record, worker, user
  <2>1. CASE BeginPreflight(u)
    BY <1>s, <2>1 DEF BeginPreflight
  <2>2. CASE BeginMutation(u)
    BY <1>s, <2>2 DEF BeginMutation
  <2>3. CASE RegisterStatus(u)
    BY <1>s, <2>3 DEF RegisterStatus
  <2>4. CASE AwaitStatus(u)
    BY <1>s, <2>4 DEF AwaitStatus
  <2>5. CASE PromoteToProof(u)
    BY <1>s, <2>5 DEF PromoteToProof
  <2>6. CASE ReleaseProof(u)
    BY <1>s, <2>6 DEF ReleaseProof
  <2>7. CASE ReleaseMutation(u)
    BY <1>s, <2>7 DEF ReleaseMutation
  <2>8. QED
    BY <1>6, <2>1, <2>2, <2>3, <2>4, <2>5, <2>6, <2>7 DEF TaskStep
<1>7. CASE CancelReturns
  <2>1. CancelVerdict(cpc) \in Dispositions
    BY DEF CancelVerdict, Dispositions
  <2>2. QED
    BY <1>7, <1>s, <2>1
    DEF CancelReturns, Tell, TypeOK, inner, record, worker, others
<1>8. CASE ExitBegins
  BY <1>8, <1>s DEF ExitBegins, TypeOK, Exits, worker, user
<1>9. CASE ExitSignals
  BY <1>9, <1>r
  DEF ExitSignals, Signal, TypeOK, SidecarTypeOK, Exits, inner, record, worker, others, user
<1>10. CASE ExitLeaves \/ Crash
  BY <1>10, <1>r
  DEF ExitLeaves, Crash, Gone, TypeOK, SidecarTypeOK, Exits, inner, record, worker, others, user
<1>11. CASE UNCHANGED vars
  BY <1>11, <1>s DEF vars, TypeOK, inner, record, worker, others, user
<1>12. QED
  BY <1>1, <1>2, <1>3, <1>4, <1>5, <1>6, <1>7, <1>8, <1>9, <1>10, <1>11
  DEF Next, ExitStep

\* Every variable of the supervisor, its worker and its sidecars stays in its
\* type, in every interleaving of their threads.
THEOREM TypeCorrect == Spec => []TypeOK
<1>1. TypeInv => TypeOK
  BY DEF TypeInv
<1>2. QED
  BY <1>1, TypeInit, TypeStep, PTL DEF Spec

-----------------------------------------------------------------------------
(* One reservation.  Stated of threads instead of sets of holders, the       *)
(* property is inductive.                                                    *)

Active(o) == lpc[o] \notin {"idle", "done"}
Busy(u)   == upc[u] # "idle"

Exclusive ==
  /\ \A o, q \in Logins : Active(o) /\ Active(q) => o = q
  /\ \A u, v \in Tasks : Busy(u) /\ Busy(v) => u = v
  /\ \A o \in Logins, u \in Tasks : ~(Active(o) /\ Busy(u))
  /\ \A o \in Logins : login = o <=> Active(o)
  /\ \A u \in Tasks : preflight = u <=> upc[u] \in {"pf_spawn", "pf_wait", "pf_done"}
  /\ mutation <=> \E u \in Tasks : upc[u] = "mutate"
  /\ users = IF \E u \in Tasks : upc[u] = "use" THEN 1 ELSE 0

LEMMA ExclusiveImplies == TypeOK /\ Exclusive => OneReservation
<1> SUFFICES ASSUME TypeOK, Exclusive PROVE OneReservation
    OBVIOUS
<1> DEFINE holders == {<<"login", o>> : o \in {q \in Logins : lpc[q] \notin {"idle", "done"}}}
                        \cup {<<"task", u>> : u \in {t \in Tasks : upc[t] # "idle"}}
<1>1. ASSUME NEW h \in holders, NEW k \in holders PROVE h = k
  BY <1>1 DEF Exclusive, Active, Busy
<1>2. QED
  BY <1>1 DEF OneReservation, Exclusive, Active

LEMMA FreeMeansIdle ==
  ASSUME TypeOK, Exclusive, Free
  PROVE  /\ \A o \in Logins : ~Active(o)
         /\ \A u \in Tasks : ~Busy(u)
<1>1. \A o \in Logins : ~Active(o)
  BY LoginsAreNumbers DEF Free, Exclusive
<1>2. ASSUME NEW u \in Tasks PROVE upc[u] = "idle"
  <2>1. upc[u] \in UPCs
    BY DEF TypeOK
  <2>2. upc[u] \notin {"pf_spawn", "pf_wait", "pf_done"}
    BY TasksAssumption DEF Free, Exclusive
  <2>3. upc[u] # "mutate" /\ upc[u] # "use"
    BY DEF Free, Exclusive
  <2>4. QED
    BY <2>1, <2>2, <2>3 DEF UPCs
<1>3. QED
  BY <1>1, <1>2 DEF Busy

LEMMA ExclusiveInit == Init => Exclusive
BY LoginsAreNumbers, TasksAssumption DEF Init, Exclusive, Active, Busy

\* A step that reserves and releases nothing.
LEMMA ExclusiveFrame ==
  ASSUME Exclusive, UNCHANGED <<login, preflight, mutation, users, upc>>,
         \A o \in Logins : Active(o)' <=> Active(o)
  PROVE  Exclusive'
BY DEF Exclusive, Busy

\* The worker of a login returns, and its reservation with it.
LEMMA ExclusiveReturns ==
  ASSUME TypeOK, Exclusive, NEW o \in Logins, Active(o), WorkerReturns(o),
         login' = NoLogin, UNCHANGED <<preflight, mutation, users, upc>>
  PROVE  Exclusive'
<1>1. \A q \in Logins : ~Active(q)'
  BY DEF Exclusive, WorkerReturns, LoginTo, TypeOK, Active
<1>2. QED
  BY <1>1, LoginsAreNumbers DEF Exclusive, Busy

\* Another task moves while it holds the only reservation, or gives it back.
LEMMA ExclusiveTask ==
  ASSUME TypeOK, Exclusive, NEW u \in Tasks, NEW l \in UPCs,
         Busy(u) \/ Free, TaskTo(u, l), UNCHANGED <<login, lpc>>,
         preflight' = IF l \in {"pf_spawn", "pf_wait", "pf_done"} THEN u ELSE None,
         mutation' = (l = "mutate"),
         users' = IF l = "use" THEN 1 ELSE 0
  PROVE  Exclusive'
<1>1. \A o \in Logins : ~Active(o)
  BY FreeMeansIdle DEF Exclusive
<1>2. \A v \in Tasks \ {u} : upc'[v] = "idle"
  BY FreeMeansIdle DEF Exclusive, Busy, TaskTo, TypeOK
<1>3. upc'[u] = l
  BY DEF TaskTo, TypeOK
<1>4. \A o \in Logins : ~Active(o)' /\ login' # o
  BY <1>1 DEF Active, Exclusive
<1>5. \A v \in Tasks : preflight' = v <=> upc'[v] \in {"pf_spawn", "pf_wait", "pf_done"}
  BY <1>2, <1>3, TasksAssumption
<1>6. (mutation' <=> \E v \in Tasks : upc'[v] = "mutate")
  BY <1>2, <1>3
<1>7. users' = IF \E v \in Tasks : upc'[v] = "use" THEN 1 ELSE 0
  BY <1>2, <1>3
<1>8. \A v, w \in Tasks : Busy(v)' /\ Busy(w)' => v = w
  BY <1>2 DEF Busy
<1>9. QED
  BY <1>4, <1>5, <1>6, <1>7, <1>8 DEF Exclusive

LEMMA ExclusiveStep == TypeOK /\ Exclusive /\ [Next]_vars => Exclusive'
<1> SUFFICES ASSUME TypeOK, Exclusive, [Next]_vars PROVE Exclusive'
    OBVIOUS
<1>l. ASSUME NEW o \in Logins, NEW l \in LPCs \ {"idle", "done"}, Active(o), LoginTo(o, l)
      PROVE  \A q \in Logins : Active(q)' <=> Active(q)
  BY <1>l DEF LoginTo, Active, TypeOK
<1>f. ASSUME UNCHANGED lpc PROVE \A q \in Logins : Active(q)' <=> Active(q)
  BY <1>f DEF Active
<1>1. ASSUME NEW o \in Logins, BeginLogin(o) PROVE Exclusive'
  <2>1. (\A q \in Logins : ~Active(q)) /\ (\A u \in Tasks : ~Busy(u))
    BY <1>1, FreeMeansIdle DEF BeginLogin
  <2>2. login' = o /\ (\A q \in Logins : Active(q)' <=> q = o)
    BY <1>1, <2>1 DEF BeginLogin, LoginTo, TypeOK, Active
  <2>3. UNCHANGED <<preflight, mutation, users, upc>>
    BY <1>1 DEF BeginLogin, others
  <2>4. QED
    BY <2>1, <2>2, <2>3 DEF Exclusive, Busy
<1>2. ASSUME NEW o \in Logins, StartStep(o) PROVE Exclusive'
  <2> USE DEF inner, others
  <2>1. CASE OpenReceipt(o)
    BY <1>l, <2>1, ExclusiveFrame DEF OpenReceipt, LPCs, Starting, Active
  <2>2. CASE SpawnSidecar(o)
    BY <1>l, <2>2, ExclusiveFrame DEF SpawnSidecar, LPCs, Starting, Active
  <2>3. CASE SetPid(o)
    BY <1>l, <2>3, ExclusiveFrame DEF SetPid, LPCs, Starting, Active
  <2>4. CASE BindIdentity(o)
    BY <1>l, <2>4, ExclusiveFrame DEF BindIdentity, LPCs, Starting, Active
  <2>5. CASE CheckpointStart(o)
    BY <1>l, <2>5, ExclusiveFrame DEF CheckpointStart, AfterReceipt, LPCs, Starting, Active
  <2>6. CASE AuthorizeLoginStart(o)
    BY <1>l, <2>6, ExclusiveFrame DEF AuthorizeLoginStart, LPCs, Starting, Active
  <2>7. CASE ReadStartAck(o)
    BY <1>l, <2>7, ExclusiveFrame DEF ReadStartAck, LPCs, Starting, Active
  <2>8. CASE StartFails(o)
    <3>1. Active(o) /\ login = o
      BY <2>8 DEF StartFails, Starting, Active, Exclusive
    <3>2. login' = NoLogin
      BY <2>8, <3>1 DEF StartFails, Abort, DropLogin
    <3>3. QED
      BY <2>8, <3>1, <3>2, ExclusiveReturns DEF StartFails
  <2>9. QED
    BY <1>2, <2>1, <2>2, <2>3, <2>4, <2>5, <2>6, <2>7, <2>8 DEF StartStep
<1>3. ASSUME NEW o \in Logins, WatchStep(o) PROVE Exclusive'
  <2> USE DEF inner, others, worker
  <2>1. CASE SendCancel(o)
    BY <1>f, <2>1, ExclusiveFrame DEF SendCancel
  <2>2. ASSUME NEW r, lpc[o] = "watch", Reaped(o, r) PROVE Exclusive'
    BY <1>l, <2>2, ExclusiveFrame DEF Reaped, LPCs, Active
  <2>3. CASE SendCancelFails(o) \/ ReapSidecar(o) \/ Watchdog(o)
    BY <2>2, <2>3 DEF SendCancelFails, ReapSidecar, Watchdog
  <2>4. CASE LoginDeadline(o)
    BY <1>f, <2>4, ExclusiveFrame DEF LoginDeadline
  <2>5. CASE ClearPid(o)
    BY <1>l, <2>5, ExclusiveFrame DEF ClearPid, LPCs, Active
  <2>6. CASE ReadEvent(o)
    BY <1>f, <2>6, ExclusiveFrame DEF ReadEvent
  <2>7. CASE FinishLogin(o)
    BY <2>7, ExclusiveReturns DEF FinishLogin, DropLogin, Active
  <2>8. QED
    BY <1>3, <2>1, <2>3, <2>4, <2>5, <2>6, <2>7 DEF WatchStep
<1>4. ASSUME NEW o \in Logins, Sidecar(o) \/ CancelAnswered(o) \/ CancelAsks(o)
      PROVE  Exclusive'
  BY <1>4, <1>f, ExclusiveFrame
  DEF Sidecar, CancelAnswered, CancelAsks, inner, worker, others
<1>5. ASSUME NEW u \in Tasks, BeginPreflight(u) \/ BeginMutation(u) \/ TaskStep(u)
      PROVE  Exclusive'
  <2> USE ExclusiveTask DEF UPCs, worker
  <2>u. UNCHANGED <<login, lpc>>
    BY <1>5 DEF BeginPreflight, BeginMutation, TaskStep, RegisterStatus,
                AwaitStatus, PromoteToProof, ReleaseProof, ReleaseMutation
  <2>b. ASSUME Busy(u)
        PROVE  /\ preflight = IF upc[u] \in {"pf_spawn", "pf_wait", "pf_done"} THEN u ELSE None
               /\ mutation = (upc[u] = "mutate")
               /\ users = IF upc[u] = "use" THEN 1 ELSE 0
    BY <2>b DEF Exclusive, Busy, TypeOK
  <2>r. ASSUME upc[u] \in {"pf_spawn", "pf_wait", "pf_done"}, ReleasePreflight(u),
               UNCHANGED <<mutation, users>>
        PROVE  Exclusive'
    BY <2>u, <2>b, <2>r DEF ReleasePreflight, Busy
  <2>1. CASE BeginPreflight(u)
    <3>1. preflight' = u /\ mutation' = FALSE /\ users' = 0 /\ TaskTo(u, "pf_spawn")
      BY <2>1 DEF BeginPreflight, Free, TypeOK
    <3>2. QED
      BY <2>u, <2>1, <3>1 DEF BeginPreflight
  <2>2. CASE BeginMutation(u)
    BY <2>u, <2>2 DEF BeginMutation, Free
  <2>3. CASE RegisterStatus(u)
    BY <2>u, <2>b, <2>r, <2>3 DEF RegisterStatus, Busy
  <2>4. CASE AwaitStatus(u)
    BY <2>u, <2>b, <2>r, <2>4 DEF AwaitStatus, Busy
  <2>5. CASE PromoteToProof(u)
    BY <2>u, <2>b, <2>r, <2>5 DEF PromoteToProof, Busy
  <2>6. CASE ReleaseProof(u)
    BY <2>u, <2>b, <2>6 DEF ReleaseProof, Busy
  <2>7. CASE ReleaseMutation(u)
    BY <2>u, <2>b, <2>7 DEF ReleaseMutation, Busy
  <2>8. QED
    BY <1>5, <2>1, <2>2, <2>3, <2>4, <2>5, <2>6, <2>7 DEF TaskStep
<1>6. CASE CancelReturns \/ ExitBegins \/ ExitStep \/ Crash \/ UNCHANGED vars
  BY <1>6, <1>f, ExclusiveFrame
  DEF CancelReturns, ExitBegins, ExitStep, ExitSignals, ExitLeaves, Crash, Gone,
      vars, inner, worker, others
<1>7. QED
  BY <1>1, <1>2, <1>3, <1>4, <1>5, <1>6 DEF Next

LEMMA Reserved == Spec => [](TypeInv /\ Exclusive)
<1>1. TypeInv => TypeOK
  BY DEF TypeInv
<1>2. QED
  BY <1>1, TypeInit, TypeStep, ExclusiveInit, ExclusiveStep, PTL DEF Spec

\* No begin, drop, promotion or late finish ever makes two reservations exist,
\* or takes the reservation of one thread away in the name of another.
THEOREM ReservationIsUnique == Spec => []OneReservation
<1>1. TypeInv => TypeOK
  BY DEF TypeInv
<1>2. QED
  BY <1>1, Reserved, ExclusiveImplies, PTL

-----------------------------------------------------------------------------
(* No stray sidecar: a process that nobody has waited for still has its      *)
(* worker, between its spawn and the end of its watch.                       *)

Attended == {"register", "bind", "inert", "prepare", "authorize", "ack", "acked", "watch"}
ChildInv == \A o \in Logins : Alive(o) \/ Zombie(o) => lpc[o] \in Attended

\* A step that moves no worker out of its child's life and starts no process.
LEMMA ChildFrame ==
  ASSUME ChildInv, UNCHANGED lpc,
         \A o \in Logins : (Alive(o) \/ Zombie(o))' => Alive(o) \/ Zombie(o)
  PROVE  ChildInv'
BY DEF ChildInv

LEMMA ChildWorker ==
  ASSUME TypeOK, ChildInv, NEW o \in Logins, NEW l \in LPCs, LoginTo(o, l),
         \A q \in Logins \ {o} : proc'[q] = proc[q],
         (Alive(o) \/ Zombie(o))' => l \in Attended
  PROVE  ChildInv'
BY DEF ChildInv, LoginTo, TypeOK, Alive, Zombie

LEMMA ChildInit == Init => ChildInv
BY DEF Init, SidecarInit, ChildInv, Alive, Zombie

LEMMA ChildStep == TypeOK /\ ChildInv /\ [Next]_vars => ChildInv'
<1> SUFFICES ASSUME TypeOK, ChildInv, [Next]_vars PROVE ChildInv'
    OBVIOUS
<1>p. ASSUME UNCHANGED proc
      PROVE  \A q \in Logins : (Alive(q) \/ Zombie(q))' => Alive(q) \/ Zombie(q)
  BY <1>p DEF Alive, Zombie
<1>w. ASSUME NEW o \in Logins, Wait(o)
      PROVE  /\ \A q \in Logins \ {o} : proc'[q] = proc[q]
             /\ ~(Alive(o) \/ Zombie(o))'
  BY <1>w DEF Wait, TypeOK, SidecarTypeOK, Alive, Zombie
<1>m. ASSUME NEW o \in Logins, NEW l \in LPCs, LoginTo(o, l), UNCHANGED proc,
             lpc[o] \in Attended => l \in Attended
      PROVE  ChildInv'
  BY <1>m, ChildWorker DEF ChildInv, Alive, Zombie
<1>1. ASSUME NEW o \in Logins, BeginLogin(o) PROVE ChildInv'
  BY <1>1, <1>m DEF BeginLogin, Attended, LPCs, Starting, sidecar
<1>2. ASSUME NEW o \in Logins, StartStep(o) PROVE ChildInv'
  <2> USE DEF Attended, LPCs, Starting, sidecar
  <2>1. CASE OpenReceipt(o)
    BY <1>m, <2>1 DEF OpenReceipt
  <2>2. CASE SpawnSidecar(o)
    BY <2>2, ChildWorker DEF SpawnSidecar, TypeOK, SidecarTypeOK
  <2>3. CASE SetPid(o)
    BY <1>m, <2>3 DEF SetPid
  <2>4. CASE BindIdentity(o)
    BY <1>m, <2>4 DEF BindIdentity
  <2>5. CASE CheckpointStart(o)
    BY <1>m, <2>5 DEF CheckpointStart, AfterReceipt
  <2>6. CASE AuthorizeLoginStart(o)
    BY <1>m, <2>6 DEF AuthorizeLoginStart
  <2>7. CASE ReadStartAck(o)
    BY <1>m, <2>7 DEF ReadStartAck
  <2>8. CASE StartFails(o)
    <3>1. /\ \A q \in Logins \ {o} : proc'[q] = proc[q]
          /\ ~(Alive(o) \/ Zombie(o))'
      BY <1>w, <2>8 DEF StartFails, StopChild, Alive, Zombie
    <3>2. QED
      BY <2>8, <3>1, ChildWorker DEF StartFails, WorkerReturns
  <2>9. QED
    BY <1>2, <2>1, <2>2, <2>3, <2>4, <2>5, <2>6, <2>7, <2>8 DEF StartStep
<1>3. ASSUME NEW o \in Logins, WatchStep(o) PROVE ChildInv'
  <2> USE DEF worker, sidecar
  <2>1. CASE SendCancel(o)
    BY <1>p, <2>1, ChildFrame DEF SendCancel
  <2>2. ASSUME NEW r, Reaped(o, r) PROVE ChildInv'
    BY <1>w, <2>2, ChildWorker DEF Reaped, LPCs
  <2>3. CASE SendCancelFails(o) \/ ReapSidecar(o) \/ Watchdog(o)
    BY <2>2, <2>3 DEF SendCancelFails, ReapSidecar, Watchdog
  <2>4. CASE LoginDeadline(o)
    BY <1>p, <2>4, ChildFrame DEF LoginDeadline
  <2>5. CASE ClearPid(o)
    BY <1>m, <2>5 DEF ClearPid, Attended, LPCs
  <2>6. CASE ReadEvent(o)
    BY <1>p, <2>6, ChildFrame DEF ReadEvent
  <2>7. CASE FinishLogin(o)
    BY <1>m, <2>7 DEF FinishLogin, WorkerReturns, Attended, LPCs
  <2>8. QED
    BY <1>3, <2>1, <2>3, <2>4, <2>5, <2>6, <2>7 DEF WatchStep
<1>4. ASSUME NEW o \in Logins, Sidecar(o) PROVE ChildInv'
  <2>1. \A q \in Logins : (Alive(q) \/ Zombie(q))' => Alive(q) \/ Zombie(q)
    BY <1>4
    DEF Sidecar, SidecarStep, ReaderStep, MainStep, FlowStep, ReadStart,
        AuthorizeStart, ReadCancel, WriteCancelAck, ReadEof, LeaveInert,
        FlowCancelled, AnnounceCommit, StoreCredentials, FinishControl,
        WriteTerminal, Exit, Advance, FlowFails, BeginCommit, Die,
        TypeOK, SidecarTypeOK, Alive, Zombie
  <2>2. QED
    BY <1>4, <2>1, ChildFrame DEF Sidecar, worker
<1>5. ASSUME NEW o \in Logins, CancelAnswered(o) \/ CancelAsks(o) PROVE ChildInv'
  BY <1>5, <1>p, ChildFrame DEF CancelAnswered, CancelAsks, worker, sidecar
<1>6. ASSUME NEW u \in Tasks, BeginPreflight(u) \/ BeginMutation(u) \/ TaskStep(u)
      PROVE  ChildInv'
  BY <1>6, <1>p, ChildFrame
  DEF BeginPreflight, BeginMutation, TaskStep, RegisterStatus, AwaitStatus,
      PromoteToProof, ReleaseProof, ReleaseMutation, worker, sidecar
<1>7. CASE CancelReturns \/ ExitBegins \/ UNCHANGED vars
  BY <1>7, <1>p, ChildFrame DEF CancelReturns, ExitBegins, vars, worker, sidecar
<1>8. CASE ExitStep \/ Crash
  <2>1. \A q \in Logins : (Alive(q) \/ Zombie(q))' => Alive(q) \/ Zombie(q)
    BY <1>8
    DEF ExitStep, ExitSignals, Signal, ExitLeaves, Crash, Gone, TypeOK,
        SidecarTypeOK, Alive, Zombie
  <2>2. QED
    BY <1>8, <2>1, ChildFrame
    DEF ExitStep, ExitSignals, ExitLeaves, Crash, Gone, worker
<1>9. QED
  BY <1>1, <1>2, <1>3, <1>4, <1>5, <1>6, <1>7, <1>8 DEF Next

\* While the Desktop lives, no sidecar outlives the reservation of its login,
\* whichever step of the start or the watch failed.
THEOREM NoSidecarStrays == Spec => []NoStraySidecar
<1>1. Exclusive /\ ChildInv => NoStraySidecar
  BY DEF Exclusive, ChildInv, NoStraySidecar, Active, Attended
<1>2. TypeInv => TypeOK
  BY DEF TypeInv
<1>3. QED
  BY <1>1, <1>2, Reserved, ChildInit, ChildStep, PTL DEF Spec

-----------------------------------------------------------------------------
(* Every word about a login is true.  An answer, an event, a result or a     *)
(* snapshot state says something of the barrier and of the disk; what it     *)
(* says was true when it was written and stays true however long it travels. *)

NoCommit(o)    == ctl[o] \in {"cancelled", "finished"} /\ o \notin stored
PastBarrier(o) == ctl[o] \in {"committing", "finished"}

TrueOf(o, w) ==
  /\ w \in {"accepted", "cancelled"} => NoCommit(o)
  /\ w \in {"committing", "commit_in_progress"} => PastBarrier(o)
  /\ w = "succeeded" => o \in stored

BarrierInv == \A o \in Logins :
  /\ stage[o] \in {"commit", "store"} => ctl[o] = "committing"
  /\ o \in stored => PastBarrier(o)

ChildWords == \A o \in Logins :
  /\ TrueOf(o, ack[o]) /\ TrueOf(o, res[o])
  /\ \A i \in 1..Len(output[o]) : TrueOf(o, output[o][i].val)

WorkerWords == \A o \in Logins :
  /\ TrueOf(o, term[o]) /\ TrueOf(o, outcome[o])
  /\ acked[o] => NoCommit(o)

RecordWords == \A o \in Logins : TrueOf(o, disp[o]) /\ TrueOf(o, snap[o])

LastWord == \/ last = NoSnapshot
            \/ last.id \in Logins /\ TrueOf(last.id, last.state)

ToldWord == told.answer = "commit_in_progress" => told.id \in Logins /\ PastBarrier(told.id)

WordInv == BarrierInv /\ ChildWords /\ WorkerWords /\ RecordWords /\ LastWord /\ ToldWord

\* What a step does to the facts that words are about.
Steady == \A o \in Logins : /\ NoCommit(o) => NoCommit(o)'
                            /\ PastBarrier(o) => PastBarrier(o)'
                            /\ o \in stored => o \in stored'

LEMMA WordInit == Init => WordInv
BY DEF Init, SidecarInit, WordInv, BarrierInv, ChildWords, WorkerWords, RecordWords,
       LastWord, ToldWord, NoSnapshot, NoAnswer, TrueOf

\* An emitted line is the only new one.
LEMMA EmitWords ==
  ASSUME NEW o \in Logins, NEW e \in Events, Emit(o, e),
         output \in [Logins -> Seq(Events)],
         NEW q \in Logins, NEW i \in 1..Len(output'[q])
  PROVE  \/ i \in 1..Len(output[q]) /\ output'[q][i] = output[q][i]
         \/ q = o /\ output'[q][i] = e
<1>1. CASE output' = output \/ q # o
  BY <1>1 DEF Emit
<1>2. CASE output' # output /\ q = o
  <2>1. output'[q] = Append(output[q], e) /\ output[q] \in Seq(Events)
    BY <1>2 DEF Emit
  <2>2. QED
    BY <1>2, <2>1
<1>3. QED
  BY <1>1, <1>2

LEMMA TailWords ==
  ASSUME NEW o \in Logins, output[o] # <<>>,
         output \in [Logins -> Seq(Events)],
         output' = [output EXCEPT ![o] = Tail(@)],
         NEW q \in Logins, NEW i \in 1..Len(output'[q])
  PROVE  \E j \in 1..Len(output[q]) : output'[q][i] = output[q][j]
<1>1. CASE q # o
  BY <1>1
<1>2. CASE q = o
  <2>1. output'[q] = Tail(output[q]) /\ output[q] \in Seq(Events)
    BY <1>2
  <2>2. i + 1 \in 1..Len(output[q]) /\ output'[q][i] = output[q][i + 1]
    BY <1>2, <2>1
  <2>3. QED
    BY <2>2
<1>3. QED
  BY <1>1, <1>2

LEMMA HeadWord ==
  ASSUME NEW o \in Logins, output \in [Logins -> Seq(Events)], output[o] # <<>>
  PROVE  1 \in 1..Len(output[o]) /\ Head(output[o]) = output[o][1]
<1>1. output[o] \in Seq(Events)
  OBVIOUS
<1>2. QED
  BY <1>1

\* Frames: words that nobody touches stay true in a steady step.
LEMMA ChildWordsFrame ==
  ASSUME Steady, ChildWords, UNCHANGED <<ack, res, output>> PROVE ChildWords'
BY DEF Steady, ChildWords, TrueOf

LEMMA WorkerWordsFrame ==
  ASSUME Steady, WorkerWords, UNCHANGED <<term, outcome, acked>> PROVE WorkerWords'
BY DEF Steady, WorkerWords, TrueOf

LEMMA RecordWordsFrame ==
  ASSUME Steady, RecordWords, UNCHANGED <<disp, snap>> PROVE RecordWords'
BY DEF Steady, RecordWords, TrueOf

LEMMA LastWordFrame ==
  ASSUME Steady, LastWord, UNCHANGED last PROVE LastWord'
BY DEF Steady, LastWord, TrueOf, NoSnapshot

LEMMA ToldWordFrame ==
  ASSUME Steady, ToldWord, UNCHANGED told PROVE ToldWord'
BY DEF Steady, ToldWord

\* Outside the sidecar nobody moves the barrier or the disk.
LEMMA OutsideIsSteady ==
  ASSUME BarrierInv, UNCHANGED <<ctl, stored>>,
         \A q \in Logins : stage'[q] = stage[q] \/ stage'[q] = "exit"
  PROVE  BarrierInv' /\ Steady
BY DEF BarrierInv, Steady, NoCommit, PastBarrier

\* The sidecar's own steps: the compare-and-exchange of a cancel and of a
\* commit exclude each other, and neither is ever undone.
LEMMA SidecarIsSteady ==
  ASSUME NEW o \in Logins, TypeOK, BarrierInv, SidecarStep(o)
  PROVE  BarrierInv' /\ Steady
<1> USE DEF TypeOK, SidecarTypeOK, BarrierInv, Steady, NoCommit, PastBarrier,
            StageTo, CancelControl
<1>1. CASE ReadStart(o)
  BY <1>1 DEF ReadStart
<1>2. CASE AuthorizeStart(o)
  BY <1>2 DEF AuthorizeStart
<1>3. CASE ReadCancel(o)
  BY <1>3 DEF ReadCancel
<1>4. CASE WriteCancelAck(o)
  BY <1>4 DEF WriteCancelAck
<1>5. CASE ReadEof(o)
  <2>1. CancelControl(o) /\ UNCHANGED <<stage, stored>>
    BY <1>5 DEF ReadEof
  <2>2. QED
    BY <2>1
<1>6. CASE LeaveInert(o)
  BY <1>6 DEF LeaveInert
<1>7. CASE FlowCancelled(o)
  BY <1>7 DEF FlowCancelled
<1>8. CASE AnnounceCommit(o)
  BY <1>8 DEF AnnounceCommit
<1>9. CASE StoreCredentials(o)
  <2>1. stage[o] = "store" /\ ctl[o] = "committing" /\ UNCHANGED ctl
    BY <1>9 DEF StoreCredentials
  <2>2. stored' = stored \/ stored' = stored \cup {o}
    BY <1>9 DEF StoreCredentials
  <2>3. \A q \in Logins : stage'[q] \in {"commit", "store"} => stage[q] = stage'[q]
    BY <1>9 DEF StoreCredentials
  <2>4. QED
    BY <2>1, <2>2, <2>3
<1>10. CASE FinishControl(o)
  BY <1>10 DEF FinishControl
<1>11. CASE WriteTerminal(o)
  BY <1>11 DEF WriteTerminal
<1>12. CASE Exit(o)
  BY <1>12 DEF Exit
<1>13. CASE Advance(o)
  BY <1>13 DEF Advance
<1>14. CASE FlowFails(o)
  BY <1>14 DEF FlowFails, Flow
<1>15. CASE BeginCommit(o)
  BY <1>15 DEF BeginCommit
<1>16. CASE Die(o)
  BY <1>16 DEF Die
<1>17. QED
  BY <1>1, <1>2, <1>3, <1>4, <1>5, <1>6, <1>7, <1>8, <1>9, <1>10, <1>11, <1>12,
     <1>13, <1>14, <1>15, <1>16
  DEF SidecarStep, ReaderStep, MainStep, FlowStep

\* What the sidecar writes, on its pipe or for itself, is true.
LEMMA SidecarWords ==
  ASSUME NEW o \in Logins, TypeInv, BarrierInv, ChildWords, SidecarStep(o)
  PROVE  ChildWords'
<1>s. Steady
  BY SidecarIsSteady DEF TypeInv
<1>e. ASSUME NEW e \in Events, Emit(o, e), res' = res,
             \A q \in Logins : TrueOf(q, ack[q])',
             /\ e.val \in {"accepted", "cancelled"} => NoCommit(o)'
             /\ e.val \in {"committing", "commit_in_progress"} => PastBarrier(o)'
             /\ e.val = "succeeded" => o \in stored'
      PROVE  ChildWords'
  <2>0. Emit(o, e) /\ output \in [Logins -> Seq(Events)]
    BY <1>e DEF TypeInv, TypeOK, SidecarTypeOK
  <2>1. ASSUME NEW q \in Logins, NEW i \in 1..Len(output'[q])
        PROVE  TrueOf(q, output[q][i].val)'
    <3>1. \/ i \in 1..Len(output[q]) /\ output'[q][i] = output[q][i]
          \/ q = o /\ output'[q][i] = e
      BY <2>0, EmitWords
    <3>2. CASE i \in 1..Len(output[q]) /\ output'[q][i] = output[q][i]
      <4> DEFINE w == output[q][i].val
      <4>1. TrueOf(q, w) /\ w' = w
        BY <3>2 DEF ChildWords
      <4> HIDE DEF w
      <4>2. TrueOf(q, w)'
        BY <1>s, <4>1 DEF TrueOf, Steady
      <4>3. QED
        BY <4>2 DEF w
    <3>3. CASE q = o /\ output'[q][i] = e
      BY <1>e, <3>3 DEF TrueOf
    <3>4. QED
      BY <3>1, <3>2, <3>3
  <2>2. QED
    BY <1>e, <1>s, <2>1 DEF ChildWords, TrueOf, Steady
<1>a. ASSUME UNCHANGED ack PROVE \A q \in Logins : TrueOf(q, ack[q])'
  BY <1>s, <1>a DEF ChildWords, TrueOf, Steady
<1>r. ASSUME NEW r, EndsAs(o, r), UNCHANGED <<ack, output>>,
             /\ r \in {"accepted", "cancelled"} => NoCommit(o)'
             /\ r \in {"committing", "commit_in_progress"} => PastBarrier(o)'
             /\ r = "succeeded" => o \in stored'
      PROVE  ChildWords'
  <2>1. \A q \in Logins : res'[q] = IF q = o THEN r ELSE res[q]
    BY <1>r DEF EndsAs, TypeInv, TypeOK, SidecarTypeOK
  <2>2. QED
    BY <1>s, <1>r, <2>1 DEF ChildWords, TrueOf, Steady
<1> USE DEF TypeInv, TypeOK, SidecarTypeOK
<1>1. CASE ReadStart(o)
  <2>1. CASE peer[o] = "gone"
    BY <1>1, <1>s, <2>1, ChildWordsFrame DEF ReadStart
  <2>2. CASE peer[o] # "gone"
    <3>1. Emit(o, Event("start_ack", "start")) /\ UNCHANGED <<res, ack>>
      BY <1>1, <2>2 DEF ReadStart
    <3>2. QED
      BY <1>a, <1>e, <3>1, EventTypes DEF Event
  <2>3. QED
    BY <2>1, <2>2
<1>2. CASE AuthorizeStart(o)
  BY <1>2, <1>s, ChildWordsFrame DEF AuthorizeStart
<1>3. CASE ReadCancel(o)
  <2>1. /\ ack'[o] \in {"accepted", "cancelled"} => NoCommit(o)'
        /\ ack'[o] \in {"committing", "commit_in_progress"} => PastBarrier(o)'
        /\ ack'[o] # "succeeded"
    BY <1>3
    DEF ReadCancel, CancelAnswer, CancelControl, NoCommit, PastBarrier, BarrierInv
  <2>2. QED
    BY <1>3, <1>s, <2>1 DEF ReadCancel, ChildWords, TrueOf, Steady
<1>4. CASE WriteCancelAck(o)
  <2>1. ack[o] \in Dispositions /\ TrueOf(o, ack[o])
    BY <1>4 DEF WriteCancelAck, ChildWords
  <2>2. \A q \in Logins : TrueOf(q, ack[q])'
    BY <1>4, <1>s DEF WriteCancelAck, ChildWords, TrueOf, Steady
  <2>3. QED
    BY <1>4, <1>s, <1>e, <2>1, <2>2, EventTypes DEF WriteCancelAck, Event, TrueOf, Steady
<1>5. CASE ReadEof(o)
  BY <1>5, <1>s, ChildWordsFrame DEF ReadEof
<1>6. CASE LeaveInert(o)
  <2>1. CASE ctl[o] = "cancelled"
    BY <1>6, <1>r, <2>1 DEF LeaveInert, NoCommit, PastBarrier, BarrierInv
  <2>2. CASE ctl[o] # "cancelled"
    BY <1>6, <1>s, <2>2, ChildWordsFrame DEF LeaveInert
  <2>3. QED
    BY <2>1, <2>2
<1>7. CASE FlowCancelled(o)
  BY <1>7, <1>r DEF FlowCancelled, NoCommit, PastBarrier, BarrierInv
<1>8. CASE AnnounceCommit(o)
  BY <1>8, <1>a, <1>e, EventTypes DEF AnnounceCommit, Event, PastBarrier, BarrierInv
<1>9. CASE StoreCredentials(o)
  BY <1>9, <1>r DEF StoreCredentials
<1>10. CASE FinishControl(o)
  BY <1>10, <1>s, ChildWordsFrame DEF FinishControl
<1>11. CASE WriteTerminal(o)
  <2>1. res[o] \in Results /\ TrueOf(o, res[o])
    BY <1>11 DEF WriteTerminal, ResultKnown, ChildWords
  <2>2. QED
    BY <1>11, <1>s, <1>a, <1>e, <2>1, EventTypes
    DEF WriteTerminal, Event, TrueOf, Steady
<1>12. CASE Exit(o)
  BY <1>12, <1>s, ChildWordsFrame DEF Exit
<1>13. CASE Advance(o)
  BY <1>13, <1>a, <1>e, EventTypes DEF Advance, Event
<1>14. CASE FlowFails(o)
  BY <1>14, <1>r DEF FlowFails
<1>15. CASE BeginCommit(o)
  BY <1>15, <1>s, ChildWordsFrame DEF BeginCommit
<1>16. CASE Die(o)
  BY <1>16, <1>s, ChildWordsFrame DEF Die
<1>17. QED
  BY <1>1, <1>2, <1>3, <1>4, <1>5, <1>6, <1>7, <1>8, <1>9, <1>10, <1>11, <1>12,
     <1>13, <1>14, <1>15, <1>16
  DEF SidecarStep, ReaderStep, MainStep, FlowStep

\* The words the supervisor, its worker and the user hold about a login.
HeldWords == WorkerWords /\ RecordWords /\ LastWord /\ ToldWord

LEMMA WaitWords ==
  ASSUME NEW o \in Logins, TypeOK, BarrierInv, ChildWords, Wait(o)
  PROVE  BarrierInv' /\ Steady /\ ChildWords'
<1>1. BarrierInv' /\ Steady
  BY OutsideIsSteady DEF Wait, TypeOK, SidecarTypeOK
<1>2. /\ \A q \in Logins : output'[q] = output[q] \/ output'[q] = <<>>
      /\ \A q \in Logins : ack'[q] = ack[q] \/ ack'[q] = "none"
      /\ \A q \in Logins : res'[q] = res[q] \/ res'[q] = "none"
  BY DEF Wait, TypeOK, SidecarTypeOK
<1>3. \A q \in Logins : TrueOf(q, ack[q])' /\ TrueOf(q, res[q])'
  BY <1>1, <1>2 DEF ChildWords, TrueOf, Steady
<1>4. ASSUME NEW q \in Logins, NEW i \in 1..Len(output'[q])
      PROVE  TrueOf(q, output[q][i].val)'
  <2>1. output'[q] = output[q]
    BY <1>2, <1>4
  <2>2. QED
    BY <1>1, <1>4, <2>1 DEF ChildWords, TrueOf, Steady
<1>5. QED
  BY <1>1, <1>3, <1>4 DEF ChildWords

LEMMA ReadWords ==
  ASSUME NEW o \in Logins, TypeOK, Steady, ChildWords, output[o] # <<>>,
         output' = [output EXCEPT ![o] = Tail(@)], UNCHANGED <<ack, res>>
  PROVE  ChildWords' /\ TrueOf(o, Head(output[o]).val)
<1>0. output \in [Logins -> Seq(Events)]
  BY DEF TypeOK, SidecarTypeOK
<1>1. TrueOf(o, Head(output[o]).val)
  BY <1>0, HeadWord DEF ChildWords
<1>2. ASSUME NEW q \in Logins, NEW i \in 1..Len(output'[q])
      PROVE  TrueOf(q, output[q][i].val)'
  <2>1. PICK j \in 1..Len(output[q]) : output'[q][i] = output[q][j]
    BY <1>0, TailWords
  <2>2. TrueOf(q, output[q][j].val)
    BY DEF ChildWords
  <2>3. QED
    BY <2>1, <2>2 DEF TrueOf, Steady
<1>3. QED
  BY <1>1, <1>2 DEF ChildWords, TrueOf, Steady

\* One word in a steady step: kept, or replaced by one that says nothing.
LEMMA KeptWord ==
  ASSUME Steady, NEW q \in Logins, NEW v, NEW w, TrueOf(q, v),
         w = v \/ w \in {"none", "starting"}
  PROVE  /\ w \in {"accepted", "cancelled"} => NoCommit(q)'
         /\ w \in {"committing", "commit_in_progress"} => PastBarrier(q)'
         /\ w = "succeeded" => q \in stored'
<1>1. CASE w = v
  BY <1>1 DEF Steady, TrueOf
<1>2. CASE w \in {"none", "starting"}
  BY <1>2
<1>3. QED
  BY <1>1, <1>2

LEMMA DropWords ==
  ASSUME TypeOK, Steady, RecordWords, DropLogin \/ UNCHANGED <<disp, snap>>
  PROVE  RecordWords'
<1>1. ASSUME NEW q \in Logins
      PROVE  /\ disp'[q] = disp[q] \/ disp'[q] \in {"none", "starting"}
             /\ snap'[q] = snap[q] \/ snap'[q] \in {"none", "starting"}
  <2>1. CASE DropLogin
    <3>1. /\ disp'[q] = IF q = login THEN "none" ELSE disp[q]
          /\ snap'[q] = IF q = login THEN "starting" ELSE snap[q]
      BY <2>1 DEF DropLogin
    <3>2. QED
      BY <3>1
  <2>2. CASE UNCHANGED <<disp, snap>>
    BY <2>2
  <2>3. QED
    BY <2>1, <2>2
<1>2. ASSUME NEW q \in Logins PROVE TrueOf(q, disp[q])' /\ TrueOf(q, snap[q])'
  <2>1. TrueOf(q, disp[q]) /\ TrueOf(q, snap[q])
    BY DEF RecordWords
  <2>2. TrueOf(q, disp[q])'
    BY <1>1, <2>1, KeptWord DEF TrueOf
  <2>3. TrueOf(q, snap[q])'
    BY <1>1, <2>1, KeptWord DEF TrueOf
  <2>4. QED
    BY <2>2, <2>3
<1>3. QED
  BY <1>2 DEF RecordWords

LEMMA ReturnWords ==
  ASSUME NEW o \in Logins, TypeOK, Steady, WorkerWords, WorkerReturns(o)
  PROVE  WorkerWords'
<1>1. ASSUME NEW q \in Logins
      PROVE  /\ term'[q] = term[q] \/ term'[q] \in {"none", "starting"}
             /\ outcome'[q] = outcome[q] \/ outcome'[q] \in {"none", "starting"}
  BY DEF WorkerReturns, TypeOK
<1>2. ASSUME NEW q \in Logins, acked'[q] PROVE acked[q]
  BY <1>2 DEF WorkerReturns, TypeOK
<1>3. ASSUME NEW q \in Logins
      PROVE  TrueOf(q, term[q])' /\ TrueOf(q, outcome[q])'
  <2>1. TrueOf(q, term[q]) /\ TrueOf(q, outcome[q])
    BY DEF WorkerWords
  <2>2. TrueOf(q, term[q])'
    BY <1>1, <2>1, KeptWord DEF TrueOf
  <2>3. TrueOf(q, outcome[q])'
    BY <1>1, <2>1, KeptWord DEF TrueOf
  <2>4. QED
    BY <2>2, <2>3
<1>4. ASSUME NEW q \in Logins, acked'[q] PROVE NoCommit(q)'
  BY <1>2, <1>4 DEF WorkerWords, Steady
<1>5. QED
  BY <1>3, <1>4 DEF WorkerWords

LEMMA WordStep == TypeInv /\ WordInv /\ [Next]_vars => WordInv'
<1> SUFFICES ASSUME TypeInv, WordInv, [Next]_vars PROVE WordInv'
    OBVIOUS
<1>i. /\ BarrierInv /\ ChildWords /\ WorkerWords
      /\ RecordWords /\ LastWord /\ ToldWord
  BY DEF WordInv
<1>t. TypeOK
  BY DEF TypeInv
<1>f. ASSUME UNCHANGED <<ctl, stored, stage>> PROVE BarrierInv' /\ Steady
  BY <1>i, <1>f, OutsideIsSteady
<1>c. ASSUME UNCHANGED <<ctl, stored, stage, ack, res, output>>
      PROVE  BarrierInv' /\ Steady /\ ChildWords'
  BY <1>i, <1>f, <1>c, ChildWordsFrame
<1>h. ASSUME Steady, UNCHANGED <<disp, snap, last, told>>
      PROVE  RecordWords' /\ LastWord' /\ ToldWord'
  BY <1>i, <1>h, RecordWordsFrame, LastWordFrame, ToldWordFrame
<1>w. ASSUME Steady, UNCHANGED <<term, outcome, acked>> PROVE WorkerWords'
  BY <1>i, <1>w, WorkerWordsFrame
<1>n. ASSUME Steady, last' = NoSnapshot \/ UNCHANGED last PROVE LastWord'
  BY <1>i, <1>n, LastWordFrame DEF LastWord
<1> USE DEF sidecar, inner, record, worker, others, user
<1>1. ASSUME NEW o \in Logins, BeginLogin(o) PROVE WordInv'
  <2>1. BarrierInv' /\ Steady /\ ChildWords'
    BY <1>1, <1>c DEF BeginLogin
  <2>2. RecordWords' /\ WorkerWords'
    BY <1>1, <1>i, <1>w, <2>1, RecordWordsFrame DEF BeginLogin
  <2>3. LastWord' /\ ToldWord'
    BY <1>1 DEF BeginLogin, LastWord, ToldWord, TrueOf, NoAnswer
  <2>4. QED
    BY <2>1, <2>2, <2>3 DEF WordInv
<1>2. ASSUME NEW o \in Logins, StartStep(o) PROVE WordInv'
  <2>1. CASE OpenReceipt(o) \/ SpawnSidecar(o) \/ SetPid(o) \/ BindIdentity(o)
               \/ CheckpointStart(o) \/ AuthorizeLoginStart(o)
    <3>1. UNCHANGED <<ctl, stored, stage, ack, res, output, disp, snap, last, told,
                      term, outcome, acked>>
      BY <2>1 DEF OpenReceipt, SpawnSidecar, SetPid, BindIdentity, CheckpointStart,
                  AuthorizeLoginStart
    <3>2. QED
      BY <1>c, <1>h, <1>w, <3>1 DEF WordInv
  <2>2. CASE ReadStartAck(o)
    <3>1. UNCHANGED <<ctl, stored, stage, ack, res, disp, snap, last, told,
                      term, outcome, acked>>
      BY <2>2 DEF ReadStartAck
    <3>2. ChildWords'
      BY <1>i, <1>t, <1>f, <2>2, <3>1, ReadWords DEF ReadStartAck, HasEvent
    <3>3. QED
      BY <1>f, <1>h, <1>w, <3>1, <3>2 DEF WordInv
  <2>3. CASE StartFails(o)
    <3>1. BarrierInv' /\ Steady /\ ChildWords'
      BY <1>i, <1>t, <1>c, <2>3, WaitWords DEF StartFails, StopChild
    <3>2. WorkerWords'
      BY <1>i, <1>t, <2>3, <3>1, ReturnWords DEF StartFails
    <3>3. RecordWords'
      BY <1>i, <1>t, <2>3, <3>1, DropWords DEF StartFails, Abort
    <3>4. LastWord'
      BY <1>n, <2>3, <3>1 DEF StartFails, Abort
    <3>5. ToldWord'
      BY <1>i, <2>3, <3>1, ToldWordFrame DEF StartFails
    <3>6. QED
      BY <3>1, <3>2, <3>3, <3>4, <3>5 DEF WordInv
  <2>4. QED
    BY <1>2, <2>1, <2>2, <2>3 DEF StartStep
<1>3. ASSUME NEW o \in Logins, WatchStep(o) PROVE WordInv'
  <2>1. CASE SendCancel(o) \/ LoginDeadline(o) \/ ClearPid(o)
    <3>1. UNCHANGED <<ctl, stored, stage, ack, res, output, disp, snap, last, told,
                      term, outcome, acked>>
      BY <2>1 DEF SendCancel, LoginDeadline, ClearPid
    <3>2. QED
      BY <1>c, <1>h, <1>w, <3>1 DEF WordInv
  <2>2. ASSUME NEW r, Reaped(o, r), TrueOf(o, r) PROVE WordInv'
    <3>1. BarrierInv' /\ Steady /\ ChildWords'
      BY <1>i, <1>t, <2>2, WaitWords DEF Reaped
    <3>2. /\ UNCHANGED <<disp, snap, last, told, term, acked>>
          /\ \A q \in Logins : outcome'[q] = IF q = o THEN r ELSE outcome[q]
      BY <1>t, <2>2 DEF Reaped, TypeOK
    <3>3. WorkerWords'
      BY <1>i, <2>2, <3>1, <3>2 DEF WorkerWords, TrueOf, Steady
    <3>4. QED
      BY <1>h, <3>1, <3>2, <3>3 DEF WordInv
  <2>3. CASE SendCancelFails(o)
    BY <2>2, <2>3 DEF SendCancelFails, TrueOf
  <2>4. CASE ReapSidecar(o)
    <3> DEFINE r == IF proc[o] = "exited" /\ term[o] # "none" THEN term[o] ELSE "error"
    <3>1. TrueOf(o, r)
      BY <1>i DEF WorkerWords, TrueOf
    <3>2. QED
      BY <2>2, <2>4, <3>1 DEF ReapSidecar
  <2>5. CASE Watchdog(o)
    <3>1. TrueOf(o, "cancelled")
      BY <1>i, <2>5 DEF Watchdog, WorkerWords, TrueOf
    <3>2. QED
      BY <2>2, <2>5, <3>1 DEF Watchdog
  <2>6. CASE ReadEvent(o)
    <3> DEFINE e == Head(output[o])
    <3>1. BarrierInv' /\ Steady
      BY <1>f, <2>6 DEF ReadEvent
    <3>2. ChildWords' /\ TrueOf(o, e.val)
      BY <1>i, <1>t, <2>6, <3>1, ReadWords DEF ReadEvent
    <3>3. WorkerWords'
      <4>1. ASSUME NEW q \in Logins PROVE outcome'[q] = outcome[q]
        BY <2>6 DEF ReadEvent
      <4>2. ASSUME NEW q \in Logins, q # o
            PROVE  term'[q] = term[q] /\ acked'[q] = acked[q]
        BY <1>t, <2>6, <4>2 DEF ReadEvent, TypeOK
      <4>3. /\ term'[o] = term[o] \/ term'[o] = e.val
            /\ acked'[o] => acked[o] \/ e.val = "accepted"
        BY <1>t, <2>6 DEF ReadEvent, TypeOK
      <4>4. TrueOf(o, term[o])' /\ (acked[o] => NoCommit(o))'
        BY <1>i, <3>1, <3>2, <4>3 DEF WorkerWords, TrueOf, Steady
      <4>5. ASSUME NEW q \in Logins PROVE TrueOf(q, outcome[q])'
        <5>1. TrueOf(q, outcome[q])
          BY <1>i DEF WorkerWords
        <5>2. QED
          BY <3>1, <4>1, <5>1, KeptWord DEF TrueOf
      <4>6. ASSUME NEW q \in Logins, q # o
            PROVE  TrueOf(q, term[q])' /\ (acked[q] => NoCommit(q))'
        <5>1. TrueOf(q, term[q]) /\ (acked[q] => NoCommit(q))
          BY <1>i DEF WorkerWords
        <5>2. TrueOf(q, term[q])'
          BY <3>1, <4>2, <4>6, <5>1, KeptWord DEF TrueOf
        <5>3. (acked[q] => NoCommit(q))'
          BY <3>1, <4>2, <4>6, <5>1 DEF Steady
        <5>4. QED
          BY <5>2, <5>3
      <4>7. QED
        BY <4>4, <4>5, <4>6 DEF WorkerWords
    <3>4. /\ \A q \in Logins \ {o} : disp'[q] = disp[q] /\ snap'[q] = snap[q]
          /\ disp'[o] = disp[o] \/ disp'[o] = e.val
          /\ \/ snap'[o] = snap[o] /\ last' = last
             \/ snap'[o] = e.val /\ last' = [id |-> o, state |-> e.val]
             \/ /\ e.val = "commit_in_progress"
                /\ snap'[o] = "committing" /\ last' = [id |-> o, state |-> "committing"]
      BY <1>t, <2>6 DEF ReadEvent, ShowState, ShowDisposition, TypeOK
    <3>5. RecordWords'
      BY <1>i, <3>1, <3>2, <3>4 DEF RecordWords, TrueOf, Steady
    <3>6. LastWord'
      BY <1>i, <3>1, <3>2, <3>4, LastWordFrame DEF LastWord, TrueOf, Steady
    <3>7. ToldWord'
      BY <1>i, <2>6, <3>1, ToldWordFrame DEF ReadEvent
    <3>8. QED
      BY <3>1, <3>2, <3>3, <3>5, <3>6, <3>7 DEF WordInv
  <2>7. CASE FinishLogin(o)
    <3>1. BarrierInv' /\ Steady /\ ChildWords'
      BY <1>c, <2>7 DEF FinishLogin
    <3>2. WorkerWords' /\ RecordWords' /\ ToldWord'
      BY <1>i, <1>t, <2>7, <3>1, ReturnWords, DropWords, ToldWordFrame DEF FinishLogin
    <3>3. CASE login = o
      <4>1. PICK s \in FinalStates(o) : last' = [id |-> o, state |-> s]
        BY <2>7, <3>3 DEF FinishLogin
      <4>2. s = outcome[o] \/ s = "failed"
        BY DEF FinalStates
      <4>3. TrueOf(o, s)
        BY <1>i, <4>2 DEF WorkerWords, TrueOf
      <4>4. LastWord'
        BY <3>1, <4>1, <4>3 DEF LastWord, TrueOf, Steady
      <4>5. QED
        BY <3>1, <3>2, <4>4 DEF WordInv
    <3>4. CASE login # o
      <4>1. last' = last
        BY <2>7, <3>4 DEF FinishLogin
      <4>2. QED
        BY <1>n, <3>1, <3>2, <4>1 DEF WordInv
    <3>5. QED
      BY <3>3, <3>4
  <2>8. QED
    BY <1>3, <2>1, <2>3, <2>4, <2>5, <2>6, <2>7 DEF WatchStep
<1>4. ASSUME NEW o \in Logins, Sidecar(o) PROVE WordInv'
  <2>1. BarrierInv' /\ Steady /\ ChildWords'
    BY <1>4, <1>i, <1>t, SidecarIsSteady, SidecarWords DEF Sidecar
  <2>2. UNCHANGED <<disp, snap, last, told, term, outcome, acked>>
    BY <1>4 DEF Sidecar
  <2>3. QED
    BY <1>h, <1>w, <2>1, <2>2 DEF WordInv
<1>5. ASSUME NEW o \in Logins, CancelAnswered(o) \/ CancelAsks(o) PROVE WordInv'
  <2>1. UNCHANGED <<ctl, stored, stage, ack, res, output, disp, snap, last,
                    term, outcome, acked>>
    BY <1>5 DEF CancelAnswered, CancelAsks
  <2>2. BarrierInv' /\ Steady /\ ChildWords'
    BY <1>c, <2>1
  <2>3. ToldWord'
    <3>1. \/ told' = told
          \/ told'.id = o /\ (\/ told'.answer \in {disp[o], "already_terminal"}
                              \/ snap[o] = "committing")
      BY <1>5 DEF CancelAnswered, CancelAsks, Tell
    <3>2. QED
      BY <1>i, <2>2, <3>1, ToldWordFrame DEF ToldWord, RecordWords, TrueOf, Steady
  <2>4. QED
    BY <1>i, <1>w, <2>1, <2>2, <2>3, RecordWordsFrame, LastWordFrame DEF WordInv
<1>6. ASSUME NEW u \in Tasks, BeginPreflight(u) \/ BeginMutation(u) \/ TaskStep(u)
      PROVE  WordInv'
  <2>1. UNCHANGED <<ctl, stored, stage, ack, res, output, disp, snap, last, told,
                    term, outcome, acked>>
    BY <1>6 DEF BeginPreflight, BeginMutation, TaskStep, RegisterStatus, AwaitStatus,
                PromoteToProof, ReleaseProof, ReleaseMutation
  <2>2. QED
    BY <1>c, <1>h, <1>w, <2>1 DEF WordInv
<1>7. CASE CancelReturns
  <2>1. UNCHANGED <<ctl, stored, stage, ack, res, output, disp, snap, last,
                    term, outcome, acked>>
    BY <1>7 DEF CancelReturns
  <2>2. BarrierInv' /\ Steady /\ ChildWords'
    BY <1>c, <2>1
  <2>3. cpc \in Logins /\ told' = [id |-> cpc, answer |-> CancelVerdict(cpc)]
    BY <1>7, <1>t DEF CancelReturns, Tell, TypeOK
  <2>4. CancelVerdict(cpc) = "commit_in_progress" => PastBarrier(cpc)
    BY <1>i, <2>3 DEF CancelVerdict, RecordWords, TrueOf
  <2>5. ToldWord'
    BY <2>2, <2>3, <2>4 DEF ToldWord, Steady
  <2>6. QED
    BY <1>i, <1>w, <2>1, <2>2, <2>5, RecordWordsFrame, LastWordFrame DEF WordInv
<1>8. CASE ExitBegins \/ ExitStep \/ Crash \/ UNCHANGED vars
  <2>1. UNCHANGED <<ctl, stored, stage, ack, res, output, disp, snap, last, told,
                    term, outcome, acked>>
    BY <1>8 DEF ExitBegins, ExitStep, ExitSignals, ExitLeaves, Crash, Gone, vars
  <2>2. QED
    BY <1>c, <1>h, <1>w, <2>1 DEF WordInv
<1>9. QED
  BY <1>1, <1>2, <1>3, <1>4, <1>5, <1>6, <1>7, <1>8 DEF Next

LEMMA WordsAreTrue == Spec => [](TypeInv /\ Exclusive /\ WordInv)
BY Reserved, WordInit, WordStep, PTL DEF Spec

\* A sidecar that acknowledged a cancel never stores credentials, neither
\* before the supervisor reads its answer nor at any later time.
THEOREM AckedCancelIsFinal == Spec => []AckedCancelStoresNothing
<1>1. WordInv => AckedCancelStoresNothing
  BY DEF WordInv, RecordWords, TrueOf, NoCommit, AckedCancelStoresNothing
<1>2. QED
  BY <1>1, WordsAreTrue, PTL

\* What the user sees of a login that has ended is true of the disk, also when
\* its child was stopped by the watchdog before it could say so.
THEOREM FinalStatesAreTrue == Spec => []FinalStateIsTrue
<1>1. WordInv => FinalStateIsTrue
  BY DEF WordInv, LastWord, NoSnapshot, TrueOf, NoCommit, FinalStateIsTrue
<1>2. QED
  BY <1>1, WordsAreTrue, PTL

\* A cancel is refused as "commit in progress" only past the barrier, whatever
\* the order in which the progress, the answer and the timeout arrive.
THEOREM CommitAnswersAreTrue == Spec => []CommitAnswerIsTrue
<1>1. WordInv => CommitAnswerIsTrue
  BY DEF WordInv, ToldWord, PastBarrier, CommitAnswerIsTrue
<1>2. QED
  BY <1>1, WordsAreTrue, PTL

\* The worker never kills a sidecar that it watches while it commits: a watch
\* kills only after an accepted cancel, and then there is no commit.
THEOREM CommitsAreSpared == Spec => CommitIsSpared
<1>1. ASSUME TypeInv, WordInv, [Next]_vars, NEW o \in Logins,
             lpc[o] = "watch", ctl[o] = "committing", Alive(o)
      PROVE  proc'[o] # "reaped"
  <2> USE DEF Alive, sidecar
  <2>t. TypeOK
    BY <1>1 DEF TypeInv
  <2>1. ASSUME NEW q \in Logins, Wait(q), q # o PROVE proc'[o] # "reaped"
    BY <1>1, <2>t, <2>1 DEF Wait, TypeOK, SidecarTypeOK
  <2>2. ASSUME NEW q \in Logins, StartStep(q) PROVE proc'[o] # "reaped"
    <3>1. CASE StartFails(q)
      BY <1>1, <2>1, <3>1 DEF StartFails, StopChild, Starting
    <3>2. CASE SpawnSidecar(q)
      BY <1>1, <2>t, <3>2 DEF SpawnSidecar, TypeOK, SidecarTypeOK
    <3>3. QED
      BY <1>1, <2>2, <3>1, <3>2
      DEF StartStep, OpenReceipt, SetPid, BindIdentity, CheckpointStart,
          AuthorizeLoginStart, ReadStartAck
  <2>3. ASSUME NEW q \in Logins, WatchStep(q) PROVE proc'[o] # "reaped"
    <3>1. ~acked[o]
      BY <1>1 DEF WordInv, WorkerWords, NoCommit
    <3>2. CASE SendCancelFails(q) \/ ReapSidecar(q) \/ Watchdog(q)
      <4>1. q # o /\ Wait(q)
        BY <1>1, <3>1, <3>2 DEF SendCancelFails, ReapSidecar, Watchdog, Zombie, Reaped
      <4>2. QED
        BY <2>1, <4>1
    <3>3. QED
      BY <1>1, <2>3, <3>2 DEF WatchStep, SendCancel, ReadEvent, LoginDeadline, ClearPid, FinishLogin
  <2>4. ASSUME NEW q \in Logins, Sidecar(q) PROVE proc'[o] # "reaped"
    BY <1>1, <2>t, <2>4
    DEF Sidecar, SidecarStep, ReaderStep, MainStep, FlowStep, ReadStart,
        AuthorizeStart, ReadCancel, WriteCancelAck, ReadEof, LeaveInert,
        FlowCancelled, AnnounceCommit, StoreCredentials, FinishControl,
        WriteTerminal, Exit, Advance, FlowFails, BeginCommit, Die,
        TypeOK, SidecarTypeOK
  <2>5. CASE ExitSignals
    BY <1>1, <2>5 DEF ExitSignals, Signal
  <2>6. ASSUME UNCHANGED proc PROVE proc'[o] # "reaped"
    BY <1>1, <2>6
  <2>7. QED
    BY <1>1, <2>2, <2>3, <2>4, <2>5, <2>6
    DEF Next, vars, BeginLogin, CancelAnswered, CancelAsks, BeginPreflight,
        BeginMutation, TaskStep, RegisterStatus, AwaitStatus, PromoteToProof,
        ReleaseProof, ReleaseMutation, CancelReturns, ExitBegins, ExitStep,
        ExitLeaves, Crash, Gone
<1>2. TypeInv /\ WordInv /\ [Next]_vars =>
        [\A o \in Logins :
           lpc[o] = "watch" /\ ctl[o] = "committing" /\ Alive(o) =>
             proc'[o] # "reaped"]_vars
  BY <1>1
<1>3. QED
  BY <1>2, WordsAreTrue, PTL DEF Spec, CommitIsSpared

-----------------------------------------------------------------------------
(* The start of a sidecar: its work is downstream of one start line.         *)

Begun(o) ==
  \/ \E i \in 1..Len(input[o]) : input[o][i] = "start"
  \/ reader[o] \in {"granting", "authorized"}
  \/ ctl[o] \in {"running", "committing", "finished"}
  \/ stage[o] \in Flow \cup {"commit", "store", "finish"}

Started == {"ack", "acked", "watch", "reaped", "closing", "done"}

StartInv == \A o \in Logins :
  /\ Begun(o) => receipt[o] \in Durable /\ lpc[o] \in Started
  /\ lpc[o] = "authorize" => receipt[o] = "start_prepared"

LEMMA StartInit == Init => StartInv
BY DEF Init, SidecarInit, StartInv, Begun, Flow

\* Only the supervisor's authorization puts a start line on a pipe, and no
\* step of a sidecar makes up for it.
LEMMA InputStep ==
  ASSUME NEW o \in Logins, NEW q \in Logins,
         input \in [Logins -> Seq({"start", "cancel"})],
         \/ input' = input
         \/ input[q] # <<>> /\ input' = [input EXCEPT ![q] = Tail(@)]
         \/ input' = [input EXCEPT ![q] = Append(@, "cancel")]
         \/ input' = [input EXCEPT ![q] = <<>>],
         NEW i \in 1..Len(input'[o]), input'[o][i] = "start"
  PROVE  \E j \in 1..Len(input[o]) : input[o][j] = "start"
<1>0. input[o] \in Seq({"start", "cancel"})
  OBVIOUS
<1>1. CASE input'[o] = input[o]
  BY <1>1
<1>2. CASE input[o] # <<>> /\ input'[o] = Tail(input[o])
  <2>1. i + 1 \in 1..Len(input[o]) /\ input[o][i + 1] = "start"
    BY <1>0, <1>2
  <2>2. QED
    BY <2>1
<1>3. CASE input'[o] = Append(input[o], "cancel")
  <2>1. i \in 1..Len(input[o]) /\ input[o][i] = "start"
    BY <1>0, <1>3
  <2>2. QED
    BY <2>1
<1>4. CASE input'[o] = <<>>
  BY <1>4
<1>5. QED
  BY <1>1, <1>2, <1>3, <1>4

InputKept(q) ==
  \/ input' = input
  \/ input[q] # <<>> /\ input' = [input EXCEPT ![q] = Tail(@)]
  \/ input' = [input EXCEPT ![q] = Append(@, "cancel")]
  \/ input' = [input EXCEPT ![q] = <<>>]

LEMMA SidecarBegins ==
  ASSUME NEW o \in Logins, NEW q \in Logins, TypeOK, SidecarStep(q), Begun(o)'
  PROVE  Begun(o)
<1> USE DEF TypeOK, SidecarTypeOK, StageTo, CancelControl, Flow
<1>i. ASSUME InputKept(q), NEW i \in 1..Len(input'[o]), input'[o][i] = "start"
      PROVE  Begun(o)
  BY <1>i, InputStep DEF InputKept, Begun
<1>b. ASSUME InputKept(q),
             reader'[o] \in {"granting", "authorized"} => Begun(o),
             ctl'[o] \in {"running", "committing", "finished"} => Begun(o),
             stage'[o] \in Flow \cup {"commit", "store", "finish"} => Begun(o)
      PROVE  Begun(o)
  BY <1>b, <1>i DEF Begun
<1>1. CASE ReadStart(q)
  <2>1. InputKept(q) /\ UNCHANGED stage
    BY <1>1 DEF ReadStart, HasLine, Consume, InputKept
  <2>2. input[q] \in Seq({"start", "cancel"}) /\ 1 \in 1..Len(input[q]) /\ input[q][1] = "start"
    BY <1>1 DEF ReadStart, HasLine
  <2>3. Begun(q)
    BY <2>2 DEF Begun
  <2>4. q # o => reader'[o] = reader[o] /\ ctl'[o] = ctl[o]
    BY <1>1 DEF ReadStart
  <2>5. QED
    BY <1>b, <2>1, <2>3, <2>4 DEF Begun
<1>2. CASE AuthorizeStart(q)
  BY <1>b, <1>2 DEF AuthorizeStart, InputKept, Begun
<1>3. CASE ReadCancel(q)
  BY <1>b, <1>3 DEF ReadCancel, HasLine, Consume, InputKept, Begun
<1>4. CASE WriteCancelAck(q)
  BY <1>b, <1>4 DEF WriteCancelAck, InputKept, Begun
<1>5. CASE ReadEof(q)
  <2>1. CancelControl(q) /\ UNCHANGED <<input, stage>> /\ reader' = [reader EXCEPT ![q] = "done"]
    BY <1>5 DEF ReadEof
  <2>2. QED
    BY <1>b, <2>1 DEF InputKept, Begun
<1>6. CASE LeaveInert(q)
  <2>1. ctl[q] \in Controls
    OBVIOUS
  <2>2. /\ UNCHANGED <<input, ctl, reader>> /\ (q # o => stage'[o] = stage[o])
        /\ stage'[q] # "terminal" => ctl[q] \notin {"waiting_start", "cancelled"}
    BY <1>6 DEF LeaveInert
  <2>3. QED
    BY <1>b, <2>1, <2>2 DEF InputKept, Begun, Controls
<1>7. CASE FlowCancelled(q)
  BY <1>b, <1>7 DEF FlowCancelled, InputKept, Begun
<1>8. CASE AnnounceCommit(q)
  BY <1>b, <1>8 DEF AnnounceCommit, InputKept, Begun
<1>9. CASE StoreCredentials(q)
  BY <1>b, <1>9 DEF StoreCredentials, InputKept, Begun
<1>10. CASE FinishControl(q)
  BY <1>b, <1>10 DEF FinishControl, InputKept, Begun
<1>11. CASE WriteTerminal(q)
  BY <1>b, <1>11 DEF WriteTerminal, InputKept, Begun
<1>12. CASE Exit(q) \/ Die(q)
  BY <1>b, <1>12 DEF Exit, Die, InputKept, Begun
<1>13. CASE Advance(q)
  BY <1>b, <1>13 DEF Advance, InputKept, Begun
<1>14. CASE FlowFails(q)
  BY <1>b, <1>14 DEF FlowFails, InputKept, Begun
<1>15. CASE BeginCommit(q)
  BY <1>b, <1>15 DEF BeginCommit, InputKept, Begun
<1>16. QED
  BY <1>1, <1>2, <1>3, <1>4, <1>5, <1>6, <1>7, <1>8, <1>9, <1>10, <1>11, <1>12,
     <1>13, <1>14, <1>15
  DEF SidecarStep, ReaderStep, MainStep, FlowStep

LEMMA BegunStep ==
  ASSUME NEW o \in Logins, TypeOK, [Next]_vars, Begun(o)', ~AuthorizeLoginStart(o)
  PROVE  Begun(o)
<1> USE DEF TypeOK, SidecarTypeOK, sidecar
<1>u. ASSUME UNCHANGED <<input, reader, ctl, stage>> PROVE Begun(o)
  BY <1>u DEF Begun
<1>w. ASSUME NEW q \in Logins, Wait(q) PROVE Begun(o)
  <2>1. InputKept(q)
    BY <1>w DEF Wait, InputKept
  <2>2. /\ ctl' = ctl
        /\ reader'[o] = reader[o] \/ reader'[o] = "done"
        /\ stage'[o] = stage[o] \/ stage'[o] = "exit"
    BY <1>w DEF Wait
  <2>3. ASSUME NEW i \in 1..Len(input'[o]), input'[o][i] = "start" PROVE Begun(o)
    BY <2>1, <2>3, InputStep DEF InputKept, Begun
  <2>4. QED
    BY <2>2, <2>3 DEF Begun, Flow
<1>1. ASSUME NEW q \in Logins, StartStep(q) PROVE Begun(o)
  <2>1. CASE AuthorizeLoginStart(q)
    <3>1. q # o
      BY <2>1
    <3>2. input'[o] = input[o] /\ UNCHANGED <<reader, ctl, stage>>
      BY <2>1, <3>1 DEF AuthorizeLoginStart
    <3>3. QED
      BY <3>2 DEF Begun
  <2>2. CASE StartFails(q)
    BY <1>u, <1>w, <2>2 DEF StartFails, StopChild
  <2>3. QED
    BY <1>1, <1>u, <2>1, <2>2
    DEF StartStep, OpenReceipt, SpawnSidecar, SetPid, BindIdentity, CheckpointStart,
        ReadStartAck
<1>2. ASSUME NEW q \in Logins, WatchStep(q) PROVE Begun(o)
  <2>1. CASE SendCancel(q)
    <3>1. InputKept(q) /\ UNCHANGED <<reader, ctl, stage>>
      BY <2>1 DEF SendCancel, InputKept
    <3>2. ASSUME NEW i \in 1..Len(input'[o]), input'[o][i] = "start" PROVE Begun(o)
      BY <3>1, <3>2, InputStep DEF InputKept, Begun
    <3>3. QED
      BY <3>1, <3>2 DEF Begun
  <2>2. CASE SendCancelFails(q) \/ ReapSidecar(q) \/ Watchdog(q)
    BY <1>w, <2>2 DEF SendCancelFails, ReapSidecar, Watchdog, Reaped
  <2>3. QED
    BY <1>2, <1>u, <2>1, <2>2 DEF WatchStep, ReadEvent, LoginDeadline, ClearPid, FinishLogin
<1>3. ASSUME NEW q \in Logins, Sidecar(q) PROVE Begun(o)
  BY <1>3, SidecarBegins DEF Sidecar
<1>4. QED
  BY <1>1, <1>2, <1>3, <1>u
  DEF Next, vars, BeginLogin, CancelAnswered, CancelAsks, BeginPreflight, BeginMutation,
      TaskStep, RegisterStatus, AwaitStatus, PromoteToProof, ReleaseProof,
      ReleaseMutation, CancelReturns, ExitBegins, ExitStep, ExitSignals, ExitLeaves,
      Crash, Gone

\* Only its own worker moves the program counter and the receipt of a login.
LEMMA WorkerIsLocal ==
  ASSUME NEW o \in Logins, TypeOK, [Next]_vars,
         ~BeginLogin(o), ~StartStep(o), ~WatchStep(o)
  PROVE  lpc'[o] = lpc[o] /\ receipt'[o] = receipt[o]
<1> USE DEF TypeOK, worker, LoginTo
<1>1. ASSUME NEW q \in Logins, StartStep(q) PROVE lpc'[o] = lpc[o] /\ receipt'[o] = receipt[o]
  BY <1>1
  DEF StartStep, OpenReceipt, SpawnSidecar, SetPid, BindIdentity, CheckpointStart,
      AuthorizeLoginStart, ReadStartAck, StartFails, WorkerReturns
<1>2. ASSUME NEW q \in Logins, WatchStep(q) PROVE lpc'[o] = lpc[o] /\ receipt'[o] = receipt[o]
  <2>1. q # o
    BY <1>2
  <2>2. CASE FinishLogin(q)
    BY <2>1, <2>2 DEF FinishLogin, WorkerReturns
  <2>3. QED
    BY <1>2, <2>1, <2>2
    DEF WatchStep, SendCancel, SendCancelFails, ReapSidecar, Watchdog, Reaped, ReadEvent,
        LoginDeadline, ClearPid
<1>3. ASSUME NEW q \in Logins, BeginLogin(q) PROVE lpc'[o] = lpc[o] /\ receipt'[o] = receipt[o]
  <2>1. q # o
    BY <1>3
  <2>2. QED
    BY <1>3, <2>1 DEF BeginLogin
<1>4. QED
  BY <1>1, <1>2, <1>3
  DEF Next, vars, Sidecar, CancelAnswered, CancelAsks, BeginPreflight, BeginMutation,
      TaskStep, RegisterStatus, AwaitStatus, PromoteToProof, ReleaseProof,
      ReleaseMutation, CancelReturns, ExitBegins, ExitStep, ExitSignals, ExitLeaves,
      Crash, Gone

LEMMA StartInvStep == TypeInv /\ StartInv /\ [Next]_vars => StartInv'
<1> SUFFICES ASSUME TypeInv, StartInv, [Next]_vars, NEW o \in Logins
             PROVE  /\ Begun(o)' => receipt'[o] \in Durable /\ lpc'[o] \in Started
                    /\ lpc'[o] = "authorize" => receipt'[o] = "start_prepared"
    BY DEF StartInv
<1>t. TypeOK
  BY DEF TypeInv
<1>i. /\ Begun(o) => receipt[o] \in Durable /\ lpc[o] \in Started
      /\ lpc[o] = "authorize" => receipt[o] = "start_prepared"
  BY DEF StartInv
<1>b. ~AuthorizeLoginStart(o) /\ Begun(o)' => Begun(o)
  BY <1>t, BegunStep
<1> USE DEF TypeOK, LoginTo, Durable, Started, worker
<1>1. CASE BeginLogin(o)
  BY <1>1, <1>t, <1>i, <1>b DEF BeginLogin, AuthorizeLoginStart
<1>2. CASE StartStep(o)
  <2>1. CASE AuthorizeLoginStart(o)
    BY <2>1, <1>t, <1>i DEF AuthorizeLoginStart
  <2>2. CASE CheckpointStart(o)
    <3>1. ~AuthorizeLoginStart(o)
      BY <2>2 DEF CheckpointStart, AuthorizeLoginStart
    <3>2. /\ lpc[o] \in {"inert", "prepare", "acked"}
          /\ receipt'[o] = NextReceipt(lpc[o])
          /\ lpc'[o] = AfterReceipt(lpc[o])
      BY <2>2, <1>t DEF CheckpointStart
    <3>3. QED
      BY <3>1, <3>2, <1>i, <1>b DEF NextReceipt, AfterReceipt
  <2>3. CASE OpenReceipt(o) \/ SpawnSidecar(o) \/ SetPid(o) \/ BindIdentity(o)
    <3>1. lpc[o] \in {"reserved", "spawn", "register", "bind"} /\ ~AuthorizeLoginStart(o)
      BY <2>3 DEF OpenReceipt, SpawnSidecar, SetPid, BindIdentity, AuthorizeLoginStart
    <3>2. lpc'[o] # "authorize"
      BY <2>3, <1>t DEF OpenReceipt, SpawnSidecar, SetPid, BindIdentity
    <3>3. QED
      BY <3>1, <3>2, <1>i, <1>b
  <2>4. CASE ReadStartAck(o) \/ StartFails(o)
    BY <2>4, <1>t, <1>i, <1>b
    DEF ReadStartAck, StartFails, WorkerReturns, AuthorizeLoginStart
  <2>5. QED
    BY <1>2, <2>1, <2>2, <2>3, <2>4 DEF StartStep
<1>3. CASE WatchStep(o)
  <2>0. lpc[o] \in {"watch", "reaped", "closing"} /\ ~AuthorizeLoginStart(o)
    BY <1>3
    DEF WatchStep, SendCancel, SendCancelFails, ReapSidecar, Watchdog, ReadEvent,
        LoginDeadline, ClearPid, FinishLogin, AuthorizeLoginStart
  <2>1. lpc'[o] \in {"watch", "reaped", "closing", "done"}
    BY <1>3, <1>t
    DEF WatchStep, SendCancel, SendCancelFails, ReapSidecar, Watchdog, Reaped, ReadEvent,
        LoginDeadline, ClearPid, FinishLogin, WorkerReturns
  <2>2. receipt'[o] = receipt[o] \/ receipt'[o] = "terminal"
    BY <1>3, <1>t
    DEF WatchStep, SendCancel, SendCancelFails, ReapSidecar, Watchdog, Reaped, ReadEvent,
        LoginDeadline, ClearPid, FinishLogin
  <2>3. QED
    BY <1>i, <1>b, <2>0, <2>1, <2>2
<1>4. CASE ~BeginLogin(o) /\ ~StartStep(o) /\ ~WatchStep(o)
  BY <1>4, <1>t, <1>i, <1>b, WorkerIsLocal DEF StartStep
<1>5. QED
  BY <1>1, <1>2, <1>3, <1>4

LEMMA StartsAreOrdered == Spec => [](TypeInv /\ Exclusive /\ StartInv)
BY Reserved, StartInit, StartInvStep, PTL DEF Spec

\* No sidecar does OAuth work that a durable receipt does not cover, wherever
\* the Desktop is interrupted.
THEOREM StartsAreDurable == Spec => []StartIsDurable
<1>1. StartInv => StartIsDurable
  BY DEF StartInv, StartIsDurable, Begun, Durable
<1>2. QED
  BY <1>1, StartsAreOrdered, PTL

-----------------------------------------------------------------------------
(* A cancel before the start: the login it hits is doomed, and stays so.     *)

Early == Starting \ {"ack", "acked"}

Doomed(o) ==
  /\ ~Begun(o)
  /\ \/ lpc[o] \in Early /\ (cancel[o] \/ shutting)
     \/ lpc[o] = "done"

\* A request to stop is forgotten only with the reservation.
LEMMA RequestKept ==
  ASSUME NEW o \in Logins, TypeOK, Exclusive, [Next]_vars, Active(o),
         cancel[o] \/ shutting, lpc'[o] = lpc[o]
  PROVE  cancel'[o] \/ shutting'
<1> USE DEF TypeOK, inner, record
<1>1. ASSUME NEW q \in Logins, StartStep(q) PROVE cancel'[o] \/ shutting'
  <2>1. CASE StartFails(q)
    <3>1. q = o
      BY <2>1 DEF StartFails, Starting, Exclusive, Active
    <3>2. lpc'[o] = "done"
      BY <2>1, <3>1 DEF StartFails, WorkerReturns, LoginTo
    <3>3. QED
      BY <3>2 DEF Active
  <2>2. QED
    BY <1>1, <2>1
    DEF StartStep, OpenReceipt, SpawnSidecar, SetPid, BindIdentity, CheckpointStart,
        AuthorizeLoginStart, ReadStartAck
<1>2. ASSUME NEW q \in Logins, WatchStep(q) PROVE cancel'[o] \/ shutting'
  <2>1. CASE FinishLogin(q)
    <3>1. q = o
      BY <2>1 DEF FinishLogin, Exclusive, Active
    <3>2. lpc'[o] = "done"
      BY <2>1, <3>1 DEF FinishLogin, WorkerReturns, LoginTo
    <3>3. QED
      BY <3>2 DEF Active
  <2>2. CASE LoginDeadline(q)
    BY <2>2 DEF LoginDeadline
  <2>3. QED
    BY <1>2, <2>1, <2>2
    DEF WatchStep, SendCancel, SendCancelFails, ReapSidecar, Watchdog, Reaped, ReadEvent,
        ClearPid
<1>3. ASSUME NEW q \in Logins, CancelAnswered(q) \/ CancelAsks(q)
      PROVE  cancel'[o] \/ shutting'
  BY <1>3 DEF CancelAnswered, CancelAsks
<1>4. CASE ExitBegins
  BY <1>4 DEF ExitBegins
<1>5. QED
  BY <1>1, <1>2, <1>3, <1>4
  DEF Next, vars, Sidecar, BeginLogin, BeginPreflight, BeginMutation, TaskStep,
      RegisterStatus, AwaitStatus, PromoteToProof, ReleaseProof, ReleaseMutation,
      CancelReturns, ExitStep, ExitSignals, ExitLeaves, Crash, Gone

LEMMA DoomedStep ==
  ASSUME NEW o \in Logins, TypeInv, Exclusive, Doomed(o), [Next]_vars
  PROVE  Doomed(o)'
<1>t. TypeOK
  BY DEF TypeInv
<1>1. ~AuthorizeLoginStart(o)
  BY DEF Doomed, AuthorizeLoginStart, Startable
<1>2. ~Begun(o)'
  BY <1>t, <1>1, BegunStep DEF Doomed
<1>3. lpc[o] \in Early \cup {"done"}
  BY DEF Doomed
<1>4. CASE lpc'[o] = lpc[o]
  <2>1. CASE lpc[o] = "done"
    BY <1>2, <1>4, <2>1 DEF Doomed
  <2>2. CASE lpc[o] \in Early
    <3>1. Active(o)
      BY <2>2 DEF Early, Starting, Active
    <3>2. cancel[o] \/ shutting
      BY <2>2 DEF Doomed, Early, Starting
    <3>3. cancel'[o] \/ shutting'
      BY <1>t, <1>4, <3>1, <3>2, RequestKept
    <3>4. QED
      BY <1>2, <1>4, <2>2, <3>3 DEF Doomed
  <2>3. QED
    BY <1>3, <2>1, <2>2
<1>5. CASE lpc'[o] # lpc[o]
  <2>1. StartStep(o)
    <3>1. ~BeginLogin(o) /\ ~WatchStep(o)
      BY <1>3
      DEF Early, Starting, BeginLogin, WatchStep, SendCancel, SendCancelFails,
          ReapSidecar, Watchdog, ReadEvent, LoginDeadline, ClearPid, FinishLogin
    <3>2. QED
      BY <1>t, <1>5, <3>1, WorkerIsLocal
  <2>2. CASE StartFails(o)
    BY <1>t, <1>2, <2>2 DEF StartFails, WorkerReturns, LoginTo, TypeOK, Doomed
  <2>3. CASE ~StartFails(o)
    <3>1. OpenReceipt(o) \/ SpawnSidecar(o) \/ SetPid(o) \/ BindIdentity(o)
             \/ CheckpointStart(o)
      BY <1>1, <1>3, <2>1, <2>3 DEF StartStep, ReadStartAck, Early
    <3>2. lpc'[o] \in Early /\ UNCHANGED <<cancel, shutting>>
      BY <1>t, <1>3, <3>1
      DEF OpenReceipt, SpawnSidecar, SetPid, BindIdentity, CheckpointStart,
          AfterReceipt, LoginTo, Early, Starting, TypeOK, inner, record
    <3>3. lpc[o] # "done"
      BY <3>1 DEF OpenReceipt, SpawnSidecar, SetPid, BindIdentity, CheckpointStart
    <3>4. QED
      BY <1>2, <3>2, <3>3 DEF Doomed
  <2>4. QED
    BY <2>2, <2>3
<1>6. QED
  BY <1>4, <1>5

\* A cancel or an exit that comes before the authorization is never overtaken
\* by the start it was meant to prevent.
THEOREM EarlyCancelsWin == Spec => CancelBeforeStartWins
<1> SUFFICES ASSUME NEW o \in Logins
             PROVE  Spec => []((cancel[o] \/ shutting) /\ lpc[o] \in Starting \ {"ack", "acked"} =>
                                 [](ctl[o] \notin {"running", "committing", "finished"}))
    BY DEF CancelBeforeStartWins
<1>1. StartInv /\ (cancel[o] \/ shutting) /\ lpc[o] \in Starting \ {"ack", "acked"}
        => Doomed(o)
  BY DEF StartInv, Doomed, Early, Started, Starting
<1>2. Doomed(o) => ctl[o] \notin {"running", "committing", "finished"}
  BY DEF Doomed, Begun
<1>3. TypeInv /\ Exclusive /\ Doomed(o) /\ [Next]_vars => Doomed(o)'
  BY DoomedStep
<1>4. QED
  BY <1>1, <1>2, <1>3, StartsAreOrdered, PTL DEF Spec

=============================================================================
