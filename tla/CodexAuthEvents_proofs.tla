----------------------- MODULE CodexAuthEvents_proofs -----------------------
(* The strict event parser of CodexAuthSupervisor never meets a line out of *)
(* place, for every number of logins and every set of other tasks.  What is *)
(* in the pipe of a sidecar depends on how far its worker, its reader and   *)
(* its main thread are, which PipeInv ties together.                        *)
EXTENDS CodexAuthSupervisor_proofs

-----------------------------------------------------------------------------
(* Lines and commands in a pipe.                                            *)

Lacks(s, K)     == \A i \in 1..Len(s) : s[i].kind \notin K
NoCommand(s, c) == \A i \in 1..Len(s) : s[i] # c

\* After the terminal line only cancel answers are still written.
FlowEnds(s) ==
  \A i, j \in 1..Len(s) :
    i < j /\ s[i].kind = "terminal" => s[j].kind = "cancel_ack"

-----------------------------------------------------------------------------
(* What the pipes of a login hold.                                          *)

Unstarted == {"idle"} \cup Early
Served    == Unstarted \cup {"ack", "acked", "watch"}

Fresh(o) == /\ ctl[o] = "waiting_start" /\ stage[o] = "inert"
            /\ reader[o] = "new" /\ output[o] = <<>>

StartPipe(o) ==
  /\ lpc[o] \in Unstarted => Fresh(o) /\ input[o] = <<>>
  /\ lpc[o] = "ack" /\ reader[o] = "new" => Fresh(o) /\ input[o] = <<"start">>
  /\ lpc[o] = "ack" /\ reader[o] # "new" =>
       HasEvent(o, "start_ack") /\ Lacks(Tail(output[o]), {"start_ack"})
  /\ lpc[o] \in {"acked", "watch"} =>
       reader[o] # "new" /\ Lacks(output[o], {"start_ack"})
  /\ reader[o] # "new" => NoCommand(input[o], "start")

CancelPipe(o) ==
  /\ sent[o] => lpc[o] \in {"watch", "reaped", "closing"}
  /\ lpc[o] \in Served /\ ~sent[o] =>
       /\ peer[o] = "open" /\ ack[o] = "none"
       /\ NoCommand(input[o], "cancel") /\ Lacks(output[o], {"cancel_ack"})

FlowPipe(o) ==
  /\ FlowEnds(output[o])
  /\ stage[o] # "exit" => Lacks(output[o], {"terminal"})
  /\ term[o] # "none" =>
       /\ lpc[o] \in {"watch", "reaped", "closing"}
       /\ stage[o] = "exit" /\ Lacks(output[o], {"progress", "terminal"})

Pipe(o) == StartPipe(o) /\ CancelPipe(o) /\ FlowPipe(o)

\* The pipes close when the Desktop is gone, and nobody reads them then.
PipeInv == Up => \A o \in Logins : Pipe(o)

-----------------------------------------------------------------------------
(* What appending to a pipe and reading its head do to what it holds.       *)

LEMMA AppendLacks ==
  ASSUME NEW S, NEW s \in Seq(S), NEW e \in S, NEW K,
         Lacks(s, K), e.kind \notin K
  PROVE  Lacks(Append(s, e), K)
BY DEF Lacks

LEMMA AppendEnds ==
  ASSUME NEW S, NEW s \in Seq(S), NEW e \in S, FlowEnds(s),
         e.kind = "cancel_ack" \/ Lacks(s, {"terminal"})
  PROVE  FlowEnds(Append(s, e))
<1> SUFFICES ASSUME NEW i \in 1..Len(Append(s, e)),
                    NEW j \in 1..Len(Append(s, e)), i < j,
                    Append(s, e)[i].kind = "terminal"
             PROVE  Append(s, e)[j].kind = "cancel_ack"
    BY DEF FlowEnds
<1>1. i \in 1..Len(s) /\ s[i].kind = "terminal"
  OBVIOUS
<1>2. e.kind = "cancel_ack"
  BY <1>1 DEF Lacks
<1>3. CASE j \in 1..Len(s)
  BY <1>1, <1>3 DEF FlowEnds
<1>4. CASE j \notin 1..Len(s)
  BY <1>2, <1>4
<1>5. QED
  BY <1>3, <1>4

LEMMA TailKeeps ==
  ASSUME NEW S, NEW s \in Seq(S), s # <<>>
  PROVE  /\ \A i \in 1..Len(Tail(s)) :
              i + 1 \in 1..Len(s) /\ Tail(s)[i] = s[i + 1]
         /\ 1 \in 1..Len(s) /\ Head(s) = s[1]
OBVIOUS

LEMMA TailLacks ==
  ASSUME NEW S, NEW s \in Seq(S), s # <<>>, NEW K, Lacks(s, K)
  PROVE  Lacks(Tail(s), K)
BY TailKeeps DEF Lacks

LEMMA TailEnds ==
  ASSUME NEW S, NEW s \in Seq(S), s # <<>>, FlowEnds(s)
  PROVE  /\ FlowEnds(Tail(s))
         /\ Head(s).kind = "terminal" => Lacks(Tail(s), {"progress", "terminal"})
<1>1. FlowEnds(Tail(s))
  <2> SUFFICES ASSUME NEW i \in 1..Len(Tail(s)), NEW j \in 1..Len(Tail(s)),
                      i < j, Tail(s)[i].kind = "terminal"
               PROVE  Tail(s)[j].kind = "cancel_ack"
      BY DEF FlowEnds
  <2>1. /\ i + 1 \in 1..Len(s) /\ j + 1 \in 1..Len(s) /\ i + 1 < j + 1
        /\ Tail(s)[i] = s[i + 1] /\ Tail(s)[j] = s[j + 1]
    BY TailKeeps
  <2>2. QED
    BY <2>1 DEF FlowEnds
<1>2. ASSUME Head(s).kind = "terminal", NEW i \in 1..Len(Tail(s))
      PROVE  Tail(s)[i].kind \notin {"progress", "terminal"}
  <2>1. /\ i + 1 \in 1..Len(s) /\ 1 < i + 1 /\ Tail(s)[i] = s[i + 1]
        /\ 1 \in 1..Len(s) /\ s[1].kind = "terminal"
    BY <1>2, TailKeeps
  <2>2. s[i + 1].kind = "cancel_ack"
    BY <2>1 DEF FlowEnds
  <2>3. QED
    BY <2>1, <2>2
<1>3. QED
  BY <1>1, <1>2 DEF Lacks

LEMMA AppendTail ==
  ASSUME NEW S, NEW s \in Seq(S), NEW e \in S, s # <<>>
  PROVE  /\ Append(s, e) # <<>> /\ Head(Append(s, e)) = Head(s)
         /\ Tail(Append(s, e)) = Append(Tail(s), e)
         /\ Tail(s) \in Seq(S)
OBVIOUS

LEMMA CommandLeaves ==
  ASSUME NEW S, NEW s \in Seq(S), NEW c
  PROVE  /\ s # <<>> /\ NoCommand(s, c) => NoCommand(Tail(s), c)
         /\ \A d \in S : NoCommand(s, c) /\ d # c => NoCommand(Append(s, d), c)
BY TailKeeps DEF NoCommand

LEMMA Empty ==
  /\ \A K : Lacks(<<>>, K)
  /\ \A c : NoCommand(<<>>, c)
  /\ FlowEnds(<<>>)
BY DEF Lacks, NoCommand, FlowEnds

LEMMA EmitAt ==
  ASSUME NEW o \in Logins, NEW e \in Events, Emit(o, e),
         output \in [Logins -> Seq(Events)]
  PROVE  /\ output[o] \in Seq(Events)
         /\ output'[o] \in {output[o], Append(output[o], e)}
         /\ peer[o] # "gone" => output'[o] = Append(output[o], e)
         /\ \A q \in Logins \ {o} : output'[q] = output[q]
BY DEF Emit

-----------------------------------------------------------------------------
(* Steps of a sidecar.                                                      *)

LEMMA PipeFrame ==
  ASSUME NEW o \in Logins, Pipe(o),
         UNCHANGED <<lpc[o], sent[o], term[o], ctl[o], stage[o], reader[o],
                     ack[o], peer[o], input[o], output[o]>>
  PROVE  Pipe(o)'
BY DEF Pipe, StartPipe, CancelPipe, FlowPipe, Fresh, HasEvent

\* A login that has left its inert state moves on without a word.
LEMMA QuietMove ==
  ASSUME NEW o \in Logins, Pipe(o), ~Fresh(o),
         UNCHANGED <<lpc[o], sent[o], term[o], ack[o], peer[o], input[o],
                     output[o]>>,
         (reader'[o] = "new") <=> (reader[o] = "new"),
         stage[o] = "exit" => stage'[o] = "exit"
  PROVE  Pipe(o)'
BY DEF Pipe, StartPipe, CancelPipe, FlowPipe, HasEvent

\* Its main thread writes a line of the flow.
LEMMA FlowLine ==
  ASSUME TypeOK, NEW o \in Logins, Pipe(o), NEW e \in Events, Emit(o, e),
         e.kind \in {"progress", "terminal"}, stage[o] \notin {"inert", "exit"},
         UNCHANGED <<lpc[o], sent[o], term[o], reader[o], ack[o], peer[o],
                     input[o]>>,
         e.kind = "terminal" => stage'[o] = "exit"
  PROVE  Pipe(o)'
<1> output \in [Logins -> Seq(Events)]
    BY DEF TypeOK, SidecarTypeOK
<1>1. CASE output'[o] = output[o]
  BY <1>1 DEF Pipe, StartPipe, CancelPipe, FlowPipe, Fresh, HasEvent
<1>2. CASE output'[o] = Append(output[o], e)
  <2>1. output[o] \in Seq(Events)
    OBVIOUS
  <2>2. StartPipe(o)'
    <3>1. ASSUME lpc[o] = "ack", reader[o] # "new"
          PROVE  HasEvent(o, "start_ack")' /\ Lacks(Tail(output'[o]), {"start_ack"})
      <4>1. /\ output[o] # <<>> /\ Head(output[o]).kind = "start_ack"
            /\ Lacks(Tail(output[o]), {"start_ack"})
        BY <3>1 DEF Pipe, StartPipe, HasEvent
      <4>2. /\ output'[o] # <<>> /\ Head(output'[o]) = Head(output[o])
            /\ Tail(output'[o]) = Append(Tail(output[o]), e)
            /\ Tail(output[o]) \in Seq(Events)
        BY <1>2, <2>1, <4>1, AppendTail
      <4>3. Lacks(Append(Tail(output[o]), e), {"start_ack"})
        BY <4>1, <4>2, AppendLacks
      <4>4. QED
        BY <4>1, <4>2, <4>3 DEF HasEvent
    <3>2. lpc[o] \in {"acked", "watch"} => Lacks(output'[o], {"start_ack"})
      BY <1>2, <2>1, AppendLacks DEF Pipe, StartPipe
    <3>3. QED
      BY <3>1, <3>2 DEF Pipe, StartPipe, Fresh
  <2>3. CancelPipe(o)'
    BY <1>2, <2>1, AppendLacks DEF Pipe, CancelPipe
  <2>4. FlowPipe(o)'
    <3>1. Lacks(output[o], {"terminal"}) /\ term[o] = "none"
      BY DEF Pipe, FlowPipe
    <3>2. FlowEnds(output'[o])
      BY <1>2, <2>1, <3>1, AppendEnds DEF Pipe, FlowPipe
    <3>3. e.kind # "terminal" => Lacks(output'[o], {"terminal"})
      BY <1>2, <2>1, <3>1, AppendLacks
    <3>4. QED
      BY <3>1, <3>2, <3>3 DEF FlowPipe
  <2>5. QED
    BY <2>2, <2>3, <2>4 DEF Pipe
<1>3. QED
  BY <1>1, <1>2, EmitAt

LEMMA EventKinds ==
  \A k, v : Event(k, v).kind = k
BY DEF Event

LEMMA SidecarPipe ==
  ASSUME TypeInv, ChildInv, NEW o \in Logins, SidecarStep(o), Pipe(o),
         UNCHANGED <<lpc, sent, term>>
  PROVE  Pipe(o)'
<1> /\ TypeOK
    /\ output \in [Logins -> Seq(Events)] /\ output[o] \in Seq(Events)
    /\ input[o] \in Seq({"start", "cancel"})
    /\ input \in [Logins -> Seq({"start", "cancel"})]
    /\ stage \in [Logins -> Stages] /\ reader \in [Logins -> Readers]
    /\ ack \in [Logins -> Dispositions \cup {"none"}]
    /\ ctl \in [Logins -> Controls]
    BY DEF TypeInv, TypeOK, SidecarTypeOK
<1>a. Alive(o)
  BY DEF SidecarStep, ReaderStep, MainStep, FlowStep, ReadStart, AuthorizeStart,
         ReadCancel, WriteCancelAck, ReadEof, LeaveInert, FlowCancelled,
         AnnounceCommit, StoreCredentials, FinishControl, WriteTerminal, Exit,
         Advance, FlowFails, BeginCommit, Die, Listening
<1>l. lpc[o] \in Attended
  BY <1>a DEF ChildInv
<1>s. lpc[o] \in Served
  BY <1>l DEF Attended, Served, Unstarted, Early, Starting
<1>c. \/ sent[o] /\ lpc[o] = "watch"
      \/ /\ ~sent[o] /\ peer[o] = "open" /\ ack[o] = "none"
         /\ NoCommand(input[o], "cancel")
  BY <1>l, <1>s DEF Pipe, CancelPipe, Attended
<1>w. lpc[o] = "watch" => reader[o] # "new" /\ ~Fresh(o)
  BY DEF Pipe, StartPipe, Fresh
<1>1. CASE ReadStart(o)
  <2>1. reader[o] = "new" /\ input[o] # <<>>
    BY <1>1 DEF ReadStart, HasLine
  <2>2. lpc[o] = "ack" /\ input[o] = <<"start">> /\ output[o] = <<>> /\ Fresh(o)
    BY <1>l, <2>1 DEF Pipe, StartPipe, Fresh, Attended, Unstarted, Early, Starting
  <2>3. ~sent[o] /\ peer[o] = "open"
    BY <1>c, <2>2
  <2>4. /\ Emit(o, Event("start_ack", "start"))
        /\ reader'[o] = "granting" /\ input'[o] = <<>>
        /\ UNCHANGED <<proc, peer, stage, ctl, ack>>
    BY <1>1, <2>2, <2>3 DEF ReadStart, Consume
  <2>5. output'[o] = <<Event("start_ack", "start")>>
    <3>1. output'[o] = Append(output[o], Event("start_ack", "start"))
      BY <2>3, <2>4, EmitAt, EventTypes
    <3>2. QED
      BY <2>2, <3>1
  <2>6. /\ HasEvent(o, "start_ack")' /\ Tail(output'[o]) = <<>>
        /\ Lacks(output'[o], {"cancel_ack"}) /\ Lacks(output'[o], {"terminal"})
        /\ FlowEnds(output'[o])
    BY <2>5, EventKinds DEF HasEvent, Lacks, FlowEnds
  <2>7. term[o] = "none"
    BY <2>2 DEF Pipe, FlowPipe
  <2>8. StartPipe(o)'
    BY <2>2, <2>4, <2>6, Empty DEF StartPipe, Unstarted, Early, Starting
  <2>9. CancelPipe(o)'
    BY <2>3, <2>4, <2>6, <1>c, Empty DEF CancelPipe
  <2>10. FlowPipe(o)'
    BY <2>6, <2>7 DEF FlowPipe
  <2>11. QED
    BY <2>8, <2>9, <2>10 DEF Pipe
<1>2. CASE AuthorizeStart(o)
  <2>1. /\ ~Fresh(o) /\ reader[o] # "new" /\ reader'[o] # "new"
        /\ UNCHANGED <<ack, peer, input, output, stage>>
    BY <1>2 DEF AuthorizeStart, Fresh
  <2>2. QED
    BY <2>1, QuietMove
<1>3. CASE ReadCancel(o)
  <2>1. input[o] # <<>> /\ Head(input[o]) = "cancel"
    BY <1>3 DEF ReadCancel, HasLine
  <2>2. sent[o] /\ lpc[o] = "watch" /\ reader[o] # "new"
    BY <1>c, <1>w, <2>1, TailKeeps DEF NoCommand
  <2>3. /\ input'[o] = Tail(input[o])
        /\ UNCHANGED <<peer, output, stage, reader>>
    BY <1>3 DEF ReadCancel, Consume
  <2>4. NoCommand(input'[o], "start")
    BY <2>1, <2>2, <2>3, CommandLeaves DEF Pipe, StartPipe
  <2>5. QED
    BY <2>2, <2>3, <2>4
       DEF Pipe, StartPipe, CancelPipe, FlowPipe, Unstarted, Early, Starting
<1>4. CASE WriteCancelAck(o)
  <2>1. ack[o] \in Dispositions
    BY <1>4 DEF WriteCancelAck
  <2>2. sent[o] /\ lpc[o] = "watch" /\ reader[o] # "new"
    BY <1>4, <1>c, <1>w DEF WriteCancelAck
  <2> DEFINE e == Event("cancel_ack", ack[o])
  <2>3. /\ Emit(o, e) /\ e \in Events /\ e.kind = "cancel_ack"
        /\ UNCHANGED <<peer, input, ctl, stage>>
        /\ reader'[o] # "new"
    BY <1>4, <2>1, EventTypes, EventKinds DEF WriteCancelAck
  <2>4. output'[o] \in {output[o], Append(output[o], e)}
    BY <2>3 DEF Emit
  <2> HIDE DEF e
  <2>5. /\ Lacks(output'[o], {"start_ack"})
        /\ FlowEnds(output'[o])
        /\ stage[o] # "exit" => Lacks(output'[o], {"terminal"})
        /\ term[o] # "none" => Lacks(output'[o], {"progress", "terminal"})
    <3>1. /\ Lacks(output[o], {"start_ack"})
          /\ FlowEnds(output[o])
          /\ stage[o] # "exit" => Lacks(output[o], {"terminal"})
          /\ term[o] # "none" => Lacks(output[o], {"progress", "terminal"})
      BY <2>2 DEF Pipe, StartPipe, FlowPipe
    <3>2. /\ Lacks(Append(output[o], e), {"start_ack"})
          /\ FlowEnds(Append(output[o], e))
      BY <2>3, <3>1, AppendLacks, AppendEnds
    <3>3. \A K \in {{"terminal"}, {"progress", "terminal"}} :
            Lacks(output[o], K) => Lacks(Append(output[o], e), K)
      <4> SUFFICES ASSUME NEW K \in {{"terminal"}, {"progress", "terminal"}},
                          Lacks(output[o], K)
                   PROVE  Lacks(Append(output[o], e), K)
          OBVIOUS
      <4>1. e.kind \notin K
        BY <2>3
      <4>2. QED
        BY <2>3, <4>1, AppendLacks
    <3>4. QED
      BY <2>4, <3>1, <3>2, <3>3
  <2>6. QED
    BY <2>2, <2>3, <2>5
       DEF Pipe, StartPipe, CancelPipe, FlowPipe, Unstarted, Early, Starting
<1>5. CASE ReadEof(o)
  <2>1. sent[o] /\ lpc[o] = "watch" /\ reader[o] # "new" /\ ~Fresh(o)
    BY <1>5, <1>c, <1>w DEF ReadEof
  <2>2. /\ reader'[o] = "done"
        /\ UNCHANGED <<ack, peer, input, output, stage>>
    BY <1>5 DEF ReadEof
  <2>3. QED
    BY <2>1, <2>2, QuietMove
<1>6. CASE LeaveInert(o) \/ FlowCancelled(o) \/ StoreCredentials(o)
            \/ FinishControl(o) \/ FlowFails(o) \/ BeginCommit(o)
  <2>1. /\ ~Fresh(o) /\ stage[o] # "exit"
        /\ UNCHANGED <<ack, peer, input, output, reader>>
    BY <1>6 DEF LeaveInert, FlowCancelled, StoreCredentials, FinishControl,
                FlowFails, BeginCommit, Fresh, Flow
  <2>2. QED
    BY <2>1, QuietMove
<1>7. CASE Exit(o) \/ Die(o)
  BY <1>7, PipeFrame DEF Exit, Die
<1>8. CASE Advance(o) \/ AnnounceCommit(o)
  <2>1. PICK v \in {"waiting", "exchanging", "committing"} :
          Emit(o, Event("progress", v))
    BY <1>8 DEF Advance, AnnounceCommit
  <2>2. /\ stage[o] \notin {"inert", "exit"}
        /\ UNCHANGED <<ack, peer, input, reader>>
    BY <1>8 DEF Advance, AnnounceCommit
  <2>3. Event("progress", v) \in Events /\ Event("progress", v).kind = "progress"
    BY EventTypes, EventKinds
  <2>4. QED
    BY <2>1, <2>2, <2>3, FlowLine
<1>9. CASE WriteTerminal(o)
  <2>1. stage[o] = "terminal" /\ stage'[o] = "exit" /\ res[o] \in Results
    BY <1>9 DEF WriteTerminal, StageTo, TypeInv, ResultKnown
  <2>2. PICK r \in Results : r = res[o]
    BY <2>1
  <2>3. Event("terminal", r) \in Events /\ Event("terminal", r).kind = "terminal"
    BY EventTypes, EventKinds
  <2>4. Emit(o, Event("terminal", r)) /\ UNCHANGED <<ack, peer, input, reader>>
    BY <1>9, <2>2 DEF WriteTerminal
  <2>5. QED
    BY <2>1, <2>3, <2>4, FlowLine
<1>10. QED
  BY <1>1, <1>2, <1>3, <1>4, <1>5, <1>6, <1>7, <1>8, <1>9
     DEF SidecarStep, ReaderStep, MainStep, FlowStep

\* The steps of one sidecar leave the pipes of the others alone.
LEMMA SidecarApart ==
  ASSUME TypeOK, NEW o \in Logins, SidecarStep(o), NEW q \in Logins \ {o}
  PROVE  UNCHANGED <<ctl[q], stage[q], reader[q], ack[q], peer[q], input[q],
                     output[q]>>
BY DEF SidecarStep, ReaderStep, MainStep, FlowStep, ReadStart, AuthorizeStart,
       ReadCancel, WriteCancelAck, ReadEof, LeaveInert, FlowCancelled,
       AnnounceCommit, StoreCredentials, FinishControl, WriteTerminal, Exit,
       Advance, FlowFails, BeginCommit, Die, Emit, StageTo, CancelControl,
       Consume, TypeOK, SidecarTypeOK

-----------------------------------------------------------------------------
(* Steps of the Desktop.                                                    *)

LEMMA PipeInit == Init => PipeInv
<1> SUFFICES ASSUME Init, NEW o \in Logins PROVE Pipe(o)
    BY DEF PipeInv
<1>1. /\ lpc[o] = "idle" /\ ~sent[o] /\ term[o] = "none" /\ Fresh(o)
      /\ input[o] = <<>> /\ peer[o] = "open" /\ ack[o] = "none"
  BY DEF Init, SidecarInit, Fresh
<1>2. QED
  BY <1>1, Empty DEF Pipe, StartPipe, CancelPipe, FlowPipe, Fresh, Unstarted

\* A worker moves on within one part of its life.
LEMMA WorkerMoves ==
  ASSUME NEW o \in Logins, Pipe(o),
         UNCHANGED <<sent[o], term[o], ctl[o], stage[o], reader[o], ack[o],
                     peer[o], input[o], output[o]>>,
         \/ lpc[o] \in Unstarted /\ lpc'[o] \in Unstarted
         \/ lpc[o] \in {"acked", "watch"} /\ lpc'[o] \in {"acked", "watch"}
              /\ (lpc[o] = "watch" => lpc'[o] = "watch")
         \/ lpc[o] = "reaped" /\ lpc'[o] = "closing"
  PROVE  Pipe(o)'
BY DEF Pipe, StartPipe, CancelPipe, FlowPipe, Fresh, HasEvent, Unstarted,
       Served, Early, Starting

\* A worker returns, its child waited for or never born.
LEMMA WorkerEnds ==
  ASSUME TypeOK, NEW o \in Logins, Pipe(o), WorkerReturns(o),
         \/ Wait(o)
         \/ UNCHANGED <<ctl, stage, reader, ack, peer, input, output>>
  PROVE  Pipe(o)'
<1>1. lpc'[o] = "done" /\ ~sent'[o] /\ term'[o] = "none"
  BY DEF WorkerReturns, LoginTo, TypeOK
<1>2. StartPipe(o)'
  BY <1>1, Empty DEF Pipe, StartPipe, Wait, TypeOK, SidecarTypeOK, Unstarted,
                     Early, Starting
<1>3. CancelPipe(o)'
  BY <1>1 DEF CancelPipe, Served, Unstarted, Early, Starting
<1>4. FlowPipe(o)'
  BY <1>1, Empty DEF Pipe, FlowPipe, Wait, TypeOK, SidecarTypeOK
<1>5. QED
  BY <1>2, <1>3, <1>4 DEF Pipe

LEMMA PipeStart ==
  ASSUME TypeOK, NEW o \in Logins, Pipe(o), BeginLogin(o) \/ StartStep(o)
  PROVE  Pipe(o)'
<1> /\ output \in [Logins -> Seq(Events)] /\ output[o] \in Seq(Events)
    /\ input \in [Logins -> Seq({"start", "cancel"})]
    /\ lpc \in [Logins -> LPCs]
    BY DEF TypeOK, SidecarTypeOK
<1> USE DEF LoginTo, sidecar
<1>1. CASE BeginLogin(o) \/ OpenReceipt(o) \/ SetPid(o) \/ BindIdentity(o)
  BY <1>1, WorkerMoves
     DEF BeginLogin, OpenReceipt, SetPid, BindIdentity, Unstarted, Early,
         Starting
<1>2. CASE SpawnSidecar(o)
  BY <1>2, WorkerMoves DEF SpawnSidecar, Unstarted, Early, Starting
<1>3. CASE CheckpointStart(o)
  BY <1>3, WorkerMoves
     DEF CheckpointStart, AfterReceipt, Unstarted, Early, Starting
<1>4. CASE AuthorizeLoginStart(o)
  <2>1. lpc[o] = "authorize" /\ lpc'[o] = "ack"
    BY <1>4 DEF AuthorizeLoginStart
  <2>2. Fresh(o) /\ input[o] = <<>> /\ ~sent[o] /\ term[o] = "none"
    BY <2>1 DEF Pipe, StartPipe, CancelPipe, FlowPipe, Unstarted, Early, Starting
  <2>3. /\ input'[o] = Append(<<>>, "start")
        /\ UNCHANGED <<ctl, stage, reader, output, ack, peer, sent, term>>
    BY <1>4, <2>2 DEF AuthorizeLoginStart
  <2>4. input'[o] = <<"start">>
    BY <2>3
  <2>5. StartPipe(o)'
    BY <2>1, <2>2, <2>3, <2>4 DEF StartPipe, Fresh, Unstarted, Early, Starting
  <2>6. CancelPipe(o)'
    BY <2>1, <2>2, <2>3, <2>4
       DEF Pipe, CancelPipe, NoCommand, Served, Unstarted, Early, Starting
  <2>7. FlowPipe(o)'
    BY <2>2, <2>3 DEF Pipe, FlowPipe
  <2>8. QED
    BY <2>5, <2>6, <2>7 DEF Pipe
<1>5. CASE ReadStartAck(o)
  <2>1. /\ lpc[o] = "ack" /\ lpc'[o] = "acked"
        /\ output[o] # <<>> /\ output'[o] = Tail(output[o])
        /\ UNCHANGED <<ctl, stage, reader, input, ack, peer, sent, term>>
    BY <1>5 DEF ReadStartAck, HasEvent
  <2>2. /\ reader[o] # "new" /\ Lacks(output'[o], {"start_ack"})
        /\ NoCommand(input[o], "start")
    BY <2>1 DEF Pipe, StartPipe, Fresh
  <2>3. StartPipe(o)'
    BY <2>1, <2>2 DEF StartPipe, Unstarted, Early, Starting
  <2>4. CancelPipe(o)'
    BY <2>1, TailLacks DEF Pipe, CancelPipe, Served
  <2>5. FlowPipe(o)'
    <3>1. term[o] = "none"
      BY <2>1 DEF Pipe, FlowPipe
    <3>2. FlowEnds(output'[o])
      BY <2>1, TailEnds DEF Pipe, FlowPipe
    <3>3. stage[o] # "exit" => Lacks(output'[o], {"terminal"})
      BY <2>1, TailLacks DEF Pipe, FlowPipe
    <3>4. QED
      BY <2>1, <3>1, <3>2, <3>3 DEF FlowPipe
  <2>6. QED
    BY <2>3, <2>4, <2>5 DEF Pipe
<1>6. CASE StartFails(o)
  BY <1>6, WorkerEnds DEF StartFails, StopChild
<1>7. QED
  BY <1>1, <1>2, <1>3, <1>4, <1>5, <1>6 DEF StartStep

LEMMA PipeReadEvent ==
  ASSUME TypeOK, NEW o \in Logins, Pipe(o), ReadEvent(o)
  PROVE  Pipe(o)'
<1> /\ output \in [Logins -> Seq(Events)] /\ output[o] \in Seq(Events)
    /\ term \in [Logins -> Results \cup {"none"}]
    BY DEF TypeOK, SidecarTypeOK
<1>1. /\ lpc[o] = "watch" /\ output[o] # <<>>
      /\ output'[o] = Tail(output[o])
      /\ UNCHANGED <<ctl, stage, reader, input, ack, peer, sent, lpc>>
      /\ term'[o] = IF Head(output[o]).kind = "terminal"
                    THEN Head(output[o]).val ELSE term[o]
  BY DEF ReadEvent
<1>2. StartPipe(o)'
  BY <1>1, TailLacks DEF Pipe, StartPipe, Unstarted, Early, Starting
<1>3. CancelPipe(o)'
  BY <1>1, TailLacks DEF Pipe, CancelPipe
<1>4. FlowPipe(o)'
  <2>1. FlowEnds(output'[o])
    BY <1>1, TailEnds DEF Pipe, FlowPipe
  <2>2. stage[o] # "exit" => Lacks(output'[o], {"terminal"})
    BY <1>1, TailLacks DEF Pipe, FlowPipe
  <2>3. CASE Head(output[o]).kind = "terminal"
    <3>1. stage[o] = "exit"
      BY <1>1, <2>3, TailKeeps DEF Pipe, FlowPipe, Lacks
    <3>2. Lacks(output'[o], {"progress", "terminal"})
      BY <1>1, <2>3, TailEnds DEF Pipe, FlowPipe
    <3>3. QED
      BY <1>1, <2>1, <2>2, <3>1, <3>2 DEF FlowPipe
  <2>4. CASE Head(output[o]).kind # "terminal"
    <3>1. term'[o] = term[o]
      BY <1>1, <2>4
    <3>2. term[o] # "none" => Lacks(output'[o], {"progress", "terminal"})
      BY <1>1, TailLacks DEF Pipe, FlowPipe
    <3>3. QED
      BY <1>1, <2>1, <2>2, <3>1, <3>2 DEF Pipe, FlowPipe
  <2>5. QED
    BY <2>3, <2>4
<1>5. QED
  BY <1>2, <1>3, <1>4 DEF Pipe

LEMMA PipeWatch ==
  ASSUME TypeOK, NEW o \in Logins, Pipe(o), WatchStep(o)
  PROVE  Pipe(o)'
<1> /\ output \in [Logins -> Seq(Events)] /\ output[o] \in Seq(Events)
    /\ input \in [Logins -> Seq({"start", "cancel"})]
    /\ input[o] \in Seq({"start", "cancel"})
    /\ lpc \in [Logins -> LPCs]
    BY DEF TypeOK, SidecarTypeOK
<1> USE DEF LoginTo, sidecar
<1>1. CASE SendCancel(o)
  <2>1. /\ lpc[o] = "watch" /\ sent'[o]
        /\ input'[o] = Append(input[o], "cancel")
        /\ UNCHANGED <<ctl, stage, reader, output, ack, lpc, term>>
    BY <1>1 DEF SendCancel, TypeOK
  <2>2. NoCommand(input'[o], "start")
    <3>1. NoCommand(input[o], "start")
      BY <2>1 DEF Pipe, StartPipe
    <3>2. "cancel" \in {"start", "cancel"} /\ "cancel" # "start"
      OBVIOUS
    <3>3. NoCommand(Append(input[o], "cancel"), "start")
      BY <3>1, <3>2, CommandLeaves
    <3>4. QED
      BY <2>1, <3>3
  <2>3. StartPipe(o)'
    BY <2>1, <2>2 DEF Pipe, StartPipe, Unstarted, Early, Starting
  <2>4. CancelPipe(o)' /\ FlowPipe(o)'
    BY <2>1 DEF Pipe, CancelPipe, FlowPipe
  <2>5. QED
    BY <2>3, <2>4 DEF Pipe
<1>2. ASSUME NEW r, Reaped(o, r), lpc[o] = "watch" PROVE Pipe(o)'
  <2>1. /\ lpc'[o] = "reaped" /\ UNCHANGED <<sent, term>>
        /\ stage'[o] = "exit" /\ reader'[o] = "done"
        /\ input'[o] = <<>> /\ output'[o] = <<>>
    BY <1>2 DEF Reaped, Wait, TypeOK, SidecarTypeOK
  <2>2. QED
    BY <2>1, Empty
       DEF Pipe, StartPipe, CancelPipe, FlowPipe, Served, Unstarted, Early,
           Starting
<1>3. CASE SendCancelFails(o) \/ ReapSidecar(o) \/ Watchdog(o)
  BY <1>2, <1>3 DEF SendCancelFails, ReapSidecar, Watchdog
<1>4. CASE ReadEvent(o)
  BY <1>4, PipeReadEvent
<1>5. CASE LoginDeadline(o)
  BY <1>5, PipeFrame DEF LoginDeadline, worker
<1>6. CASE ClearPid(o)
  BY <1>6, WorkerMoves DEF ClearPid
<1>7. CASE FinishLogin(o)
  BY <1>7, WorkerEnds DEF FinishLogin
<1>8. QED
  BY <1>1, <1>3, <1>4, <1>5, <1>6, <1>7 DEF WatchStep

\* A worker's step leaves the pipes of the other logins alone.
LEMMA WorkerApart ==
  ASSUME TypeOK, NEW o \in Logins, NEW q \in Logins \ {o},
         BeginLogin(o) \/ StartStep(o) \/ WatchStep(o)
  PROVE  UNCHANGED <<lpc[q], sent[q], term[q], ctl[q], stage[q], reader[q],
                     ack[q], peer[q], input[q], output[q]>>
<1> USE DEF TypeOK, SidecarTypeOK, LoginTo, sidecar, worker, Wait, StopChild
<1>1. CASE BeginLogin(o)
  BY <1>1 DEF BeginLogin
<1>2. CASE StartStep(o)
  BY <1>2
     DEF StartStep, OpenReceipt, SpawnSidecar, SetPid, BindIdentity,
         CheckpointStart, AuthorizeLoginStart, ReadStartAck, StartFails,
         WorkerReturns
<1>3. CASE WatchStep(o)
  BY <1>3
     DEF WatchStep, SendCancel, SendCancelFails, ReapSidecar, Watchdog, Reaped,
         ReadEvent, LoginDeadline, ClearPid, FinishLogin, WorkerReturns
<1>4. QED
  BY <1>1, <1>2, <1>3

LEMMA PipeStep == TypeInv /\ ChildInv /\ PipeInv /\ [Next]_vars => PipeInv'
<1> SUFFICES ASSUME TypeInv, ChildInv, PipeInv, [Next]_vars, Up',
                    NEW q \in Logins
             PROVE  Pipe(q)'
    BY DEF PipeInv
<1> TypeOK
    BY DEF TypeInv
<1>u. Up
  <2>1. xpc = "gone" => xpc' = "gone"
    BY DEF Next, vars, Sidecar, BeginLogin, StartStep, OpenReceipt,
           SpawnSidecar, SetPid, BindIdentity, CheckpointStart,
           AuthorizeLoginStart, ReadStartAck, StartFails, WatchStep,
           SendCancel, SendCancelFails, ReapSidecar, Watchdog, Reaped,
           ReadEvent, LoginDeadline, ClearPid, FinishLogin, CancelAnswered,
           CancelAsks, BeginPreflight, BeginMutation, TaskStep, RegisterStatus,
           AwaitStatus, PromoteToProof, ReleaseProof, ReleaseMutation,
           CancelReturns, ExitBegins, ExitStep, ExitSignals, ExitLeaves, Crash,
           Gone
  <2>2. QED
    BY <2>1 DEF Up
<1>p. Pipe(q)
  BY <1>u DEF PipeInv
<1>1. ASSUME NEW o \in Logins, BeginLogin(o) \/ StartStep(o) \/ WatchStep(o)
      PROVE  Pipe(q)'
  <2>1. CASE q = o
    BY <1>1, <1>p, <2>1, PipeStart, PipeWatch
  <2>2. CASE q # o
    BY <1>1, <1>p, <2>2, WorkerApart, PipeFrame
  <2>3. QED
    BY <2>1, <2>2
<1>2. ASSUME NEW o \in Logins, Sidecar(o) PROVE Pipe(q)'
  <2>1. SidecarStep(o) /\ UNCHANGED <<lpc, sent, term>>
    BY <1>2 DEF Sidecar, worker
  <2>2. CASE q = o
    BY <1>p, <2>1, <2>2, SidecarPipe
  <2>3. CASE q # o
    BY <1>p, <2>1, <2>3, SidecarApart, PipeFrame
  <2>4. QED
    BY <2>2, <2>3
<1>3. ASSUME NEW o \in Logins, CancelAnswered(o) \/ CancelAsks(o)
      PROVE  Pipe(q)'
  BY <1>3, <1>p, PipeFrame DEF CancelAnswered, CancelAsks, worker, sidecar
<1>4. ASSUME NEW u \in Tasks,
             BeginPreflight(u) \/ BeginMutation(u) \/ TaskStep(u)
      PROVE  Pipe(q)'
  BY <1>4, <1>p, PipeFrame
     DEF BeginPreflight, BeginMutation, TaskStep, RegisterStatus, AwaitStatus,
         PromoteToProof, ReleaseProof, ReleaseMutation, worker, sidecar
<1>5. CASE CancelReturns \/ ExitBegins \/ ExitSignals \/ UNCHANGED vars
  BY <1>5, <1>p, PipeFrame
     DEF CancelReturns, ExitBegins, ExitSignals, vars, worker, sidecar
<1>6. CASE ExitLeaves \/ Crash
  BY <1>6 DEF ExitLeaves, Crash, Gone, Up
<1>7. QED
  BY <1>1, <1>2, <1>3, <1>4, <1>5, <1>6 DEF Next, ExitStep

LEMMA PipesHold == Spec => [](TypeInv /\ PipeInv)
<1>1. TypeInv => TypeOK
  BY DEF TypeInv
<1>2. QED
  BY <1>1, Reserved, ChildInit, ChildStep, PipeInit, PipeStep, PTL DEF Spec

\* The strict parser never meets an event out of place, although the reader
\* and the main thread of a sidecar write to the same pipe and a cancel, a
\* commit and the end of the flow race each other.
THEOREM EventsStayInPlace == Spec => []EventsInPlace
<1>1. TypeInv /\ PipeInv => EventsInPlace
  <2> SUFFICES ASSUME TypeInv, PipeInv, NEW o \in Logins, Up, output[o] # <<>>
               PROVE  /\ lpc[o] = "watch" => Acceptable(o)
                      /\ lpc[o] = "ack" => HasEvent(o, "start_ack")
      BY DEF EventsInPlace
  <2>1. Pipe(o) /\ output[o] \in Seq(Events)
    BY DEF PipeInv, TypeInv, TypeOK, SidecarTypeOK
  <2>2. lpc[o] = "ack" => HasEvent(o, "start_ack")
    BY <2>1 DEF Pipe, StartPipe, Fresh
  <2>3. ASSUME lpc[o] = "watch" PROVE Acceptable(o)
    <3>1. /\ Head(output[o]) \in Events
          /\ \A K : Lacks(output[o], K) => Head(output[o]).kind \notin K
      BY <2>1, TailKeeps DEF Lacks
    <3>2. Head(output[o]).kind
            \in {"start_ack", "progress", "cancel_ack", "terminal"}
      BY <3>1 DEF Events
    <3>3. Head(output[o]).kind # "start_ack"
      BY <2>1, <2>3, <3>1 DEF Pipe, StartPipe
    <3>4. Head(output[o]).kind = "cancel_ack" => sent[o]
      BY <2>1, <2>3, <3>1 DEF Pipe, CancelPipe, Served
    <3>5. Head(output[o]).kind \in {"progress", "terminal"} => term[o] = "none"
      BY <2>1, <3>1 DEF Pipe, FlowPipe
    <3>6. QED
      BY <3>2, <3>3, <3>4, <3>5 DEF Acceptable
  <2>4. QED
    BY <2>2, <2>3
<1>2. QED
  BY <1>1, PipesHold, PTL
=============================================================================
