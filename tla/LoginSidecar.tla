---------------------------- MODULE LoginSidecar ----------------------------
(***************************************************************************)
(* The login sidecar: the child process `csswitch-gateway codex-auth       *)
(* login-browser` (gateway/src/codex_auth/cli.rs and login_async.rs), seen  *)
(* through its two pipes.  Its main thread runs the OAuth flow, its control *)
(* reader thread answers start and cancel; they meet in the atomic          *)
(* LoginControl, and both write events to the same stdout.                  *)
(***************************************************************************)
EXTENDS Naturals, Sequences

CONSTANT MaxLogins    \* bound on login operations, each with its own child

ASSUME LoginsAssumption == MaxLogins \in Nat

Logins == 1..MaxLogins

Dispositions == {"accepted", "commit_in_progress", "already_terminal"}
Results      == {"succeeded", "failed", "cancelled"}

\* LoginControl.state
Controls == {"waiting_start", "running", "cancelled", "committing", "finished"}

\* StreamingEvent: what a line on stdout says.
Events == [kind : {"start_ack"}, val : {"start"}]
            \cup [kind : {"progress"}, val : {"waiting", "exchanging", "committing"}]
            \cup [kind : {"cancel_ack"}, val : Dispositions]
            \cup [kind : {"terminal"}, val : Results]

Event(k, v) == [kind |-> k, val |-> v]

VARIABLES
  proc,    \* the child: unborn, alive, exited, killed (by a signal) or reaped
  peer,    \* its parent's ends: open, stdin closed ("half"), or gone
  input,   \* stdin: command lines not yet read
  output,  \* stdout: events not yet read
  ctl,     \* LoginControl
  stage,   \* program point of the main thread
  res,     \* what its flow came to
  reader,  \* program point of the control reader
  ack,     \* the cancel disposition the reader is about to write
  stored   \* logins whose credentials are committed to disk

sidecar == <<proc, peer, input, output, ctl, stage, res, reader, ack, stored>>

Stages  == {"inert", "open", "waiting", "exchanging", "commit", "store",
            "finish", "terminal", "exit"}
Flow    == {"open", "waiting", "exchanging"}
Readers == {"new", "granting", "authorized", "done"}

SidecarTypeOK ==
  /\ proc \in [Logins -> {"unborn", "alive", "exited", "killed", "reaped"}]
  /\ peer \in [Logins -> {"open", "half", "gone"}]
  /\ input \in [Logins -> Seq({"start", "cancel"})]
  /\ output \in [Logins -> Seq(Events)]
  /\ ctl \in [Logins -> Controls]
  /\ stage \in [Logins -> Stages]
  /\ res \in [Logins -> Results \cup {"none"}]
  /\ reader \in [Logins -> Readers]
  /\ ack \in [Logins -> Dispositions \cup {"none"}]
  /\ stored \subseteq Logins

SidecarInit ==
  /\ proc = [o \in Logins |-> "unborn"]
  /\ peer = [o \in Logins |-> "open"]
  /\ input = [o \in Logins |-> <<>>]
  /\ output = [o \in Logins |-> <<>>]
  /\ ctl = [o \in Logins |-> "waiting_start"]
  /\ stage = [o \in Logins |-> "inert"]
  /\ res = [o \in Logins |-> "none"]
  /\ reader = [o \in Logins |-> "new"]
  /\ ack = [o \in Logins |-> "none"]
  /\ stored = {}

Alive(o) == proc[o] = "alive"
\* The child has stopped, and nobody has waited for it yet.
Zombie(o) == proc[o] \in {"exited", "killed"}

\* A line is lost when nobody holds the other end of stdout.
Emit(o, e) ==
  output' = IF peer[o] = "gone" THEN output
            ELSE [output EXCEPT ![o] = Append(@, e)]

StageTo(o, s) == stage' = [stage EXCEPT ![o] = s]
EndsAs(o, r)  == res' = [res EXCEPT ![o] = r]

-----------------------------------------------------------------------------
(* LoginControl::cancel, which both a cancel line and a broken stdin call.  *)

CancelAnswer(o) ==
  CASE ctl[o] \in {"running", "waiting_start", "cancelled"} -> "accepted"
    [] ctl[o] = "committing" -> "commit_in_progress"
    [] OTHER -> "already_terminal"

CancelControl(o) ==
  ctl' = [ctl EXCEPT ![o] =
            IF @ \in {"running", "waiting_start"} THEN "cancelled" ELSE @]

-----------------------------------------------------------------------------
(* The control reader thread.                                               *)

Listening(o) == /\ Alive(o)
                /\ reader[o] \in {"new", "authorized"}
                /\ ack[o] = "none"

HasLine(o, c) == input[o] # <<>> /\ Head(input[o]) = c
Consume(o)    == input' = [input EXCEPT ![o] = Tail(@)]

\* acknowledge_and_authorize_start: the flushed ack comes first.
ReadStart(o) ==
  /\ Listening(o) /\ reader[o] = "new" /\ HasLine(o, "start")
  /\ Consume(o)
  /\ IF peer[o] = "gone"
     THEN /\ CancelControl(o)
          /\ reader' = [reader EXCEPT ![o] = "done"]
          /\ UNCHANGED output
     ELSE /\ Emit(o, Event("start_ack", "start"))
          /\ reader' = [reader EXCEPT ![o] = "granting"]
          /\ UNCHANGED ctl
  /\ UNCHANGED <<proc, peer, stage, res, ack, stored>>

AuthorizeStart(o) ==
  /\ Alive(o) /\ reader[o] = "granting"
  /\ ctl' = [ctl EXCEPT ![o] = IF @ = "waiting_start" THEN "running" ELSE @]
  /\ reader' = [reader EXCEPT ![o] = IF ctl[o] = "waiting_start"
                                     THEN "authorized" ELSE "done"]
  /\ UNCHANGED <<proc, peer, input, output, stage, res, ack, stored>>

ReadCancel(o) ==
  /\ Listening(o) /\ HasLine(o, "cancel")
  /\ Consume(o)
  /\ CancelControl(o)
  /\ ack' = [ack EXCEPT ![o] = CancelAnswer(o)]
  /\ UNCHANGED <<proc, peer, output, stage, res, reader, stored>>

\* The barrier is decided before its answer is written: the main thread, or
\* the end of the process, may come in between.
WriteCancelAck(o) ==
  /\ Alive(o) /\ ack[o] # "none"
  /\ Emit(o, Event("cancel_ack", ack[o]))
  /\ ack' = [ack EXCEPT ![o] = "none"]
  /\ reader' = [reader EXCEPT ![o] = IF @ = "authorized" THEN @ ELSE "done"]
  /\ UNCHANGED <<proc, peer, input, ctl, stage, res, stored>>

\* Mutant: the end of input only ends the reader.
ReadEof_Quiet(o) ==
  /\ Listening(o)
  /\ input[o] = <<>> /\ peer[o] # "open"
  /\ reader' = [reader EXCEPT ![o] = "done"]
  /\ UNCHANGED <<proc, peer, input, output, ctl, stage, res, ack, stored>>

\* End of input: the parent closed its end, or is gone.
ReadEof(o) ==
  /\ Listening(o)
  /\ input[o] = <<>> /\ peer[o] # "open"
  /\ CancelControl(o)
  /\ reader' = [reader EXCEPT ![o] = "done"]
  /\ UNCHANGED <<proc, peer, input, output, stage, res, ack, stored>>

-----------------------------------------------------------------------------
(* The main thread: run_production_login and its terminal line.             *)

\* Mutant: the flow does not wait for its start.
LeaveInert_Eager(o) ==
  /\ Alive(o) /\ stage[o] = "inert"
  /\ IF ctl[o] = "cancelled"
     THEN EndsAs(o, "cancelled") /\ StageTo(o, "terminal")
     ELSE StageTo(o, "open") /\ UNCHANGED res
  /\ UNCHANGED <<proc, peer, input, output, ctl, reader, ack, stored>>

\* await_start
LeaveInert(o) ==
  /\ Alive(o) /\ stage[o] = "inert" /\ ctl[o] # "waiting_start"
  /\ IF ctl[o] = "cancelled"
     THEN EndsAs(o, "cancelled") /\ StageTo(o, "terminal")
     ELSE StageTo(o, "open") /\ UNCHANGED res
  /\ UNCHANGED <<proc, peer, input, output, ctl, reader, ack, stored>>

\* The browser is open; later, its callback brings a code.
Advance(o) ==
  /\ Alive(o) /\ stage[o] \in {"open", "waiting"}
  /\ LET next == IF stage[o] = "open" THEN "waiting" ELSE "exchanging" IN
       StageTo(o, next) /\ Emit(o, Event("progress", next))
  /\ UNCHANGED <<proc, peer, input, ctl, res, reader, ack, stored>>

\* A denied, failed or timed-out flow.  A client that cannot be built returns
\* before the control is marked finished.
FlowFails(o) ==
  /\ Alive(o) /\ stage[o] \in Flow
  /\ EndsAs(o, "failed")
  /\ \/ StageTo(o, "finish")
     \/ stage[o] = "open" /\ StageTo(o, "terminal")
  /\ UNCHANGED <<proc, peer, input, output, ctl, reader, ack, stored>>

\* Every wait of the flow also waits for the cancellation.
FlowCancelled(o) ==
  /\ Alive(o) /\ stage[o] \in Flow /\ ctl[o] = "cancelled"
  /\ EndsAs(o, "cancelled")
  /\ StageTo(o, "finish")
  /\ UNCHANGED <<proc, peer, input, output, ctl, reader, ack, stored>>

\* Mutant: the control is read and written in two steps; the write wins.
BeginCommit_Blind(o) ==
  /\ Alive(o) /\ stage[o] = "exchanging"
  /\ ctl' = [ctl EXCEPT ![o] = "committing"]
  /\ StageTo(o, "commit")
  /\ UNCHANGED <<proc, peer, input, output, res, reader, ack, stored>>

\* begin_commit: the one compare-and-exchange a cancel races.
BeginCommit(o) ==
  /\ Alive(o) /\ stage[o] = "exchanging" /\ ctl[o] = "running"
  /\ ctl' = [ctl EXCEPT ![o] = "committing"]
  /\ StageTo(o, "commit")
  /\ UNCHANGED <<proc, peer, input, output, res, reader, ack, stored>>

AnnounceCommit(o) ==
  /\ Alive(o) /\ stage[o] = "commit"
  /\ Emit(o, Event("progress", "committing"))
  /\ StageTo(o, "store")
  /\ UNCHANGED <<proc, peer, input, ctl, res, reader, ack, stored>>

\* commit_login_guarded: the state marker, written last, makes it atomic.
StoreCredentials(o) ==
  /\ Alive(o) /\ stage[o] = "store"
  /\ \/ stored' = stored \cup {o} /\ EndsAs(o, "succeeded")
     \/ EndsAs(o, "failed") /\ UNCHANGED stored
  /\ StageTo(o, "finish")
  /\ UNCHANGED <<proc, peer, input, output, ctl, reader, ack>>

FinishControl(o) ==
  /\ Alive(o) /\ stage[o] = "finish"
  /\ ctl' = [ctl EXCEPT ![o] = "finished"]
  /\ StageTo(o, "terminal")
  /\ UNCHANGED <<proc, peer, input, output, res, reader, ack, stored>>

WriteTerminal(o) ==
  /\ Alive(o) /\ stage[o] = "terminal"
  /\ Emit(o, Event("terminal", res[o]))
  /\ StageTo(o, "exit")
  /\ UNCHANGED <<proc, peer, input, ctl, res, reader, ack, stored>>

\* The process ends with its main thread; a pending ack is never written.
Exit(o) ==
  /\ Alive(o) /\ stage[o] = "exit"
  /\ proc' = [proc EXCEPT ![o] = "exited"]
  /\ UNCHANGED <<peer, input, output, ctl, stage, res, reader, ack, stored>>

\* A panic, or an error code without a terminal line.
Die(o) ==
  /\ Alive(o) /\ stage[o] # "exit"
  /\ proc' = [proc EXCEPT ![o] = "exited"]
  /\ UNCHANGED <<peer, input, output, ctl, stage, res, reader, ack, stored>>

\* Its parent has waited for it and dropped its pipes: nothing is left of the
\* process but what it stored and how its control was decided.
Wait(o) ==
  /\ proc' = [proc EXCEPT ![o] = "reaped"]
  /\ peer' = [peer EXCEPT ![o] = "gone"]
  /\ input' = [input EXCEPT ![o] = <<>>]
  /\ output' = [output EXCEPT ![o] = <<>>]
  /\ stage' = [stage EXCEPT ![o] = "exit"]
  /\ res' = [res EXCEPT ![o] = "none"]
  /\ reader' = [reader EXCEPT ![o] = "done"]
  /\ ack' = [ack EXCEPT ![o] = "none"]
  /\ UNCHANGED <<ctl, stored>>

-----------------------------------------------------------------------------

ReaderStep(o) ==
  \/ ReadStart(o) \/ AuthorizeStart(o) \/ ReadCancel(o) \/ WriteCancelAck(o)
  \/ ReadEof(o)

\* The main thread, without the steps that wait for the user or the network.
MainStep(o) ==
  \/ LeaveInert(o) \/ FlowCancelled(o) \/ AnnounceCommit(o)
  \/ StoreCredentials(o) \/ FinishControl(o) \/ WriteTerminal(o) \/ Exit(o)

FlowStep(o) == Advance(o) \/ FlowFails(o) \/ BeginCommit(o) \/ Die(o)

SidecarStep(o) == ReaderStep(o) \/ MainStep(o) \/ FlowStep(o)

=============================================================================
