------------------------- MODULE CodexAuthSupervisor -------------------------
(***************************************************************************)
(* Provider authentication in the Desktop: the supervisor's reservations   *)
(* (codex_auth_supervisor.rs), the worker that starts and watches a login   *)
(* sidecar (commands/codex.rs), the user who cancels it, and the native     *)
(* exit that cancels everything (lib.rs).  The sidecar itself is            *)
(* LoginSidecar.                                                            *)
(*                                                                          *)
(* Every method of the supervisor runs under its mutex and is one action;   *)
(* cancel() and the exit wait on its condition variable, in between.        *)
(***************************************************************************)
EXTENDS LoginSidecar

CONSTANTS Tasks,  \* threads that run a preflight or another auth mutation
          None    \* no preflight reservation

ASSUME TasksAssumption == None \notin Tasks

NoLogin == 0      \* operation ids are fresh: a login is named by its number

VARIABLES
  \* SupervisorInner
  login,      \* active_login, or NoLogin
  preflight,  \* active_preflight: its holder, or None
  mutation,   \* other_mutation
  users,      \* codex_users
  shutting,   \* shutting_down
  last,       \* last_snapshot of a login: its id and state
  \* the record of a login (meaningful while login = o)
  cancel,     \* the shared cancel flag
  pid, ident, \* is the child registered, is its identity bound
  disp,       \* cancel_disposition
  snap,       \* state of its own snapshot
  pfCancel,   \* cancel flag of the active preflight
  \* threads
  lpc,        \* the worker of a login
  sent, term, outcome, \* cancel_sent, the terminal event, what was concluded
  acked,      \* accepted_at is set: the watchdog runs
  upc,        \* the other tasks
  cpc,        \* the cancel command: idle or the login it waits on
  told,       \* its last answer since a login began: about which login, and what
  xpc,        \* the native exit
  \* durable
  receipt     \* auth state of the login's config-mutation receipt

record  == <<cancel, pid, ident, disp, snap>>
inner   == <<login, preflight, mutation, users, shutting, last>>
worker  == <<lpc, sent, term, outcome, acked, receipt>>
others  == <<upc, pfCancel>>
user    == <<cpc, told>>
vars    == <<sidecar, inner, record, worker, others, user, xpc>>

Starting == {"reserved", "spawn", "register", "bind", "inert", "prepare",
             "authorize", "ack", "acked"}
LPCs     == {"idle"} \cup Starting \cup {"watch", "reaped", "closing", "done"}
SnapStates == {"starting", "waiting", "exchanging", "committing"}
Receipts == {"none", "reserved", "spawned_inert", "start_prepared",
             "start_authorized", "terminal"}
UPCs == {"idle", "pf_spawn", "pf_wait", "pf_done", "use", "mutate"}
Exits == {"running", "wait", "term", "kill", "gone"}

TypeOK ==
  /\ SidecarTypeOK
  /\ login \in Logins \cup {NoLogin}
  /\ preflight \in Tasks \cup {None}
  /\ mutation \in BOOLEAN
  /\ users \in Nat
  /\ shutting \in BOOLEAN
  /\ last \in [id : Logins \cup {NoLogin}, state : SnapStates \cup Results]
  /\ cancel \in [Logins -> BOOLEAN]
  /\ pid \in [Logins -> BOOLEAN]
  /\ ident \in [Logins -> BOOLEAN]
  /\ disp \in [Logins -> Dispositions \cup {"none"}]
  /\ snap \in [Logins -> SnapStates]
  /\ pfCancel \in BOOLEAN
  /\ lpc \in [Logins -> LPCs]
  /\ sent \in [Logins -> BOOLEAN]
  /\ term \in [Logins -> Results \cup {"none"}]
  /\ outcome \in [Logins -> Results \cup {"none", "error"}]
  /\ acked \in [Logins -> BOOLEAN]
  /\ upc \in [Tasks -> UPCs]
  /\ cpc \in Logins \cup {NoLogin}
  /\ told \in [id : Logins \cup {NoLogin}, answer : Dispositions]
  /\ xpc \in Exits
  /\ receipt \in [Logins -> Receipts]

\* The receipts that tell the next start of the Desktop of a login's work.
Durable == {"start_prepared", "start_authorized", "terminal"}

NoSnapshot == [id |-> NoLogin, state |-> "starting"]
NoAnswer   == [id |-> NoLogin, answer |-> "accepted"]

Init ==
  /\ SidecarInit
  /\ login = NoLogin
  /\ preflight = None
  /\ mutation = FALSE
  /\ users = 0
  /\ shutting = FALSE
  /\ last = NoSnapshot
  /\ cancel = [o \in Logins |-> FALSE]
  /\ pid = [o \in Logins |-> FALSE]
  /\ ident = [o \in Logins |-> FALSE]
  /\ disp = [o \in Logins |-> "none"]
  /\ snap = [o \in Logins |-> "starting"]
  /\ pfCancel = FALSE
  /\ lpc = [o \in Logins |-> "idle"]
  /\ sent = [o \in Logins |-> FALSE]
  /\ term = [o \in Logins |-> "none"]
  /\ outcome = [o \in Logins |-> "none"]
  /\ acked = [o \in Logins |-> FALSE]
  /\ upc = [u \in Tasks |-> "idle"]
  /\ cpc = NoLogin
  /\ told = NoAnswer
  /\ xpc = "running"
  /\ receipt = [o \in Logins |-> "none"]

Up == xpc # "gone"

\* Mutant: a ready proof in use does not keep a new reservation away.
Free_DespiteUsers == /\ ~shutting
                     /\ login = NoLogin /\ preflight = None /\ ~mutation

\* The guard every begin_* shares.
Free == /\ ~shutting
        /\ login = NoLogin /\ preflight = None /\ ~mutation
        /\ users = 0

LoginTo(o, l) == lpc' = [lpc EXCEPT ![o] = l]

-----------------------------------------------------------------------------
(* A login, up to the authorization of its sidecar                          *)
(* (start_codex_login_p2b_inner).                                           *)

BeginLogin(o) ==
  /\ Up
  /\ lpc[o] = "idle" /\ \A q \in Logins : q < o => lpc[q] # "idle"
  /\ Free
  /\ login' = o
  /\ last' = [id |-> o, state |-> "starting"]
  /\ told' = NoAnswer
  /\ LoginTo(o, "reserved")
  /\ UNCHANGED <<sidecar, preflight, mutation, users, shutting, record, sent,
                 term, outcome, acked, receipt, others, cpc, xpc>>

\* The receipt is opened; Science and the Gateway are stopped under it.
OpenReceipt(o) ==
  /\ Up /\ lpc[o] = "reserved"
  /\ receipt' = [receipt EXCEPT ![o] = "reserved"]
  /\ LoginTo(o, "spawn")
  /\ UNCHANGED <<sidecar, inner, record, sent, term, outcome, acked, others,
                 user, xpc>>

SpawnSidecar(o) ==
  /\ Up /\ lpc[o] = "spawn"
  /\ proc' = [proc EXCEPT ![o] = "alive"]
  /\ LoginTo(o, "register")
  /\ UNCHANGED <<peer, input, output, ctl, stage, res, reader, ack, stored,
                 inner, record, sent, term, outcome, acked, receipt, others,
                 user, xpc>>

\* What set_pid, bind_login_process_identity and authorize_login_start demand.
Startable(o) == login = o /\ ~shutting /\ ~cancel[o]

SetPid(o) ==
  /\ Up /\ lpc[o] = "register" /\ Startable(o)
  /\ pid' = [pid EXCEPT ![o] = TRUE]
  /\ ident' = [ident EXCEPT ![o] = FALSE]
  /\ LoginTo(o, "bind")
  /\ UNCHANGED <<sidecar, inner, cancel, disp, snap, sent, term, outcome,
                 acked, receipt, others, user, xpc>>

BindIdentity(o) ==
  /\ Up /\ lpc[o] = "bind" /\ Startable(o) /\ pid[o]
  /\ ident' = [ident EXCEPT ![o] = TRUE]
  /\ LoginTo(o, "inert")
  /\ UNCHANGED <<sidecar, inner, cancel, pid, disp, snap, sent, term, outcome,
                 acked, receipt, others, user, xpc>>

\* The three receipt states of a start, each durable before what follows it.
NextReceipt(l) == CASE l = "inert"   -> "spawned_inert"
                    [] l = "prepare" -> "start_prepared"
                    [] OTHER         -> "start_authorized"
AfterReceipt(l) == CASE l = "inert"   -> "prepare"
                     [] l = "prepare" -> "authorize"
                     [] OTHER         -> "watch"

\* Mutant: the start goes out before its receipt.
CheckpointStart_Late(o) ==
  /\ Up /\ lpc[o] \in {"inert", "prepare", "acked"}
  /\ receipt' = [receipt EXCEPT ![o] = IF lpc[o] = "acked" THEN "start_authorized"
                                       ELSE "spawned_inert"]
  /\ LoginTo(o, AfterReceipt(lpc[o]))
  /\ UNCHANGED <<sidecar, inner, record, sent, term, outcome, acked, others,
                 user, xpc>>

CheckpointStart(o) ==
  /\ Up /\ lpc[o] \in {"inert", "prepare", "acked"}
  /\ receipt' = [receipt EXCEPT ![o] = NextReceipt(lpc[o])]
  /\ LoginTo(o, AfterReceipt(lpc[o]))
  /\ UNCHANGED <<sidecar, inner, record, sent, term, outcome, acked, others,
                 user, xpc>>

\* Mutant: the authorization does not look at the cancel flag again.
AuthorizeLoginStart_Stale(o) ==
  /\ Up /\ lpc[o] = "authorize" /\ login = o /\ pid[o] /\ ident[o]
  /\ input' = [input EXCEPT ![o] = Append(@, "start")]
  /\ LoginTo(o, "ack")
  /\ UNCHANGED <<proc, peer, output, ctl, stage, res, reader, ack, stored,
                 inner, record, sent, term, outcome, acked, receipt, others,
                 user, xpc>>

\* The start line is written under the supervisor's mutex.
AuthorizeLoginStart(o) ==
  /\ Up /\ lpc[o] = "authorize"
  /\ Startable(o) /\ pid[o] /\ ident[o] /\ Alive(o)
  /\ input' = [input EXCEPT ![o] = Append(@, "start")]
  /\ LoginTo(o, "ack")
  /\ UNCHANGED <<proc, peer, output, ctl, stage, res, reader, ack, stored,
                 inner, record, sent, term, outcome, acked, receipt, others,
                 user, xpc>>

HasEvent(o, k) == output[o] # <<>> /\ Head(output[o]).kind = k

ReadStartAck(o) ==
  /\ Up /\ lpc[o] = "ack" /\ HasEvent(o, "start_ack")
  /\ output' = [output EXCEPT ![o] = Tail(@)]
  /\ LoginTo(o, "acked")
  /\ UNCHANGED <<proc, peer, input, ctl, stage, res, reader, ack, stored,
                 inner, record, sent, term, outcome, acked, receipt, others,
                 user, xpc>>

\* stop_auth_child: kill and wait.
StopChild(o) == IF proc[o] = "unborn" THEN UNCHANGED sidecar ELSE Wait(o)

\* The record of the active login goes with its reservation.
DropLogin ==
  LET fresh(f, x) == [o \in Logins |-> IF o = login THEN x ELSE f[o]] IN
  /\ login' = NoLogin
  /\ cancel' = fresh(cancel, FALSE)
  /\ pid' = fresh(pid, FALSE)
  /\ ident' = fresh(ident, FALSE)
  /\ disp' = fresh(disp, "none")
  /\ snap' = fresh(snap, "starting")

\* The worker of a login returns: its locals end with it.
WorkerReturns(o) ==
  /\ LoginTo(o, "done")
  /\ sent' = [sent EXCEPT ![o] = FALSE]
  /\ term' = [term EXCEPT ![o] = "none"]
  /\ outcome' = [outcome EXCEPT ![o] = "none"]
  /\ acked' = [acked EXCEPT ![o] = FALSE]

\* abort_login_start
Abort(o) == IF login = o THEN DropLogin /\ last' = NoSnapshot
                         ELSE UNCHANGED <<login, last, record>>

\* Mutant: the child is not stopped.
StartFails_LeavesChild(o) ==
  /\ Up /\ lpc[o] \in Starting
  /\ Abort(o)
  /\ WorkerReturns(o)
  /\ UNCHANGED <<sidecar, preflight, mutation, users, shutting, receipt, others,
                 user, xpc>>

\* A refusal by the supervisor, a failed write or spawn, a protocol error or
\* the ten-second limit, at any point of the start.
StartFails(o) ==
  /\ Up /\ lpc[o] \in Starting
  /\ StopChild(o)
  /\ Abort(o)
  /\ WorkerReturns(o)
  /\ UNCHANGED <<preflight, mutation, users, shutting, receipt, others, user,
                 xpc>>

-----------------------------------------------------------------------------
(* The watch over a running sidecar (wait_for_login_sidecar).               *)

SendCancel(o) ==
  /\ Up /\ lpc[o] = "watch" /\ cancel[o] /\ ~sent[o] /\ Alive(o)
  /\ input' = [input EXCEPT ![o] = Append(@, "cancel")]
  /\ peer' = [peer EXCEPT ![o] = "half"]
  /\ sent' = [sent EXCEPT ![o] = TRUE]
  /\ UNCHANGED <<proc, output, ctl, stage, res, reader, ack, stored, inner,
                 record, lpc, term, outcome, acked, receipt, others, user, xpc>>

\* The watch ends with its child waited for.
Reaped(o, r) ==
  /\ Wait(o)
  /\ outcome' = [outcome EXCEPT ![o] = r]
  /\ LoginTo(o, "reaped")
  /\ UNCHANGED <<inner, record, sent, term, acked, receipt, others, user, xpc>>

\* The pipe is broken: its reader has just exited, its events unread.
SendCancelFails(o) ==
  /\ Up /\ lpc[o] = "watch" /\ cancel[o] /\ ~sent[o] /\ Zombie(o)
  /\ Reaped(o, "error")

\* update_progress and record_cancel_disposition
ShowState(o, s) ==
  /\ snap' = [snap EXCEPT ![o] = s]
  /\ last' = [id |-> o, state |-> s]

ShowDisposition(o, d) ==
  /\ disp' = [disp EXCEPT ![o] = d]
  /\ IF d = "commit_in_progress" THEN ShowState(o, "committing")
                                 ELSE UNCHANGED <<snap, last>>

\* What the parser accepts where.  Anything else would be a protocol error and
\* end the watch; EventsInPlace says that this sidecar never causes one.
Acceptable(o) ==
  LET e == Head(output[o]) IN
  \/ e.kind = "progress" /\ term[o] = "none"
  \/ e.kind = "cancel_ack" /\ sent[o]
  \/ e.kind = "terminal" /\ term[o] = "none"

ReadEvent(o) ==
  /\ Up /\ lpc[o] = "watch" /\ output[o] # <<>> /\ Acceptable(o)
  /\ LET e == Head(output[o]) IN
       /\ IF login # o THEN UNCHANGED <<disp, snap, last>>
          ELSE CASE e.kind = "progress"   -> ShowState(o, e.val) /\ UNCHANGED disp
                 [] e.kind = "cancel_ack" -> ShowDisposition(o, e.val)
                 [] OTHER                 -> UNCHANGED <<disp, snap, last>>
       /\ acked' = [acked EXCEPT ![o] = @ \/ e.val = "accepted"]
       /\ term' = [term EXCEPT ![o] = IF e.kind = "terminal" THEN e.val ELSE @]
  /\ output' = [output EXCEPT ![o] = Tail(@)]
  /\ UNCHANGED <<proc, peer, input, ctl, stage, res, reader, ack, stored, login,
                 preflight, mutation, users, shutting, cancel, pid, ident, lpc,
                 sent, outcome, receipt, others, user, xpc>>

\* The child has exited and its stdout is drained: its terminal event counts
\* only with the exit code that goes with it.
ReapSidecar(o) ==
  /\ Up /\ lpc[o] = "watch" /\ Zombie(o) /\ output[o] = <<>>
  /\ Reaped(o, IF proc[o] = "exited" /\ term[o] # "none" THEN term[o] ELSE "error")

\* Mutant: the watchdog does not wait for an ack.
Watchdog_Unacked(o) ==
  /\ Up /\ lpc[o] = "watch" /\ sent[o] /\ (Alive(o) \/ Zombie(o))
  /\ Reaped(o, "cancelled")

\* Two seconds after an accepted cancel the child may be stopped.
Watchdog(o) ==
  /\ Up /\ lpc[o] = "watch" /\ acked[o] /\ (Alive(o) \/ Zombie(o))
  /\ Reaped(o, "cancelled")

\* Mutant: the limit covers only the time the user needs in the browser.
LoginDeadline_WhileWaiting(o) ==
  /\ Up /\ lpc[o] = "watch" /\ ~sent[o] /\ ~cancel[o] /\ snap[o] = "waiting"
  /\ cancel' = [cancel EXCEPT ![o] = TRUE]
  /\ UNCHANGED <<sidecar, inner, pid, ident, disp, snap, worker, others, user,
                 xpc>>

\* The login's own time limit asks for a cancel, it does not kill.
LoginDeadline(o) ==
  /\ Up /\ lpc[o] = "watch" /\ ~sent[o] /\ ~cancel[o]
  /\ cancel' = [cancel EXCEPT ![o] = TRUE]
  /\ UNCHANGED <<sidecar, inner, pid, ident, disp, snap, worker, others, user,
                 xpc>>

ClearPid(o) ==
  /\ Up /\ lpc[o] = "reaped"
  /\ pid' = [pid EXCEPT ![o] = FALSE]
  /\ ident' = [ident EXCEPT ![o] = FALSE]
  /\ LoginTo(o, "closing")
  /\ UNCHANGED <<sidecar, inner, cancel, disp, snap, sent, term, outcome, acked,
                 receipt, others, user, xpc>>

\* Mutant: what the sidecar came to is passed on as it is.
FinalStates_Raw(o) == {outcome[o]}

\* The user sees a success only when every receipt and the profile were written.
FinalStates(o) == CASE outcome[o] = "succeeded" -> {"succeeded", "failed"}
                    [] outcome[o] = "cancelled" -> {"cancelled"}
                    [] OTHER                    -> {"failed"}

\* complete_login_operation_p2b_inner; finish() takes whatever login is active.
FinishLogin(o) ==
  /\ Up /\ lpc[o] = "closing"
  /\ IF login = o
     THEN \E s \in FinalStates(o) :
            /\ last' = [id |-> o, state |-> s]
            /\ \/ receipt' = [receipt EXCEPT ![o] = "terminal"]
               \/ s # "succeeded" /\ UNCHANGED receipt
     ELSE UNCHANGED <<last, receipt>>
  /\ DropLogin
  /\ WorkerReturns(o)
  /\ UNCHANGED <<sidecar, preflight, mutation, users, shutting, others, user,
                 xpc>>

-----------------------------------------------------------------------------
(* The other reservations: a status preflight, the ready proof it becomes,  *)
(* and the lease of any other auth mutation (logout, disable, network).     *)

TaskTo(u, l) == upc' = [upc EXCEPT ![u] = l]

BeginPreflight(u) ==
  /\ Up /\ upc[u] = "idle" /\ Free
  /\ preflight' = u
  /\ pfCancel' = FALSE
  /\ TaskTo(u, "pf_spawn")
  /\ UNCHANGED <<sidecar, login, mutation, users, shutting, last, record,
                 worker, user, xpc>>

\* Drop of AuthPreflightReservation
ReleasePreflight(u) ==
  /\ preflight' = IF preflight = u THEN None ELSE preflight
  /\ TaskTo(u, "idle")

\* The status child is spawned and registered, or refused and stopped.
RegisterStatus(u) ==
  /\ Up /\ upc[u] = "pf_spawn"
  /\ \/ /\ preflight = u /\ ~shutting /\ ~pfCancel
        /\ TaskTo(u, "pf_wait")
        /\ UNCHANGED preflight
     \/ ReleasePreflight(u)
  /\ UNCHANGED <<sidecar, login, mutation, users, shutting, last, record,
                 pfCancel, worker, user, xpc>>

\* It answers, or fails, is cancelled or runs into its limit.
AwaitStatus(u) ==
  /\ Up /\ upc[u] = "pf_wait"
  /\ \/ TaskTo(u, "pf_done") /\ UNCHANGED preflight
     \/ ReleasePreflight(u)
  /\ UNCHANGED <<sidecar, login, mutation, users, shutting, last, record,
                 pfCancel, worker, user, xpc>>

\* promote_to_ready_proof; a status command only releases.
PromoteToProof(u) ==
  /\ Up /\ upc[u] = "pf_done"
  /\ \/ /\ preflight = u /\ ~shutting /\ ~pfCancel
        /\ preflight' = None
        /\ users' = users + 1
        /\ TaskTo(u, "use")
     \/ ReleasePreflight(u) /\ UNCHANGED users
  /\ UNCHANGED <<sidecar, login, mutation, shutting, last, record, pfCancel,
                 worker, user, xpc>>

\* Drop of CodexUseLease (saturating)
ReleaseProof(u) ==
  /\ Up /\ upc[u] = "use"
  /\ users' = IF users = 0 THEN 0 ELSE users - 1
  /\ TaskTo(u, "idle")
  /\ UNCHANGED <<sidecar, login, preflight, mutation, shutting, last, record,
                 pfCancel, worker, user, xpc>>

BeginMutation(u) ==
  /\ Up /\ upc[u] = "idle" /\ Free
  /\ mutation' = TRUE
  /\ TaskTo(u, "mutate")
  /\ UNCHANGED <<sidecar, login, preflight, users, shutting, last, record,
                 pfCancel, worker, user, xpc>>

\* Drop of CodexMutationLease
ReleaseMutation(u) ==
  /\ Up /\ upc[u] = "mutate"
  /\ mutation' = FALSE
  /\ TaskTo(u, "idle")
  /\ UNCHANGED <<sidecar, login, preflight, users, shutting, last, record,
                 pfCancel, worker, user, xpc>>

-----------------------------------------------------------------------------
(* cancel(): asks, and waits at most two seconds to learn who won.          *)

Tell(o, d) == told' = [id |-> o, answer |-> d]
Ended(o)   == last.id = o /\ last.state \in Results

Undecided(o) == /\ login = o
                /\ snap[o] # "committing"
                /\ disp[o] = "none"

\* The answers that need no waiting.
CancelAnswered(o) ==
  /\ Up /\ cpc = NoLogin /\ lpc[o] # "idle"
  /\ \/ /\ login = o /\ snap[o] = "committing"
        /\ Tell(o, "commit_in_progress")
        /\ UNCHANGED cancel
     \/ /\ login = o /\ snap[o] # "committing" /\ disp[o] # "none"
        /\ Tell(o, disp[o])
        /\ cancel' = [cancel EXCEPT ![o] = TRUE]
     \/ /\ login = NoLogin /\ Ended(o)
        /\ Tell(o, "already_terminal")
        /\ UNCHANGED cancel
  /\ UNCHANGED <<sidecar, inner, pid, ident, disp, snap, worker, others, cpc,
                 xpc>>

CancelAsks(o) ==
  /\ Up /\ cpc = NoLogin /\ Undecided(o)
  /\ cancel' = [cancel EXCEPT ![o] = TRUE]
  /\ cpc' = o
  /\ UNCHANGED <<sidecar, inner, pid, ident, disp, snap, worker, others, told,
                 xpc>>

CancelVerdict(o) ==
  IF login = o
  THEN IF snap[o] = "committing" \/ disp[o] = "commit_in_progress"
       THEN "commit_in_progress"
       ELSE IF disp[o] = "already_terminal" THEN "already_terminal"
       ELSE "accepted"
  ELSE IF Ended(o) THEN "already_terminal" ELSE "accepted"

\* It is woken with a decision, or its two seconds are over without one.
CancelReturns ==
  /\ Up /\ cpc # NoLogin
  /\ Tell(cpc, CancelVerdict(cpc))
  /\ cpc' = NoLogin
  /\ UNCHANGED <<sidecar, inner, record, worker, others, xpc>>

-----------------------------------------------------------------------------
(* Native exit: cancel, wait, TERM, wait, KILL, wait, leave.                *)

ExitBegins ==
  /\ xpc = "running"
  /\ xpc' = "wait"
  /\ shutting' = TRUE
  /\ cancel' = [o \in Logins |-> cancel[o] \/ o = login]
  /\ pfCancel' = (pfCancel \/ preflight # None)
  /\ UNCHANGED <<sidecar, login, preflight, mutation, users, last, pid, ident,
                 disp, snap, worker, upc, user>>

\* A signal goes to the registered child whose identity is still current.
Signal == proc' = [o \in Logins |->
                     IF login = o /\ pid[o] /\ ident[o] /\ Alive(o)
                     THEN "killed" ELSE proc[o]]

\* Each wait ends when everything is released, or with its time.
ExitSignals ==
  /\ \/ xpc = "wait" /\ xpc' = "term"
     \/ xpc = "term" /\ xpc' = "kill"
  /\ Signal
  /\ UNCHANGED <<peer, input, output, ctl, stage, res, reader, ack, stored,
                 inner, record, worker, others, user>>

\* The pipes of every child close with the process.
Gone == /\ xpc' = "gone"
        /\ peer' = [o \in Logins |-> "gone"]
        /\ UNCHANGED <<proc, input, output, ctl, stage, res, reader, ack,
                       stored, inner, record, worker, others, user>>

ExitLeaves == xpc = "kill" /\ Gone
Crash      == Up /\ Gone

-----------------------------------------------------------------------------

Sidecar(o) == SidecarStep(o) /\ UNCHANGED <<inner, record, worker, others, user, xpc>>

StartStep(o) ==
  \/ OpenReceipt(o) \/ SpawnSidecar(o) \/ SetPid(o) \/ BindIdentity(o)
  \/ CheckpointStart(o) \/ AuthorizeLoginStart(o) \/ ReadStartAck(o)
  \/ StartFails(o)

WatchStep(o) ==
  \/ SendCancel(o) \/ SendCancelFails(o) \/ ReadEvent(o)
  \/ ReapSidecar(o) \/ Watchdog(o) \/ LoginDeadline(o) \/ ClearPid(o)
  \/ FinishLogin(o)

TaskStep(u) ==
  \/ RegisterStatus(u) \/ AwaitStatus(u) \/ PromoteToProof(u)
  \/ ReleaseProof(u) \/ ReleaseMutation(u)

ExitStep == ExitSignals \/ ExitLeaves

Next ==
  \/ \E o \in Logins : \/ BeginLogin(o) \/ StartStep(o) \/ WatchStep(o)
                       \/ Sidecar(o)
                       \/ CancelAnswered(o) \/ CancelAsks(o)
  \/ \E u \in Tasks : BeginPreflight(u) \/ BeginMutation(u) \/ TaskStep(u)
  \/ CancelReturns \/ ExitBegins \/ ExitStep \/ Crash

Spec == Init /\ [][Next]_vars

-----------------------------------------------------------------------------
(* Safety.                                                                  *)

\* At most one reservation of any kind exists, and it belongs to the thread
\* that acts on it: no release, drop or late finish takes another's away.
OneReservation ==
  LET holders == {<<"login", o>> : o \in {q \in Logins : lpc[q] \notin {"idle", "done"}}}
                   \cup {<<"task", u>> : u \in {t \in Tasks : upc[t] # "idle"}}
  IN /\ \A h, k \in holders : h = k
     /\ \A o \in Logins : login = o <=> lpc[o] \notin {"idle", "done"}
     /\ \A u \in Tasks : preflight = u <=> upc[u] \in {"pf_spawn", "pf_wait", "pf_done"}
     /\ mutation <=> \E u \in Tasks : upc[u] = "mutate"
     /\ users = IF \E u \in Tasks : upc[u] = "use" THEN 1 ELSE 0

\* While the Desktop lives, every sidecar process belongs to the registered
\* login: none survives its operation, so two never write credentials at once.
NoStraySidecar ==
  Up => \A o \in Logins : Alive(o) \/ Zombie(o) => login = o

\* Work of a sidecar is always covered by a durable start receipt, so that the
\* next start of the Desktop can tell it may have happened.
StartIsDurable ==
  \A o \in Logins :
    ctl[o] \in {"running", "committing", "finished"} => receipt[o] \in Durable

\* Credentials are never stored by a sidecar whose cancel was acknowledged.
AckedCancelStoresNothing ==
  \A o \in Logins : disp[o] = "accepted" => o \notin stored

\* The final state of a login is true of the disk: a success is stored, and a
\* cancelled login, stopped by its watchdog or not, has left nothing.
FinalStateIsTrue ==
  /\ last.state = "succeeded" => last.id \in stored
  /\ last.state = "cancelled" => last.id \notin stored

\* The user hears "commit in progress" only of a login past its barrier.
CommitAnswerIsTrue ==
  told.answer = "commit_in_progress" => ctl[told.id] \in {"committing", "finished"}

\* The strict parser never meets an event out of place, although two threads
\* of the sidecar write to the same pipe.
EventsInPlace ==
  \A o \in Logins : Up /\ output[o] # <<>> =>
    /\ lpc[o] = "watch" => Acceptable(o)
    /\ lpc[o] = "ack" => HasEvent(o, "start_ack")

\* A watched sidecar that is past its barrier is never killed by its worker.
CommitIsSpared ==
  [][\A o \in Logins :
       lpc[o] = "watch" /\ ctl[o] = "committing" /\ Alive(o) =>
         proc'[o] # "reaped"]_vars

\* A cancel or an exit that comes before the start authorization wins: that
\* sidecar never begins OAuth work, however its pipes are delayed.
CancelBeforeStartWins ==
  \A o \in Logins :
    []((cancel[o] \/ shutting) /\ lpc[o] \in Starting \ {"ack", "acked"} =>
         [](ctl[o] \notin {"running", "committing", "finished"}))

-----------------------------------------------------------------------------
(* The contract of the logins (refinement mapping).                         *)

Turn(o) == CASE lpc[o] = "idle" -> "new"
             [] lpc[o] = "done" -> "ended"
             [] OTHER           -> "active"

Promises == {"accepted", "cancelled", "committing", "commit_in_progress",
             "succeeded"}

\* The answer "accepted" is left out: a cancel may get it for want of a
\* decision in its two seconds.
Said(o) ==
  {w \in Promises : \/ w = disp[o] \/ w = snap[o]
                    \/ last.id = o /\ last.state = w
                    \/ told.id = o /\ told.answer = w /\ w # "accepted"}

Contract == INSTANCE LoginContract WITH
  turn    <- [o \in Logins |-> Turn(o)],
  durable <- {o \in Logins : receipt[o] \in Durable},
  barrier <- ctl,
  said    <- [o \in Logins |-> Said(o)]

\* The worker, its child with two threads, the user and the exit together do
\* only what the contract allows: a login works in its turn, under a durable
\* receipt and up to one decision, and whatever is reported of it stays true.
ImplementsLogins == Contract!Spec

-----------------------------------------------------------------------------
(* Liveness.                                                                *)

\* Threads and processes go on; only the user and the network may not.
FairSpec ==
  /\ Spec
  /\ \A o \in Logins : /\ WF_vars(StartStep(o)) /\ WF_vars(WatchStep(o))
                       /\ WF_vars(ReaderStep(o) /\ Sidecar(o))
                       /\ WF_vars(MainStep(o) /\ Sidecar(o))
  /\ \A u \in Tasks : WF_vars(TaskStep(u))
  /\ WF_vars(CancelReturns) /\ WF_vars(ExitStep)

\* Every login ends, though the user never finishes the sign-in.
LoginEnds == \A o \in Logins : login = o ~> login # o \/ ~Up

\* When the Desktop is gone, every sidecar it left behind ends too.
SidecarsFollow == \A o \in Logins : Alive(o) /\ ~Up ~> ~Alive(o)

=============================================================================
