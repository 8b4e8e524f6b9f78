# TLA+ verification of the Desktop's runtime transactions

This directory holds TLA+ models of claude-science-api, their TLC
configurations, and TLAPS proofs about them. The program is a Tauri Desktop
(`src/desktop/src-tauri`) that prepares a sandbox for a "Science" process,
starts a local Gateway (`src/desktop/gateway`) which translates model-provider
protocols, and installs Skill packages (`src/desktop/skill-package`). Most of
its own logic is *transactional*: one user command changes a configuration
file, protected authority trees, a process tree and a listener, and any of
those steps can fail, or the Desktop can die between two of them. The models
are about that logic.

Paths below are relative to `src/desktop/src-tauri/src/` unless they start
with `src/`.

## 1. Inventory

For every part: its state, its operations, whom it talks to, what is hard
about it, and what makes it correct. `PROJECT.json` lists the same parts with
their files and says how much of each is modelled.

| Part | State it keeps | Operations and partners | Hard behaviour | What makes it correct |
|---|---|---|---|---|
| **One-click compensation** (`one_click/cold/compensation.rs`, `compensation_replay.rs`, journal in `one_click/transaction.rs`) | `runtime_compensation` in `config.json`: five steps, each pending, in progress or terminal; a private replay manifest inside the recovery snapshot | live funnel after a failed cold run; fresh replay before the next one-click; calls Science stop, SSH bridge, authority restore, prior restart, snapshot discard | crash between an effect and its durable outcome; the lock is dropped between publication and effects; two processes | effects under a durable intent and one owner; the snapshot outlives everything that is not restored; the journal always decodes, never goes back, and settles |
| **Authority snapshot and pending cleanup** (`recovery.rs`, `authority_snapshot/*`, `pending_cleanup.rs`) | snapshot root, registry with disposition `ActiveRecovery`/`CleanupOnly` | capture, restore trees, discard, boot sweep of `CleanupOnly` roots | partial restore; root removed but registry not written | a root is discarded only when nobody needs it |
| **One-click durable transaction** (`one_click/transaction.rs`, `one_click/cold.rs`, `cold/science_phase.rs`) | `runtime_transaction` with phase intents and receipts; in-memory progress | prior stop, environment, Gateway, Science launch, commit | every phase may fail after its effect; CAS against other writers | a receipt only for what happened; failure hands the compensator exactly what was changed |
| **Interrupted-Gateway recovery and healthy reopen** (`runtime/proxy_lifecycle/recovery.rs`, `one_click/healthy_reopen.rs`) | `gateway_pending` intent in the transaction | recover or drop an interrupted candidate, reuse a healthy one | owner changed while probing | a Gateway nobody owns is never adopted |
| **Gateway controller** (`runtime/proxy_lifecycle/{lifecycle,controller}.rs`) | child, generation, published key in `AppState` | start, health probe outside the lock, publish by generation, claimed stop | a late probe answers for a replaced owner | an old key or generation is never revived |
| **Science stop and lifecycle serializer** (`lifecycle.rs`, `sandbox_session/transaction_science_stop.rs`) | mutation mutex, stop claim, stop proof | claim, lock-free probe, recheck, lock-free stop, CAS publication | effects outside the `AppState` mutex | a replacement runtime is neither stopped nor forgotten |
| **History recovery** (`sandbox_session/history_recovery.rs`, `pending_cleanup.rs`) | `runtime_transaction` in the seven phases of a history restore; the snapshot registry, the snapshot root and its manifest | restore the chosen record, compensate, replay before a one-click login; calls Science stop, the credential writer (`oauth_forge.rs`), the authority snapshot | crash between two entries; two ways to compensate, of which one has no durable intent; Science started again before the replay | half-written credentials are always journaled and recoverable; a replay acts on a record that is true of the disk |
| **Config store** (`config.rs`) | `config.json`, rolling backup, the compensation flock, writer fences | load, save, migrate, exclusive/shared leases, validity rules of every record | plain writers beside an open record | an open record is never rewritten by a sibling |
| **Config-mutation receipts** (`commands/runtime/config_mutation.rs`) | one receipt with an effect state per effect | begin, checkpoint, finish, boot recovery | crash between effect and receipt | no effect twice, no sibling writer under an open receipt |
| **Provider authentication** (`commands/codex.rs`, `codex_auth_supervisor.rs`, `src/desktop/gateway/src/codex_auth/*`) | login / preflight / mutation leases, sidecar pid, cancel disposition; sidecar commit barrier | login, cancel, preflight, disable, exit cleanup; sidecar over pipes | a cancel races the commit; exit races a spawn | a cancelled login stores nothing; no sidecar survives exit |
| **Gateway server** (`src/desktop/gateway/src/{server,connect,config}.rs`) | connection and resolver budgets | accept, resolve, forward | a permit lost on an error path | permits are conserved |
| **Skill package ledger** (`src/desktop/skill-package/src/{operation,install}.rs`) | operation ledger, installed trees | reserve, native effect, readback, finalise | interruption between effect and readback | an operation is classified without repeating it |
| **SSH bridge and settings** (`runtime/ssh_bridge.rs`, `runtime/settings.rs`) | managed stub and its before-image | install, compensate | content changed by the user in between | only the managed content is put back |
| **Science adoption, selection, launch** (`runtime/science/*`) | runtime identity, launch receipts | discover, adopt, launch by receipt, exact stop | pid and port reuse | only a process with a receipt is stopped or adopted |
| **Shell, profiles, diagnostics, updates, frontend, release tooling** | none of their own | command plumbing and presentation | none of protocol interest | out of scope |

Interaction in one paragraph: a one-click command first replays an open
compensation journal and an open history record, then authenticates the
provider under a *shared* flock lease, then runs the durable transaction under
the lifecycle serializer. If a phase fails, the live funnel freezes what it
knows in a private manifest, publishes the compensation journal, and undoes
step by step under the *exclusive* lease. A process that finds an open journal
replays the remaining steps, one per pass.

## 2. The compensation model

`OneClickCompensation.tla` models the first two rows above plus the flock of
the config store and the entry of the one-click command.
`CompensationContract.tla` is the abstract specification.

### State

| Variable | In the code |
|---|---|
| `journal`, `business` | `config.runtime_compensation`, `config.runtime_transaction` (the *active* record of the failed run or the *captured* one before it) |
| `manifest` | the private replay manifest in the snapshot root |
| `registry`, `snapshot` | the pending-cleanup manifest's disposition; the root on disk, its tombstone, or nothing |
| `plan` | what the private manifests freeze: was a candidate exposed, was a prior Science stopped, another runtime identity, what happened to the Gateway |
| `candidate`, `ssh`, `trees`, `gateway`, `prior` | the outside world; `prior` also says under which launch id the prior Science runs |
| `exHolder`, `shHolders` | the flock on the compensation fence |
| `pc`, `role`, `viewJ`, `viewB`, `result` | the program point of each process, whether it is the live funnel or a replay, the records its next checkpoint compares with, and the outcome in hand |
| `owned` | its `AppState` names a Science (runtime, child, URL or stop proof) |
| `faults` | faults so far, bounded by `MaxFaults` |

### Actions

One action is one durable write or one external effect, so that `Crash` may
come between any two. `PersistManifest`, `PublishJournal`, `TakeLiveLease` are
the live funnel up to its first step; `EnterCommand`, `TakeAuthLease`,
`RecheckBeforeAuth`, `FinishAuth` the entry of the command; `TakeReplayLease`,
`LoadStep`, `RefuseReplay` a fresh replay; `BeginStep`, `FinishStep`, `Finish`,
`LoseCheckpoint` the compare-and-swap checkpoints both share. `DecideStep`
records an outcome that needs no effect (`Decisions`: usually one, but a launch confirmed
stopped may have left only its receipt file behind, on which the live funnel fails and a
replay runs an exact stop). The five effects follow
(`StopCandidate`; `CompensateSsh`; `StopCandidateGateway`, `RestoreTrees`,
`RestoreConfig`, `RestoreAppState`; `RestartPriorScience`; `PrepareCleanup`,
`DiscardSnapshot`, `Unregister`), each with the ways it fails. `Crash` releases
the lock and the locals and keeps the disk and the world; `CheckpointFault` is a
config write or a lock that errors; `QuitAndReopen` is a user closing an idle
Desktop, which empties `AppState`.

Abstractions: contents of trees, stub and config are reduced to "candidate's" or
"before-image" (plus "mixed" for trees); all trees are restored in two steps
(first one touched, last one done), and a replay that meets an already restored
tree may go through "mixed" again, which allows more than the code does; a
failed effect may or may not have happened; the business record has the two
values a compensation can see. Time budgets are not modelled: a timeout is a
failure like any other.

### Runs

| Run | Instance | Shows |
|---|---|---|
| `Compensation` | two processes, every failed run (candidate none / exposed / confirmed stopped / unproven, prior or not, cross runtime or not, Gateway untouched / managed / absent), one fault: 1.71 M states | the seven invariants and the action property below |
| `Crash` | the fullest failed run, three faults (so a replay, and the replay of a replay, crash), fairness: 182 k states | `ImplementsContract`: the system refines the contract; `CompensationSettles` |
| `ReplayInPlace` | one process, fairness without reopening | expected violation, finding 1 |
| `IncompleteSnapshot` | one process | expected violation, finding 2 |

Two processes are enough for every race the code can have: publication, live
effects, replay and authentication each need one process, the flock admits one
exclusive owner, and a third process could only be a second copy of a role
already played. The proofs below hold for any number of them. One fault
lets a crash or a lost checkpoint hit every point of every plan; three let the
recovery itself fail twice.

Properties:

* `SnapshotKeptUntilRestored` - the recovery snapshot is released or removed only
  when candidate, stub, trees, business record and prior Science are back.
* `JournalDecodes` - whatever is in `config.json` passes
  `valid_runtime_compensation_steps`.
* `EffectsUnderDurableIntent` - an effect runs only in the holder of the exclusive
  lease, on the journal it read, under its own `in_progress` step.
* `AuthOnlyWithoutJournal` - no provider authentication beside a journal, although
  another process may publish one after the first check.
* `ReplayInputsPresent` - a step that may have to be replayed finds its manifest.
* `RestoreUnderQuiescence` - trees are replaced under no running candidate; the prior
  Science comes back on restored trees.
* `OutcomesAreFinal` - no terminal outcome of a step is ever rewritten.
* `CompensationSettles` - an open journal is cleared or closed, unless the candidate
  cannot be stopped.

### Fairness

`FairSpec` gives each process weak fairness of its own steps (a command that can
go on does; a crashed Desktop is opened again; the user presses one-click) and
strong fairness of the flock, which is polled until it is free. It leaves
failures, crashes and faults without fairness. `ReopeningSpec` adds that a user
whose command keeps being refused reopens the Desktop. The liveness property
needs that: see finding 1.

### Findings

1. `ReplayInPlace`: the replay of step 1 leaves `science_confirmed_stopped` in
   `AppState`; step 3 refuses to run in a process that names a Science
   (`require_durable_science_quiescence`). A command that replays both does not
   converge, as the architecture document says, until the Desktop is reopened.
2. `IncompleteSnapshot`: the snapshot root is removed before the emptied registry is
   written; if that last write fails the journal closes as `incomplete` and has no
   snapshot, though the document says an incomplete one keeps it. Nothing is lost:
   `SnapshotKeptUntilRestored` holds, so the world is restored by then.

The model also shows these outcomes, which the code chooses deliberately (it fails
closed and leaves the journal to a person):

* the candidate stopped but its outcome was not written: the replay finds no
  receipt to stop by, records a failure, and ends `incomplete`;
* the live funnel restarts the prior Science under an id nobody preallocated; a
  crash before the outcome leaves one that the replay does not adopt, so step 4 fails;
* the prior Gateway was started again and the Desktop crashed: the replay sees
  another identity than the one it froze and refuses;
* a failed step 1 with the candidate still running blocks step 3 at every replay.
  This is the exception in `CompensationSettles`.

### Proofs

`OneClickCompensation_proofs.tla` proves, for any set of processes, any number of
faults and any failed run, that `Inv` is inductive, and from it seven properties of
the runs. Assumptions: `None \notin Procs` and `MaxFaults \in Nat`. `Inv` is the
conjunction of

1. `TypeInv`: `TypeOK`, and a process about to record an outcome has one;
2. `LockInv`: a process past an acquisition holds what it acquired, and an
   exclusive holder excludes every shared one. Everything else rests on it;
3. `IntentInv`: `EffectsUnderDurableIntent` and `AuthOnlyWithoutJournal`, which are
   inductive together (publication needs a free lock, so no authentication is
   under way when a journal appears);
4. `JournalDecodes`: needs `CanonicalAt` in every writer of the journal;
5. `WorldInv`: what a step's recorded outcome asserts about the world stays true
   (`DoneInv`), because each program point of an effect says what it has done so
   far (`PointInv`), and a later step never disturbs what an earlier one did;
6. `SnapshotInv`: the snapshot is given up only when `AuthoritiesRestored` reads
   so in the journal; `WorldInv` turns that into `Restored`;
7. `ManifestInv`: the manifest exists before the journal and is never removed.

`OutcomesStayFinal` is the action property, by the lemma `JournalWriters` that lists
the only three ways the journal changes.

`CompensationContract_proofs.tla` adds what `Inv` does not say, and with it proves the
refinement and the last invariant. `CInv` is `Inv` together with

8. `WhyInv`: every outcome in the journal, and every outcome a process is about to
   record, is one its step can have and has its reason: `blocked_science` only after a
   failed step 1, `blocked_authority` only without a successful step 3, `preserved` only
   while the authorities are not all restored, a successful step 5 only on an empty
   registry. A reason read from the journal stays true because a step begins only
   when every earlier step has its outcome (`JournalDecodes`) and no outcome is ever
   rewritten;
9. `QuietInv`: no process is at the restore of the trees in a journal whose step 1
   failed, trees leave the candidate's state only with the candidate stopped, and the prior
   Science runs again only on restored trees.

`RestoresUnderQuiescence` reads `RestoreUnderQuiescence` off `QuietInv`. `Implements` is
the refinement, step by step. `ContractInit` maps the initial states. `ContractStep` maps
every action to one step of `CompensationContract` or to a stutter: `Stutters` and
`StaysOpen` for what leaves the phase and the world alone, `Works` for an effect on the
world (an open journal and a whole snapshot, by `IntentInv` and `SnapshotInv`), `GivesUp` for the two cleanup actions
that take the snapshot away (restored by then, `SnapshotInv`), and `CleanMeansRestored`
for `Finish`, which is where `WhyInv` is needed: a journal without a failed step has a
successful restore and a successful cleanup, so everything is back and the registry is
empty. That a journal is cleared only then is the contract's `Clear`.

Only model-checked: `CompensationSettles`, since liveness under fairness is outside the
prover's reach.

## 3. The authentication model

`LoginSidecar.tla` is the child process that runs the browser login
(`src/desktop/gateway/src/codex_auth/{cli,login_async}.rs`);
`CodexAuthSupervisor.tla` extends it with the Desktop's side. `LoginContract.tla` is the
abstract specification of a login.

### State

| Variable | In the code |
|---|---|
| `proc`, `peer`, `input`, `output` | the child process, its parent's ends of the pipes, and the lines in them |
| `ctl` | the atomic `LoginControl.state` |
| `stage`, `res` | the main thread: inert, opening the browser, waiting, exchanging, committing, finishing, and what came of it |
| `reader`, `ack` | the control reader thread, and an answer decided but not yet written |
| `stored` | the logins whose credentials are committed to disk |
| `login`, `preflight`, `mutation`, `users`, `shutting`, `last` | `SupervisorInner` |
| `cancel`, `pid`, `ident`, `disp`, `snap` | the `LoginOperation` record |
| `lpc`, `sent`, `term`, `outcome`, `acked` | the worker of a login: `start_codex_login_p2b_inner`, then `wait_for_login_sidecar` and what follows it |
| `upc`, `pfCancel` | the other tasks: status, preflight and its ready proof, a mutation lease |
| `cpc`, `told` | the `codex_auth_cancel` command and its last answer |
| `xpc` | `cleanup_for_exit_with`, and whether the process is gone |
| `receipt` | `auth_operation.state` of the durable config-mutation receipt |

### Actions

Every method of the supervisor runs under its mutex and is one action. A login is
`BeginLogin`, `OpenReceipt`, `SpawnSidecar`, `SetPid`, `BindIdentity`, two
`CheckpointStart`, `AuthorizeLoginStart` (the start line is written under the
mutex), `ReadStartAck`, a third `CheckpointStart`, with `StartFails` at any point;
then the poll loop `SendCancel`, `ReadEvent`, `Watchdog`,
`LoginDeadline`, `ReapSidecar`, and `ClearPid`, `FinishLogin`. In the child,
`ReadStart` / `AuthorizeStart` and `ReadCancel` / `WriteCancelAck` are two steps
each, because the main thread may write to the same pipe, or end the process, in
between. `CancelAsks` sets the flag and waits; `CancelReturns` may come at any time,
woken or timed out. `ExitBegins` and `ExitSignals` are the native exit; `Crash` and
`ExitLeaves` close the pipes of whatever child is left.

Abstractions: a line is a kind and a value, and the parser's checks of the other
fields are left out; the status and logout children are not processes here, only the
reservations they run under; a signal checks the identity and kills in one step, and
SIGTERM is enough; the lifecycle mutex around the start is left out, and cancel and
exit may overlap, which allows more interleavings than the code; the credential commit
is one step, because its state marker is written last; `acquire_use` exists only in
the tests, so a use lease comes from a preflight; what Science and the Gateway do
while they are stopped for a login is not followed.

### Runs

| Run | Instance | Shows |
|---|---|---|
| `Auth` | two logins in sequence (a late worker or a late cancel of the first meets the second), two other tasks, one exit, one crash: 3.3 M states | the five invariants and the refinement below |
| `AuthLive` | one login, one task, fairness | `CancelBeforeStartWins`, `LoginEnds`, `SidecarsFollow` |

A login never overlaps another (`OneReservation`), so two are enough for everything
one can do to the next, and two tasks for a race of two reservations.

Properties:

* `OneReservation` - one reservation of any kind, and no release, drop or late
  `finish()` takes another's away.
* `NoStraySidecar` - while the Desktop lives, a child process belongs to the registered
  login.
* `ImplementsLogins` - the supervisor, its worker, the child with its two threads and two
  pipes, the user and the exit refine `LoginContract.tla`, in which a login is five
  variables: its turn, whether a durable receipt tells of its start, its barrier
  (`LoginControl`), whether its credentials are stored, and what is recorded or said of it.
  Logins take turns; the barrier moves only in its turn, forward, and to a start or an
  end only under a durable receipt; credentials are stored only past a commit; a new word
  is true when it is first said, and nothing the contract allows can make it false. The
  answer `accepted` to a cancel is left out of what is said: it is also given when the two
  seconds pass without a decision. (`StartIsDurable`, `CommitAnswerIsTrue` and
  `CommitIsSpared` are stated in the module and proved for every instance; they need no
  run of their own.)
* `AckedCancelStoresNothing`, `FinalStateIsTrue` - what the supervisor shows of a login is
  true of the disk and of the commit barrier.
* `EventsInPlace` - the two threads of the child never make the strict parser see a legal
  event in an illegal place. (The parser's protocol error is therefore not an action: this
  child cannot cause it.)
* `CancelBeforeStartWins` - a cancel or exit that comes before the authorization keeps
  that child inert for ever.
* `LoginEnds`, `SidecarsFollow` - every login ends; a child ends after its parent.

### Fairness

Weak fairness for the worker, the reader, the main thread, the tasks, the cancel
command and the exit: they are threads in bounded waits or poll loops. None for the
user, who may never answer the browser, nor for the network, a crash or a failure.
`LoginEnds` rests on `LoginDeadline` alone in that case.

### Also seen

No run's subject: the native exit signals a registered child two seconds after its
cancel, also one that is past its barrier. That is the documented rule of an exit
(`docs/features/codex-science-bridge.md:122` and the comment in `cleanup_for_exit_with`), while a
cancel alone spares such a child (line 134, `CommitIsSpared`). `cancel()` answers `accepted` when two seconds pass without
a decision, although the child may still pass its barrier and store the credentials
(`docs/features/codex-science-bridge.md` has the sidecar accept; the final state is still
true). Two more outcomes, which no document contradicts: a `cancel` line that meets a child
that has just exited fails with a broken pipe before its output is read, so a stored
login is reported as failed (and its receipt keeps the attention); and if the
`start_authorized` checkpoint fails, or the acknowledgement is not read in ten seconds,
a child that may already be running is stopped without a cancel.

### Proofs

`CodexAuthSupervisor_proofs.tla` proves, for any number of logins and any set of other
tasks, `StartIsDurable`, `CommitAnswerIsTrue`, `CommitIsSpared` and the safety properties of
the two runs, except the two that have modules of their own: `CodexAuthEvents_proofs.tla`
proves `EventsInPlace`, and `LoginContract_proofs.tla` the refinement, `ImplementsLogins`.
Assumptions: `MaxLogins \in Nat` and `None \notin Tasks`. The argument, in four
invariants:

1. `TypeInv`: `TypeOK`, and a flow that has ended has a result (the terminal line is
   written from it).
2. `Exclusive`: `OneReservation` said of threads. A thread is active exactly while the
   supervisor holds its reservation, and two active threads are the same; inductive
   because every `begin_*` finds all of them idle (`FreeMeansIdle`). With `ChildInv` (a
   process nobody has waited for has its worker between spawn and the end of the watch)
   it gives `NoStraySidecar`.
3. `WordInv`: every word that is under way about a login is true of it. An answer of the
   reader, a line in the pipe, the worker's `term` and `outcome`, the record's
   disposition and state, the snapshot, the user's `commit_in_progress`: each claims that
   the barrier was passed, that it was not and never will be, or that credentials are
   stored (`TrueOf`). `SidecarIsSteady` shows that these facts never cease to hold, which
   is what the compare-and-exchange of `LoginControl` is for; so a word can be read at
   any later time, in any order. `AckedCancelStoresNothing`, `FinalStateIsTrue`,
   `CommitAnswerIsTrue` and `CommitIsSpared` are instances.
4. `StartInv`: whatever a sidecar does is downstream of one start line (`Begun`), which
   only `AuthorizeLoginStart` writes, after the receipt `start_prepared`. This is
   `StartIsDurable`. For `CancelBeforeStartWins`, a login whose cancel came early is
   `Doomed`: no step authorizes it, and a request to stop is forgotten only with the
   reservation (`RequestKept`, which needs `Exclusive`).

For `EventsInPlace` the invariant is `PipeInv`: while the Desktop is up, what lies in the
two pipes of a login fits the program points of its worker, its reader and its main
thread. It has three parts.

* `StartPipe`: nothing is in a pipe before the start line; a reader that has taken it has
  written the acknowledgement, which is the head of the pipe until the worker reads it and is
  never written again.
* `CancelPipe`: until the worker sends a cancel, none is in the input, no answer to one is
  held or written, and the child's input is open, so its end is not taken for a cancel.
* `FlowPipe`: after a terminal line only cancel answers are written (`FlowEnds`), because the
  main thread writes it last and exits, while its reader may still answer.

The lemmas on `Append` and `Tail` say what a write and a read keep of these; `PipeStart`
(the writes of the worker), `SidecarPipe` (the two threads of the child) and `PipeWatch`
(the reads) carry them through the actions of the login's own actors, `SidecarApart`
and `WorkerApart` through those of the other logins.

`LoginContract_proofs.tla` proves the refinement, `Implements`. The invariant is the
conjunction of those above with two small ones, `ReceiptInv` (the receipt tells of a
start exactly from the authorization of the start line on, so that no step of the worker takes
it back) and `FlowInv` (a flow that runs has left `waiting_start`). A step of a child is
`Contract!Child` or a stutter (`ChildWorks`): the child is alive, so it is its login's turn
(`ChildInv`), its control moves as `BarrierInv` says, and a start or an end is downstream
of a durable receipt (`StartInv`). Any other step leaves the barrier and the disk alone
(`OnlyChildrenDecide`), is `Begin`, `Prepare`, `End` or `Report` of the contract
(`WorkerWorks`; `Begin` because `Exclusive` makes a free supervisor mean idle threads), and
speaks the truth because `WordInv` holds after it (`SpeaksTrue`). `TruthLasts` says of the
contract itself that no step of it makes a true word false.

Only model-checked: the two liveness properties, `LoginEnds` and `SidecarsFollow`.

## 4. The configuration ledgers

Two commands change `config.json` *and* the runtime, each behind its own receipt beside
the file: turning the Codex experiment off (`commands/codex.rs`) and the configuration
mutations (`commands/runtime/config_mutation.rs` under `commands/profiles.rs` and
`commands/runtime/lifecycle.rs`: official mode, clear the key of, or delete, the applied
profile). `ConfigStore.tla` holds the files and the critical sections of `config.rs`;
`CodexDisable.tla` and `ConfigMutation.tla` run on it; `ConfigOperations.tla` composes
them with the boot decision, plain writers and the world, and holds the properties.

### State

| Variable | In the code |
|---|---|
| `image` | `config.json` without fences: the Codex switch and the rest |
| `journal`, `dfence`, `mfence` | `runtime_transaction`/`runtime_compensation`, `codex_disable_operation_fence`, `config_mutation_operation_fence` |
| `dreceipt`, `dclearing`, `mreceipt`, `mclearing` | the two receipt files and the private names they are renamed to before they are unlinked |
| `comp` | Science and the Gateway as the open operation's plan sees them: the planned instance, gone, restarted by this operation, or another one |
| `backup` | the rolling backup (it may hold the deleted key) |
| `pc`, `open`, `stopped`, `mopen`, `midx`, `outcome` | the program point of the command and of the boot decision, the receipt bytes in hand (every later write is a compare-and-swap against them), the stops proved, the answer |
| `seen` | what the boot decision read of `config.json` and of the receipts, in separate critical sections |
| `lease` | the lifecycle mutation lease |
| `did`, `owed`, `mdone` | ghosts: components this operation provably stopped; those it took down and has not put back; effects of the mutation that happened |

One action is one critical section of the config writer lock, one effect, or one
decision. `IO` gives every file operation three results: done, not done, and "reported
an error but done" (the failed rollback of a rename). `Crash` may come anywhere.
`BootLoad` may come while a command runs, because a second launch of the application
reruns the boot decision in the living process (`should_begin_boot`, `lib.rs`). It reads the
two receipts in two steps (`BootDisableReceipt`, `BootReceipts`), and a receipt or a
configuration it cannot read ends in its attention.

Abstractions: fingerprints and digests are the values they are computed from;
the supervisor generation checked under the lease is constant there and left out; causes
of attention are left out; a read of a command that errors is a refusal like any other; the
process crashes, the disk does not lose what was synced; a component the application does not
track counts as gone (`OfficialPlan` reads `comp` where the code reads its process-local
tracking, which this process keeps for what it started); the config check and the receipt's
compare-and-swap of one transition are one step (the open fence refuses a plain writer
between the two); other configuration mutations (settings, SSH, network, login, logout) run
other effects over the same ledger and are not followed.

### Runs

| Run | Instance | Shows |
|---|---|---|
| `ConfigOperations` | two operations, one boot beside them, one file fault, one outside change, one crash, two contents: 1.25 M states | four invariants, three action properties |

An operation can leave at most one record behind and the next one finds it, so two
operations are enough for every meeting of old and new record; the boot decision reads
only what a command or its crash left.

Properties:

* `LedgersExclude` - no two of the three records (disable, mutation, journal) are open
  together, although each is admitted by its own check and written by its own section.
* `RecordsAnchored` - a record speaks of the configuration it lies beside: no receipt
  outlives its fence, no fence stands over a third image, whatever plain writers do.
* `ReceiptTruth` - at every instant a crash may pick, what a receipt says of an effect is
  so, and what it does not announce has not happened.
* `FenceClearedIsSettled` - a fence goes only when nothing is left to decide.
* `RestoreAuthority` - a component is started again only by the operation that provably
  stopped it and under a receipt that says so.
* `HonestFailure` - a disable that answers a plain failure has left nothing behind. (A
  mutation whose `begin` fails may answer "failed" with a fence still there; the code
  says so in its message, and the property leaves that case out.)

No fairness is assumed: the commands and the boot decision are straight-line code whose only
wait, the boot's for the mutation lease, ends with the command's answer.

### Proofs

`ConfigOperations_proofs.tla` proves the seven safety properties of the run for any number
of operations, boots, crashes, file faults, outside changes and contents. The only
assumption is that the bounds are naturals (`BoundsAssumption`). Four invariants, each
resting on the ones before it:

1. `TypeInv`: the types, with the step each thread can be at and what it then has in hand.
2. `ExclInv`: `LedgersExclude`, and `Imaged`: under a fence the configuration is one of
   the two images the fence names. A plain writer and the other ledger keep both because
   they are refused by the same critical section that would change the file.
3. `MutationInv` and `LeaseInv`: where a mutation's receipt and effects are at each step
   of its thread, and that the command and the boot decision never both work on a record
   outside the mutation lease.
4. `DisableInv`: what the disable ledger says of the world (`RecordTold`: a recorded stop
   was confirmed, a recorded restore happened; `OwedDown`: an unrecorded stop is announced),
   what lies beside what (`Anchored`, `Orphaned`), what a thread knows of the record it
   works on (`Sections`, `Fresh`), `Marking` and `BootLate`. The last two are the delicate
   part: the boot reads the configuration and the receipts in separate sections while a
   command may run. A boot that cannot read the configuration puts its attention over the
   record of the running command, but never over one that already grants inverse authority
   (`Marking`), so a command going forward finds its own record or a `Marked` one and one going
   back its own. And a boot can decide on a pair that never existed; it is harmless because by
   then either it holds the lease, or the receipt it would act on no longer finds its
   before-image (`BootLate`).

## 5. The Skill operations

`SkillLedger.tla`, `SkillLifecycle.tla` and `SkillOperations.tla` model the confirmed
install and removal of a Skill (`src/desktop/skill-package/src/{operation,resolver,install,science}.rs`
behind `src/desktop/gateway/src/skill_install.rs`). A *plan* reserves capacity, downloads and stages the
archive and writes a ledger; *apply* consumes the confirmation and performs two effects
(an install commits the package and attaches it to the agent, a removal detaches it and moves
it into quarantine); *continue* performs the second one after an interruption;
*reconcile* reads back what an interrupted effect did. Every request is another call
with its own locks.

| Variable | In the code |
|---|---|
| `ledger`, `pend` | `<id>.json` and `.<id>.json.pending`, whole or torn |
| `resv`, `stage`, `tomb` | the reservation file and its phase, the child of the staging root (partial, a whole archive, or archive and receipt), the collector's tombstone by the record it retires |
| `expired` | the plan's expiry has passed |
| `lifecycle`, `run` | the holder of the lifecycle lock; the request at work per operation (program point, mode, effect, result in hand). A run's locks follow from it (`Locked`, `Busy`) |
| `asked`, `told` | ids already used, plans answered |
| `answer` | the answer of this step, if it gives one |
| `dir`, `attached` | what carries the Skill's name; the binding in Science |
| `late` | requests given up on that may still arrive |
| `issued`, `done` | ghosts: effects requested, effects that happened |
| `faults`, `env` | bounds |

`SkillLedger` is the record: `Legal` is the single-step relation, `Persist` the write
through a pending file with its ways to fail, `Loaded` and `Promote` the recovery of a
pending successor, `Project` and `Observed` the answers. `SkillLifecycle` has the
planning sections with a durable edge per step, and the collector they run first, edge by edge
(`DropRedundant`, `Bury`, `Unstage`, `Retire`, `Unbury`). `SkillOperations` has the
requests, one action per admission, intent, effect, record, and the world: `LateArrives`,
`Expire`, `Outside`, `Crash`. An archive can be refused before its child exists
(`StageArchive`), by its inspection when it is whole, or by a write or sync that
fails at any point, the last with archive and receipt complete (`RejectArchive`); its reservation
is then released (`ReleaseReservation`), which may fail as well.

Abstractions: one Skill name; `Package` says what each install plans, and the readback
(`Bears`) compares packages, as the code compares source and content and no operation id. The
runs let both installs plan one package, so that one may be credited with the
other's commit; a directory of another package is "legacy". Collisions of lock
buckets and busy answers of the operation lock are left out; the byte limit is the plan limit
times the largest archive; drift of the target binding is left out; the comparison before the
quarantine's rename and the rename are one step; a planning error's recovery flag
is left out; a torn file left by a failing write also stands for a crash in that
write; the mailbox's own answers to an interrupted host are not answers here.

| Run | Instance | Shows |
|---|---|---|
| `SkillOperations` | two installs and a removal, two plans at a time, any two faults (failing write, unclear request, failing effect, crash, outside change at most once): 1.15 M states | four invariants, three action properties |
| `UnownedArchive` | two installs, one fault | expected violation, finding 3 |
| `ConvenientFalse` | one install, one removal | expected violation, finding 4 |

Three operations for a bound of two make the capacity bite, and give every pair of kinds
(install/install, install/removal) on one name. Two faults put a crash behind
a failed write or an outside change behind a crash. `answer` is an event and the run's
`VIEW` leaves it out of the fingerprint: no action and no invariant other than its type reads it, and TLC
checks the action properties on every transition.

* `EffectsOnce` - no effect is requested twice, without a durable intent, or before the
  effect it follows is verified.
* `RecordTruth` - a verified package was committed by an install of that package, a
  verified move took place; a failed effect did not, and cannot any more.
* `ActsOnSealedSubject` - only a directory that bears the package of the plan is bound, only
  the sealed directory is moved.
* `AnswersHonest` - a final answer says neither "false" of what its operation did nor "true" of a
  package that no install of it committed, or a move that was not; an answer that asks for no
  recovery leaves nothing open.
* `CapacityHolds` - the bound holds although the lifecycle lock is given up during the
  download; and the archive of a plan that was answered never outlives its ledger. (That of a
  rejected plan loses its owner: finding 3.)
* `RecoveryKept` - a ledger is collected only when nothing is left to recover or continue, the
  record of a sealed archive only expired and after the archive.

### Proofs

`SkillOperations_proofs.tla` proves all seven properties of the run, for every finite set
of installs and removals, every capacity and any number of faults and outside changes.
Assumptions: the two sets are finite and disjoint, `Cap` is positive, the bounds are
naturals, and the absent file, the torn file and the marks of other people's directories
differ from every record and id (`SkillConstants`, `NoLedger`, `LifecycleConstants`,
`EnvAssumption`). The argument, in three invariants:

1. `Base`: the types; `SectionAt`, what a planning section has made durable when it
   reaches a step (so that the archive of an answered plan never lies without its ledger,
   and a record is sealed only after its archive); and `PendingOpen`, a pending successor lies only beside an open ledger. It gives
   `RecoveryKept` (the collector retires settled ledgers, which therefore have no
   successor) and, by counting, `CapacityHolds`: the plan that adds a reservation holds
   the lifecycle lock and has just counted.
2. `Sound`, for each operation: its ledger is `Ordered` (the second effect is touched only
   after the first is verified) and an untouched effect was never requested; every state
   it records is a `Fact` about the world; what happened was requested; and a request at
   work has the ledger its section read, in the state its step implies. A fact never
   ceases to hold when another request arrives late, because only an `uncertain` effect
   has one. `EffectsOnce` and `RecordTruth` are instances; `AnswersHonest` compares the
   answer of each step with the facts.
3. `Single`: under the name lock at most one request applies or continues, and between
   the commit of a package and the request that binds it nothing replaces the directory
   (`Subject`). This is what `ActsOnSealedSubject` needs.

### Findings

3. `UnownedArchive`: staging that fails after its child was created has its reservation
   released with the child in place. No record names the child afterwards, so it is
   neither counted nor collected. Two comments of `operation.rs` (799-803, 3706-3708) say a reserved
   record goes only when that child is absent, since otherwise it would be invisible; the comment
   at the release itself (918-922) wants a rejected plan to give its slot back at once. Only an
   expired reservation is collected together with its child (3904-3912).
4. `ConvenientFalse`: a removal whose directory changed while Science detached
   the Skill answers that it was rejected before any effect, with `detach_verified: false`
   and no recovery, although its ledger records the detach as verified.

Also seen, and no run's subject: never confirmed plans and operations whose first effect failed are never collected, so enough of them exhaust
the capacity for good (the architecture document speaks of expired plans); a
collector that dies between the archive and its directory, and a torn reservation or
tombstone, make every later plan fail; a torn pending file blocks its operation for good;
a reconcile that reads the same uncertainty a second time answers an error; a late
request may bind or unbind the Skill after a later operation.

## 6. History recovery

`HistoryRecovery.tla` models the restore of a history record the user chose
(`restore_history_choice_entry`), the compensation when it fails, the snapshot registry
(`pending_cleanup.rs`) it shares with the one-click transaction, and the replay a
one-click login starts with (`one_click_login_entry`). The application is a single
instance (`lib.rs`) and `with_mutation` serialises its commands, so one program counter is
enough; what comes between two steps is a failure or a crash.

| Variable | In the code |
|---|---|
| `record` | `runtime_transaction` with its operation, phase, prior-stop state and whether a login follows |
| `registry`, `snapshot` | the pending-cleanup manifest; the snapshot root it names: bare, captured, or with its private manifest |
| `creds` | the four protected entries on disk, by the operation that wrote them |
| `science`, `managed`, `session` | Science; whether `AppState` names it; `AppState.history_recovery` |
| `pc`, `by`, `hand`, `resume`, `note`, `pos`, `failed` | the running command: its step, kind, the record it expects, its argument, the stop outcome or purpose of a cleanup, the entry, collected errors |
| `before`, `early` | ghosts: the entries when the operation began; a restore without intent has replaced one |

One action is one durable write, one file operation on an entry, or one observation. A
write is `ok`, `refused` (nothing changed) or `late` (changed, then an error). The restore
runs `Begin`, `StopScience` and `PublishStop` or `ProbeQuiescence`, `Recheck`, `Register`,
`Copy`, `Activate`, `PersistManifest`, `IntendWrite`, `TakeLease`, `WriteEntry` four times,
`Publish`, `Expire`, `RemoveRoot`, `EmptyRegistry`, `Complete`, `Handoff`. `Compensate` parts
into `TreeRemove`/`TreeCopy`/`RestoreConfig` before the intent and `Quiesce`, `IntendRestore`,
`OpenManifest`, `EntryRemove`/`EntryCopy`, `SettleRestore`, `Spend`, `Clear`, `RetryRemove`,
`RetryEmpty` after it. `OneClick` chooses the replay by the phase it finds and enters the
second of these, or `ReplayFinalize` and `ReplayComplete`.

`RemoveRoot` answers degraded when the cleanup is refused for the identity of the root or its
manifest, and goes on when it only failed. An error of the `AppState` restore behind the
configuration write has the state change of a late error of that write, and is one with it.

Abstractions: the configuration beside the record and its drift (plain writers are fenced
while a record is open, section 4); discovery of the choices, cryptography and the
identity checks of files; `Route` stands for the login that follows, which may start
Science and ask for a choice; the login a restore resumes is a command of its own; somebody
else starts or stops Science only while no command runs (between the probe and the write the
code has no protection either, which is the reason `science` is not free there).

| Run | Instance | Shows |
|---|---|---|
| `HistoryRecovery` | two choices, any two failing steps, two crashes: 609 k states | four invariants, an action property, `JournalSettles` |
| `HistoryEarly` | one choice, one failing step, one crash | expected violation, finding 5 |

The second choice meets what the first left in the registry; two failures put one into a
compensation or into a replay; the second crash hits a replay.

* `TornIsJournaled` - entries that are neither the login before nor the chosen history have
  an open intent, and a protected snapshot of the login before with its manifest.
* `JournalIsTrue` - each phase of the record is true of the disk, so that a replay that knows
  nothing else finds what it needs and declares nothing that did not happen.
* `AnswersAreTrue` - restored or degraded means the chosen history is on disk, refused or
  compensated means the login before.
* `WritesUnderQuiescence` - entries change only while Science is stopped and unmanaged, under a
  record of the operation that changes them, although Science may have been started again
  between a crash and its replay.
* `JournalSettles` - a record whose stop is known to be safe is closed in the end. A stop
  with an unknown outcome stays for a person: the exception is the code's.

Fairness (`PersistentSpec`): weak, of the steps of a command and of a user who, refused, clicks
again; strong, of the same user stopping a Science that is in the way. Failures, crashes and
other starts of Science are bounded and have none.

### Finding

5. `HistoryEarly`: a failure between the snapshot and the intent to write makes the
   compensation remove and copy back every tree while the record says that nothing was
   touched (`authority_snapshot_active`). A crash between the removal and the copy of an
   entry leaves that record; its replay gives the snapshot up and deletes the only copy. A
   comment in `recovery.rs` says that only a success or a fully successful compensation may do
   so. It is the `early` exception of the properties above.

Also seen, and no run's subject: a crash between the registration of a snapshot and the phase
that names it, and a compensation whose trees failed but whose configuration came back, leave
recovery material registered without a journal. Every later restore or login is refused by
it, and nothing in the program removes it.

### Proofs

`HistoryRecovery_proofs.tla` proves all four invariants of the run and its action property,
for any number of choices, failures and crashes. Assumptions: the bounds are naturals, and
the absent record is not a number, a record or a snapshot (`HistoryConstants`,
`NoneAssumption`). The inductive invariant `Inv` has seven parts:

1. `TypeInv`: `TypeOK` with the steps a command can be at;
2. `DiskInv`: `JournalIsTrue`, which is nearly inductive by itself, and that a missing record,
   or one that has not stopped Science yet, stands over untouched or wholly replaced entries;
3. `CommandInv`: what the restore knows at each step. The record it holds is the one on disk
   (nobody else writes it while the command runs), Science is quiet from the stop to the last
   write, the snapshot is the login before, and while it writes, entries up to `pos` are
   the chosen ones and the rest untouched (`Reached`, `Pending`);
4. `CleaningInv`: what a cleanup belongs to, which decides whether its failure may be
   answered as compensated or degraded;
5. `TreesInv`: the compensation before the intent: either an error was kept in `failed`, or
   the entries reached so far are back;
6. `ReplayInv`: the same of the restore under the intent, by the command or by a replay, and
   the phase each replay works on;
7. `AnswersAreTrue`.

One lemma per action proves each part from the parts it needs. `TornCredentialsAreJournaled`
reads the phases off `DiskInv`: in every phase but the two of the intent the entries are whole.
`JournalSettles` is liveness and only model-checked.

## 7. Plan

What is left, most important first.

1. `OneClickTransaction` - the forward run. Its end states are the `PossiblePlans` and
   initial states of `OneClickCompensation`, to be shown by a run, so that the two
   compose.
2. `PendingCleanup` - boot sweep of registered snapshots against a live capture.
3. The legacy Skill path and bundles, over the same name lock.
4. Migration and downgrade of `config.json`.

Every invariant, every action property and both refinements that a passing run checks
are also theorems. What stays with TLC is liveness: `CompensationSettles`, `LoginEnds`,
`SidecarsFollow` and `JournalSettles` hold under fairness, which the prover cannot reason
about.

## 8. Not modelled, and why

* Protocol translation in the Gateway, model catalogues, presentation, packaging and
  release tooling: pure data conversion or plumbing, without state that a step of
  another actor could disturb.
* Discovery and adoption of a Science executable, process-table and socket inspection:
  they are observations of the operating system; the models take their verdicts as
  choices.
* File-system atomicity (temporary file, fsync, rename): a durable write is one step.
  What happens between two durable writes is modelled everywhere.
* Content of OAuth, profiles and trees: no property distinguishes more than whose
  content it is.
* The Gateway controller, the claimed Science stop and the process-local lifecycle
  serializer: every caller that replaces a runtime, a key or a Gateway runs under one
  process-wide mutex (`with_mutation`, `lifecycle.rs`), and the generation and owner checks
  behind it are a second line of defence. A faithful model cannot reach the races they
  exclude, so no mutant of them would be caught; they become worth modelling with the
  first caller outside that mutex.
* The Gateway's connection permits: a guard gives each back on every path.
* Everything in the plan above until its module exists; `PROJECT.json` gives each part's
  status.
