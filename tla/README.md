# Cargo Port in TLA+

A verification development of [cargo-port](../src/README.md), a terminal
application that watches a directory tree of Rust projects: it scans them, lints
them when their sources change, runs and stops their binaries, shows which cargo
builds are going on and can stop those too. The modules here describe the parts
where threads, processes and files meet, TLC checks them on small instances, and
TLAPS proves the most important facts for instances of every size.

## The system

One application thread owns all user-interface state and never blocks. Everything
slow happens elsewhere and reports back over channels:

| part | state | operations | talks to |
|---|---|---|---|
| lint runtime (`src/lint/runtime`) | supervisor's workers, per-worker deadline, stop flag, child slot; pause flags; catch-up set; status cache | sync, register, unregister, trigger, pause and resume (all, one project), shutdown; a worker debounces, runs commands, records | application over a channel and the shared pause state; `latest.json`, `history.jsonl`; child processes |
| lint history (`src/lint/history.rs`, `cache_size_index.rs`, `reclaim.rs`) | one history file and archive per project, one byte count | append, prune oldest, read, reclaim | the workers, the application |
| owned run (`tui/state/inflight.rs`, `owned_run_process_actor.rs`) | one lifecycle slot, retained output, command channel, admission lock | queue, launch, record output, request termination, reconcile, finish, clear | worker thread, two reader threads, the child's process group |
| build monitor (`src/build_monitor`) | sessions, scopes, last snapshot, termination authorities | classify a snapshot, present, authorize and submit a termination | process observation, process termination, owned run |
| build termination (`src/build_monitor/termination`) | one transaction: roots, admitted descendants, external pass, owned targets, deadline, results | submit, reconcile observation / worker outcome / owned outcome, expire, complete | build monitor |
| process termination (`src/process_termination`) | one worker with a request queue, bound process handles | execute a plan target by target until the deadline | operating system |
| process observation (`src/process_observation`) | one refresh in flight, consumers' deadlines | arm, dispatch, correlate, retry | its worker thread |
| file watcher (`src/watcher`) | debounce and in-flight state per disk key, repository, new directory | event, deadline, completion, probe | application, lint runtime |
| metadata store (`src/project/cargo`) | accepted metadata, dispatch generation per workspace | dispatch, accept if current | cargo processes |
| scan, startup phase, network state, toasts | keyed and counted phases, in-flight sets | begin, mark seen, complete, hand over | background tasks |
| panes, overlays, key maps, columns, themes, `tui_pane` | presentation | draw, navigate | application |

What is hard in it: a pause must stop running commands without losing the work
they stood for; a run must not be recorded by halves; a signal must never reach a
process it was not meant for; late answers must not be applied to the next
request; every wait must end. The list of hazards is in `PROJECT.json`, each at
its line, with the properties that watch it.

What makes each part correct, in a sentence:

* lint runtime: every edit of a watched project is linted or still pending, what
  the records and the display say of a run is true, and stopping always ends;
* lint history: a run's line and archive come and go together, the newest stay;
* owned run: one live run, its output its own, every stop request answered;
* build termination: a target is signalled at most once, only with fresh
  authority and after the descendants admitted right below it, and the transaction ends exactly once;
* process observation: one refresh in flight, answers matched to requests, no
  consumer starved;
* watcher: a change seen is a change refreshed, one refresh per key at a time;
* metadata store: only the newest dispatch of a workspace is accepted;
* startup phase and network state: every phase completes, hand-over happens once.

## Modules

| module | models |
|---|---|
| `LintRuntime` | application, supervisor, workers, commands and records of the lint runtime |
| `LintRuntimeMC` | what earlier sessions may have left on disk, for TLC |
| `LintRuntimeProofs` | its theorems about commands, records and verdicts |
| `LintPauseProofs` | that pauses settle on what the user asked for |
| `LintCatchUpProofs` | what a pause puts off: edits, stale markers, killed runs |
| `OwnedRun` | the owned run: slot, worker, readers, processes |
| `OwnedRunProofs` | its theorems |
| `RunSlot` | what the owned-run slot promises; `OwnedRun` implements it |
| `BuildTermination` | stopping builds: the monitor's transaction, the termination worker, the observer, the processes |
| `BuildTerminationProofs` | its theorems |
| `LintHistory`, `LintHistoryMC` | history files, archived logs and the count of their bytes under several workers; the symmetry for TLC |
| `LintHistoryProofs` | sums, sorted sequences, and the types of `LintHistory` |
| `LintPruneProofs` | what a prune nobody interferes with evicts, leaves and stores |
| `Watcher` | file events, registration, refreshes, probes, the scan and the project list |
| `WatcherProofs` | its theorems |

### LintRuntime

The supervisor's channel is `queue`; a message is a kind and the set of projects it
concerns. `supPc` is the supervisor's program counter: most handlers are one step,
and those that another thread can observe half-way (hydrating a status, stopping
and joining workers, draining) are several. Each worker has a program counter
`pc[p]`, the index of its command and whether one failed; its steps are those of
`WorkerContext::run`, `run_due`, `run_commands_for_project` and `execute_commands`,
cut wherever it reads or writes something another thread touches: the pause flag,
the catch-up set, the child slot, the status cache, a file. `child` and `slot` are
the process of the current command and the slot it can be killed from.

Statuses reach the display through one FIFO channel; `shown` is the display once
that channel is drained, and so is updated at the moment of sending. A terminal
status makes the application reload the history, hence `Terminal(status, history)`.
A startup status is sent in three steps, for each project of a scan (`SyncProjects`) and
for a registered one: the supervisor looks it up in the cache or reads the disk (`Hydrate`),
fills the cache (`Insert`), releases the lock and sends (`Tell`). A worker may publish a
verdict between any two. The lookup that misses and the read, with the removal of a dead
run's record, are one step: in between a worker of that project would have to touch the
record, and one without a cached status has nothing to do yet (`HydratedBeforeRun`), unless
`lint.on_discovery` is immediate.

`latest` and `history` stand for `latest.json` and the newest line of
`history.jsonl`. `Leftovers` is what a previous process can have left there: nothing, a
Running record, or a verdict whose history line was never appended because the process died
in between; a restart therefore needs no action of its own. `newest` is the verdict of the
last run that reached one. The directory of a project may vanish and return (`DirChanges`);
the application notices later (`NoticeDir`). `DropHandles` is a configuration change that
replaces or disables the runtime.

With `IoMayFail` every access to a file and every spawn may fail, and what the code does
then is what the model does. A Running record that cannot be written ends the run before it
starts; a log or record that cannot be written around a command ends it by the finalize guard
(`Guard`), which removes the record and publishes what is left, and does neither when the
removal fails. A run that a pause or a vanished directory ends removes the record first and
ignores the error (`RunEndsEarly`); the guard then tries again, and if *it* succeeds, the
previous verdict replaces the `Stale` just published. A history append that fails leaves the
old verdict on display. A pause marker that cannot be written or removed leaves the old one,
and nobody learns (`WriteMarker`).

Seven variables are not in the code. `owed` says whether an edit has been covered
by a run that started after it and was not killed, `killed` that the current run
lost a command to a kill, `wantPaused` is the user's last global wish, `newest` is described
above. Three record what the code lets happen, so that properties can except exactly that:
`uncleared`, the projects whose last removal of a Running record failed; `unmarked`, those
whose last marker write or removal failed; `overtaken`, those whose displayed status is a
startup status sent after a worker's newer one.

Not modelled: the global pause marker, which is read at the start of a session only; origins
of runs, debounce lengths (a deadline may come at any time), log files, run identities and
timestamps, the pruning of histories (`LintHistory` has it),
two runtimes at once during a configuration swap.

### OwnedRun

`life` is the `OwnedRunLifecycle`, without the momentary `Starting`. `worker` is the
program counter of the thread that alone reaps the child and signals its group,
`commands` its command channel, `accepting` the admission lock's state, `events` the
channel of `OwnedRunEvent`s to the application. `child` is the root process, `heir`
stands for descendants that inherited the pipes. `tail` is the last line of the
retained output, enough to tell what the completion markers do. Tokens of earlier
runs may be submitted, since a confirmation dialog can outlive its run. Launching is two
actions: the application starts the worker (`Launch`) and then sends `Started`
(`SendStarted`), so the worker and the readers may send before it, `Finished` included. The
application does nothing else in between (`starting`). It takes one event at a time, so a
late `Started` may still be in the channel when the next run is launched; it changes nothing
then or ever. A line is an `Output`, which is appended, or a `Progress`, which takes the place
of the last retained line. `kept`, `replaced` and `erased` count the lines of the run that are
retained, that a progress line took the place of, and that the user cleared. `MaxId` is the counter's last value, so
exhaustion is a case TLC meets.

`RunSlot` is what the rest of the application may rely on: at most one live run,
fresh identities, and a run reported killed exactly when it was signalled. The
refinement maps the nine lifecycles to five slot states and the history variable
`signalled` to itself.

### BuildTermination

`tx` is the active transaction of `build_monitor/termination/transaction.rs`, field by
field: `pending`, the admitted descendants with their parent (`above`) and root (`top`),
the targets whose capability is not yet spent (`ready`), the external pass with the
request and batch it awaits, the progress of the owned target, the results. `Idle` is
the absence of one. `entry` is the registry of Terminating and terminal entries;
completing a transaction (`Settle`) is part of every handler that may remove the last
target, as it is in the code, and the monitoring-off wrapper of `BuildMonitor` is part
of `Settle`.

The application's handlers are one step each: submission with the submission of the
owned target in the same call, demand, observation, worker outcome, owned event, expiry.
The worker is cut at its reads of the clock and of the process (`Take`), its signal and
its confirmation, because processes exit, fork and are reaped in between. `plans` and
`outcomes` are its two channels. `obs` follows one observation from the demand through
the snapshot to its result; the executor has one cycle in flight. Processes are what
`/proc` shows of them: an exited process stays in the table until reaped, still has an
identity and no readable working directory. `Look` leaves open which live processes are
in scope, of an admissible kind, or actionable. A descendant whose parent is excluded (a shell,
a compiler cache) is admitted with that parent and its root on record.

The owned run appears as its slot, its actor's pending request and its event channel;
`OwnedRun` has the rest. Events carry here the author of the request they answer, which
the code's events do not: `OwnAnswer` states that nothing is lost by that.

`sent` (signals per transaction and process) is the one history variable; `overdue` is
the clock: the set of transactions whose five seconds are over.

Not modelled: the freezing of an authority and its comparison with the current display
(submission takes any set of sessions while the display is fresh), the numbering of
targets and its exhaustion, which session replaces which record (any set), the
aggregate over sessions, the executor's scheduling, the worker's start-up handshake. An
identity is assumed to be readable for as long as a process is in the table, so that a
process is observed gone only when it is.

### LintHistory

`history` and `archive` are the files: a history of run numbers per project, the bytes of
each archived run. `index` is the stored count of all bytes, `None` while it was never
seeded. `worker[w]` is the place of a worker between two accesses to a file, with the
locals of `prune_runs_under` it carries there, `app` the same for the application's two
operations (seeding the count, clearing a project's history).

There is no lock around any of it but `ADJUST_LOCK`, around the adjustment of the count, so
each access is an action: archive, adjust, append, adjust, walk, collect, one eviction, the
count of the lines of a file, its second reading, its replacement or removal, the stored
total. Counting the lines of a file, reading them again and writing them back are three
actions, because a line may come in between. The length of the file that is subtracted
afterwards is that of the lines read, or of the file removed. A batch of the prune is a
twentieth of the limit, and one if that is nothing. A run is a number, so "older" is "less";
the code orders by the time in the line. Reading a history is one step, as appends and renames
are atomic for the sizes at hand.

The count is written in two steps, from the moment its new value is settled (read and
adjusted under the lock, or measured) to the rename. A prune and a seed take no lock, so their
write may overlap with an adjustment or with each other, and all go through the same temporary
file. `torn` says that the writes under way have overlapped; each of them then leaves a number
nobody can predict (`Drifted`) or none at all. An adjustment that read before a prune wrote
undoes the prune's correction, and is `Drifted` too, as any adjusted number is: it is as right
as the one it was read as. A write that is alone stores its number or, if it fails, leaves the
old one. So `index` is a number in `Nat` only after a prune or a seed has put it down by itself.

A clear may fail half-way: it then leaves any of the archives, the history or neither, and the
count as it was.

`calm` is not in the code: the pruning workers nobody has interfered with since they began.
The three properties of a prune are about calm ones, because the others do not hold otherwise
(see Findings).

Not modelled: `latest.json` and the rolling logs in the totals, lines that do not parse
(they are kept and counted), failures of single file operations within a prune other than a
missing file and of the count; an archive is removed whole or not at all.

### Watcher

`phase`, `projects`, `buffered`, `refresh`, `candidate` and `discovered` are the fields of
`WatcherLoopState`; `notify` is the backend's channel, `registering` and `completing` the
channel of the application's requests. A refresh is `idle`, `pending`, `overdue` (pending
beyond `max_deadline`), `running` or `dirty`; `task` is the asynchronous task that reads for
it and `todo` the checkouts one for the repository has still to read. `walks` are the walks
of a directory's size nobody orders with the refreshes: of the scan, after a discovery, for
the selected project. The stages of a tick of `watcher_loop` are actions taken in any order,
a superset of the code's order. Events are idempotent and commute, so their channels are
sets; `inbox`, the channel to the application, keeps its order.

A deadline is nondeterminism: a refresh may fire whenever it is pending, because its
debounce deadline may have passed, and fairness fires it only when overdue, because only
`max_deadline` is never put off. A candidate is due at any time.

All directories are checkouts of one repository. The tree follows `handle_scan_result`,
`handle_project_discovered`, `apply_disk_usage` and `dismiss`. `Rescan` and `Reconfigure`
replace the watcher; the old one stops at once in the model, as its request channel
is dropped; what its tasks have read may still arrive after `Reconfigure`, and is lost with
the application's end of the channel after `Rescan`.

`owed` is the history variable behind two properties: the changes of known projects that no
refresh has read. `exposed` collects the directories whose change fell into one of three
gaps of the code: changed between its reading by the scan and the start of the watcher;
removed while a walk nobody waits for holds its size; under way when a lint configuration
replaces the watcher. The constraint of the run ends a behaviour there, and
`TreeFollowsDisk` says nothing about it. Each of the three exclusions is needed: TLC finds
`TreeFollowsDisk` violated without it.

Not modelled: watch roots and their failures, excluded names, the classification of paths
beyond source, target and git (a change below `.git` outside the refresh list schedules
nothing, and is no event of the model), errors the backend reports (they are logged, and what
they stand for is lost), the triggers into the lint runtime and the metadata refresh,
the semaphores that bound concurrent walks, project details other than presence and size.

## Runs

| run | instance | shows |
|---|---|---|
| `lint_pause` | 2 projects, 1 command, a user who waits for a toggle to settle | no edit is lost, cancelled markers are followed by runs, edits get linted; 519 488 states |
| `lint_records` | 1 project, 2 commands, failing i/o, vanishing directory, two scans, impatient user | records, spinner, verdicts, processes and pause state stay truthful but for what the disk refused; joins return; shutdown ends; 486 505 states |
| `lint_killed` | 1 project | *violated*: a killed run can be recorded as failed |
| `lint_lost` | 1 project | *violated*: a resume can race the catch-up set and lose an edit |
| `lint_escape` | 1 project | *violated*: a command just spawned survives a pause |
| `owned_run` | 3 runs and an exhausted counter, 2 lines and 2 stop requests each | no request unanswered, output complete but for what was cleared or replaced, and attributed, signals only before the reap, `RunSlot`; 31 414 states |
| `termination_tree` | 1 external root, 2 descendants | one signal per process, recorded leaves first, no target without a result |
| `termination_again` | 1 external root and the owned run, 2 transactions | late answers stay with their transaction; records are true; the registry mirrors the active transaction |
| `termination_end` | the same, 1 transaction, worker and observer may be lost, fairness | the deadline always ends a transaction; disappearance of all targets ends it earlier |
| `termination_refused` | 1 external root | *violated*: a signalled target can be recorded as refused |
| `history_prune` | 2 workers, 3 runs of which 1 is old, archives of 30 bytes, limit 40, one clear | an undisturbed prune takes the oldest runs, never the protected one, reaches the limit, and the number it puts down by itself is right; 2 996 665 states |
| `watcher_follow` | 1 directory, changes of sources, 2 messages in the inbox, fairness | no change forgotten, changes that never stop are still read, the tree agrees with the disk |

Bounds. Two projects are what a per-project pause needs to differ from a global one;
the workers share nothing else, and the proofs cover any number. Two commands have a
between; a third only repeats it. The toggles of `lint_pause` allow a pause, a
resume and one more of either scope; its one edit may fall on either project and before,
during or after a pause, and what a pause interrupts needs no second one.
`lint_records` allows the directory to go and come back, two scans and three toggles, four of
these and the edit together (`MaxEvents`), in any order and at any moment; every access to a
file may fail in each of them. `lint_pause` spends five. The bound on all of them together is
what keeps the two instances small: a scan in the middle of quick toggles, a directory that
vanishes under a paused run or a startup status under a run each take three or four. Three owned runs let an
event of the run before last arrive; two requests per run let the second follow a
failed first.

Two descendants are the least that can be siblings or a chain, and a chain is what
distinguishes a parent from a root; a second root shares nothing with the first but the
worker's queue. Two transactions let an outcome arrive late; the number of passes is
not bounded. `lastId` stops at `MaxTx` as the code's counter stops at its last value.

Two workers are what one prune and one interference need, and the symmetry of
`LintHistoryMC` holds as nothing tells the projects apart. Two archives of 30 exceed the
limit of 40 and one does not; a line whose archive another prune or half a clear has removed
makes a batch reclaim nothing, and a limit of 40 makes batches of 2, so that one eviction passes several. One clear suffices to
remove a directory under a prune or under a late seed.

One directory goes through everything the watcher does to a directory; a second shares the
channels and the repository's refresh, whose sharing the proof of `ChangesKept` covers for
any number. `MaxInbox = 2` is what the two messages of a probe need; the real channel is
unbounded, so a send the bound holds back is given strong fairness, which is what weak
fairness of the real send amounts to.

`CHECK_DEADLOCK FALSE` in `LintRuntime`, `OwnedRun` and `LintHistory`: after `DropHandles`, or when the user does nothing
more, the system is meant to be quiet.

Fairness. The operating system runs every thread, so each thread has weak fairness
on its steps taken together; lint commands terminate (a hung command blocks its
worker in the code too, until a pause or a stop kills it, which the model keeps);
the user owes nothing. In `OwnedRun` a run may go on for ever, but a *signalled*
process group exits: a program that ignores SIGTERM keeps the slot in `Stopping`,
the code has no escalation, and `StoppingEnds` says so by its assumption. In
`BuildTermination` the event loop ticks, so demand, observation and reconciliation go on
(weak fairness on the three together: one cycle is always in one of the three stages),
results and owned events are received and an expired transaction is expired; the
worker's steps are fair as long as it is there. Nothing is assumed of the processes, of
the clock, or of a broken thread: `DeadlineEnds` starts from a deadline that has passed,
`GoneSettles` from targets that are gone. In `Watcher` the loop, the clock and the
application's message loop go on and a task that was started reads and sends; nothing is
assumed of the disk, the user, the scan or the probes, so `ChangesRefreshed` holds while a
project is written to without pause.

## Findings

Four runs end in a violation, and each is listed under `findings` with the lines
concerned. The first three are races between a pause or a resume and a worker between two
of its steps: the record of a killed run (`lint_killed`), the catch-up set
(`lint_lost`) and the child slot (`lint_escape`). `lint_pause` shows that with a
patient user neither of the first two matters.

The fourth (`termination_refused`) is about a result's meaning. When the deadline comes,
`expire` records every external target that is still pending as refused because of the
deadline, the ones that were signalled and survived included, while the type's
documentation promises that a refusal means no signal and that `DeadlineExpired` means
the pass had not begun.

More was met while modelling, without a run of its own.

* A rescan leaves the lint runtime behind: `App::rescan` respawns the watcher
  (`async_tasks/tree.rs:107`), handing it the runtime of the moment, and then replaces that
  runtime (`tree.rs:109`). The watcher's triggers go to the old one, which its handle keeps
  alive; pauses reach only the new one, what the old one reports is lost, and both write the
  same records. A change of the configuration does the two in the right order
  (`async_tasks/config.rs:389-412`). `LintRuntime` has one runtime and does not show it.
* The second reading of a history by a prune and its replacement are two steps: a line
  appended in between is lost and its archive stays for ever.
  Line numbers counted before another worker's prune take the wrong lines. Both need two
  projects whose runs end within the same milliseconds.
* The three gaps of `Watcher`, above: until its next change a directory is shown that is
  gone, or not shown though it is there.
* The cache-size count drifts while workers, seeds and clears race, as `cache_size_index.rs`
  says it may. Its promise that the next prune corrects it holds of the number a prune puts
  down (`CountCorrected`), not of the file afterwards: the write is outside `ADJUST_LOCK`
  (`history.rs:370`), so an adjustment that read before it and writes after it undoes it, and
  all writes share one temporary file, so two at a time can leave a mixture. The seed
  (`history.rs:49`) has the same gap.
* A startup status can overtake the verdict of the worker: it is looked up, the lock is
  released, and it is sent (`supervisor.rs:205-208`, `300-303`). The older one then stays on
  display until the next run or scan, while the cache and the disk are right. This is what
  `overtaken` excepts from `VerdictIsNewest`.
* A Running record that cannot be removed stays, with its spinner: the guard returns before it
  publishes anything (`command.rs:191-195`). This is what `uncleared` excepts. When the first
  removal of an interrupted run fails and the guard's own succeeds, the guard publishes the
  previous verdict over the `Stale` it was meant to leave alone (`command.rs:316-332`).
* A project whose pause marker could not be written is paused in memory until the next scan,
  which reads the markers and takes the pause away without resuming: what was put off then
  waits in the catch-up set for the next resume. Hence the hypothesis `MarkersTaken` of the
  theorems on what a pause puts off, and `unmarked` in `PauseConverges`.
* Leaves come first only as far as the recorded parents go: an admitted process may be
  signalled before an admitted one below it if the process between the two was excluded
  (`transaction.rs:1268-1272`, `observation.rs:293-310`). `LeavesFirst` states what the code
  does: no descendant with the process as its parent, or as its root, is still to go.

## Proofs

`LintRuntimeProofs` proves, for every set of projects, number of commands and bound,
and, where nothing else is said, any mix of i/o failures:

* `TypeCorrect`: the types;
* `CommandsAreOwned`: a command never outlives its worker;
* `RecordsAreBacked`: `latest.json` says Running only while a run is alive, the
  project has not been hydrated, or the record could not be removed;
* with `DiscoveryImmediate = FALSE`, `LiveRunsAreMarked` (a live run is marked in
  `latest.json`), `SpinnerFollowsRun` (but for a record that could not be removed) and
  `VerdictsAreNewest`: a verdict in the cache, or on display unless a startup status overtook
  the worker's own, is that of the newest run or of the newest one in the history.

`NoOrphanCommand` is not inductive: it needs to know that a killed child's worker is
waiting (`CommandOwned`), and `TypeOK` needs `CommandOwned` for the command index.
`NoStrandedRunning` needs the supervisor's half-done hydration (`RecordsBacked`). For
the others a worker whose project is not hydrated must have nothing to do
(`HydratedBeforeRun`); this is where immediate discovery breaks: a worker spawned by
a registration may then start its run before the supervisor, still hydrating, clears
the Running record. A verdict is the newest because the cache is filled by the worker from the
moment its project is hydrated, and the supervisor only repeats what it finds there or on a
disk nobody else touches (`NewestOnly`); what it sends late is by definition overtaken.

`LintPauseProofs` proves `PausesSettle` with no hypothesis: once the supervisor has nothing
left to do, the flag, the set and the markers on disk are what the user last asked for, but
for the projects whose last marker the disk refused. The wish is kept in three places, by two
threads at different times. The invariant (`PauseInv`) says of every wish not settled yet which message on its way will settle it:
the last toggle on the channel decides the flag, the last one about a project its place in
the set, and a scan that reads an old marker is itself followed by the toggle that has not
been handled.

`LintCatchUpProofs` proves what a pause puts off, for a user who lets a toggle settle before
the next one (`PatientUser`). Its hypotheses, and what goes wrong without them:

| theorem | hypotheses | without them |
|---|---|---|
| `EditsAreKept` | `PatientUser`, markers taken | `lint_lost`: a resume races the catch-up set; a scan takes away a pause whose marker is not there |
| `MarkersArePromises` | `PatientUser`, no i/o failure, directories that stay | a record that cannot be written, or a directory that is away, leaves its marker on display |
| `KilledRunsLeaveNoVerdict` | `PatientUser`, markers taken | `lint_killed`: a second toggle resumes the worker between the kill and its next look at the flag |
| `KilledRunsStayUnrecorded` | `PatientUser`, directories that stay, markers taken | the worker of a project that vanished has its stop requested while its run is killed |

"Markers taken" is `[]MarkersTaken`, that the disk never refused a pause marker; other i/o may
fail. The invariant (`PatientInv`) has two parts. For the channel: at most its first message is a
toggle, and the flag it will set is set already, so that handling it changes nothing a
watched project can see (`OneToggle`, `FlagsAhead`). For each project: what its worker has
decided to put off is still put off by the flag it looked at (`Held`), and an edit no run has
covered is expected by somebody, the supervisor, the worker or the catch-up set (`Owing`).
Most steps leave a project alone in a sense that keeps both (`Quiet`); the worker's own steps
are gone through one by one. `KilledRunsLeaveNoVerdict` says of a worker that is leaving
nothing, which is why it needs no stable directories.

`LintHistoryProofs` and `LintPruneProofs` prove all that `history_prune` checks, for any
projects, sizes, limits and numbers of runs: `TypeCorrect`, `OldestEvicted`, `LimitReached`
and `CountsCorrected`. Two things stand behind them.

* The bytes are sums over finite functions, which the community modules define by a fold.
  That a sum loses exactly what is taken out of it would be an induction; it is shown by
  minimal counterexample instead, from the theorem that the subsets of a finite set are
  well-founded, and so is that a set of naturals can be enumerated in ascending order, which
  is what a rewritten file is made of.
* A prune keeps line numbers across its own rewriting. The invariant is that the number of a
  run is in one project's hands only and nowhere twice (`Numbered`), and of a worker nobody
  interferes with (`Calm`): its total is the bytes on disk, the runs it has in sight are those
  whose lines remain when it is done, and the numbers it remembers are right as long as it
  still evicts. They are wrong once it has rewritten a file, and the proof shows why that does
  no harm: rewriting only begins when the prune is done, and being done is stable, since
  rewriting lowers the total and never raises it (`Fresh` or `Done`).

The count is written in two steps of which only the second changes it, and `CountsCorrected`
speaks of that one: a number it leaves, if it leaves one, is the total of the prune, and that is
the bytes on disk.

The assumption on the constants is that the earlier runs are within the bound, that sizes are
naturals, the projects finite, and that the placeholders are neither projects nor numbers.

`OwnedRunProofs` proves everything the run of `OwnedRun` checks but liveness, for any
limit of the identity counter, number of lines and of requests: `TypeCorrect`,
`PendingAnswered`, `FinishedLast`, `LinesKept`, `Attributed`, `MarkerLast`,
`SignalledUnreaped`, and `Implements`, the refinement of `RunSlot`. The invariant ties the
worker's program counter to the child, the readers, the admission lock and what is in the
two channels: what may be in `events`, and in which order, as a function of where the worker
is; of `Started` only that it may come at any place. What is retained of a run's lines is counted
against what the readers have sent on and the channel still holds. `PendingIsAnswered` is far from inductive alone: that an answer is on its way rests on
whether the worker has closed admission, whether the request was taken, and whether the
outcome was sent. The refinement needs in addition that the group was signalled exactly if
the slot is stopping or will hear so from an event under way.

`BuildTerminationProofs` proves, for any external builds and descendants, with or without an
owned run, any number of transactions, and threads that may break down:

* `TypeCorrect`; that the worker only ever aims at a process of the plan at the head of its
  queue (`AimsAtPlan`) is part of the invariant, as is that the fields of an absent
  transaction are at rest;
* `ActiveShown`, `TargetsKept`, `OffIsClean`: the registry and the active transaction agree,
  every target is pending or has a result, and no record outlives monitoring. These are one
  invariant (`RegInv`);
* `SignalledOnce` and `LeavesBeforeRoots`. That a process is signalled once involves all
  of: request numbers rise and a plan's number is its own (`Numbers`); the plan, or the
  outcome, the transaction awaits is the one with its request, and plans of earlier
  transactions are apart from it (`Matches`); a process is in a plan only if its capability
  was spent (`BatchSpent`, `ReadyUnsent`); what was signalled is out of its plan
  (`LeftUnsent`, `SentTargets`); and a process not yet born is nowhere (`Births`). Leaves
  first is that a plan holds no process with an admitted one below it still to go
  (`LeavesPlanned`), which must survive the descendants admitted after the plan was sent; "below" is the
  recorded parent and root;
* `AnswerIsOwn`: the owned run's channel holds one answer at most, and a transaction that
  waits has made the request (`Outbox`, `Own`). This is what makes it sound that the
  code's events do not name the request they answer;
* `ResultsTrue`: a result is true of its own transaction, though it comes from an
  observation, a late outcome or the owned run's channel. The invariant (`Evidence`) follows
  it to where it comes from: a letter that says reaped or finished is sent after the child is
  reaped, a plan tells of survivors only what its transaction signalled, the outcome the
  active transaction awaits says so of that transaction, and what has exited or was signalled
  stays so (`ProvenStays`).

The assumption is that builds, descendants and the owned run are distinct, finite in number
and different from the placeholder for none.

`WatcherProofs` proves, for any number of directories and any bound of the channel:

* `TypeCorrect`, `ChangesKept`, and `OneRefreshAtATime`: a key's refresh is never started
  while another of it is in flight, so that its completion cannot be taken for another's.
  The invariant (`IInv`) says that nothing is pending before there is a watcher, that a
  change owed is one of a known project, that a refresh is in flight exactly if it is running
  or dirty, and that the tasks of a new watcher start from nothing;
* `TreeFollows`: `TreeFollowsDisk`, with the three gaps of `exposed` and no other. The
  property speaks of a directory about which nothing is under way; the invariant (`FollowInv`)
  says of every other one what under way means. A project that is not visible has an event, a
  refresh that will read it, a candidate not reported yet, or a message in the channel that
  makes it visible (`Appears`). One that is gone has the like, or the last message about it
  says so (`Disappears`). The order of messages matters: an empty size must be after the full
  ones, and a size read before the directory went is followed by another (`HeldSizes`). What
  the watcher has reported it never reports again, so a report must not be followed by an empty
  size alone (`Reported`). Before a scan is applied the question is about what it has found
  (`BeforeScan`), which an event held back corrects. Each directory is argued alone
  (`Followed`): a step about another one leaves it and its mail as they were.

Model-checked only: liveness everywhere, since fairness and ENABLED are beyond the prover.
Every invariant a passing run checks is proved, some under a hypothesis the run has too (no
i/o failure, directories that stay, no immediate discovery, a patient user, markers taken).

## Plan

Done: `LintRuntime`, `OwnedRun` over `RunSlot`, `BuildTermination`, `LintHistory`,
`Watcher`, and the proofs above. Next, in this order:

1. `Observation`: the executor's single refresh in flight, its consumers' deadlines; then
   in place of the single observation cycle of `BuildTermination`.
2. The watcher's triggers into `LintRuntime`, with two runtimes at once, to state what a
   rescan does to them.
3. `MetadataStore` and `StartupPhase`: generations, and phases that must complete.

## Not modelled

Presentation, layout, key maps and themes; parsing of cargo, git and HTTP output; the
directory walks of the scan. They keep little state that two actors share. Parts
still to come are in the plan; `PROJECT.json` lists every component with its status.
