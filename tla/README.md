# SOC-IQ, specified in TLA+

SOC-IQ is a desktop application that extracts indicators of compromise from
reports, enriches them with threat intelligence and keeps the investigations. It
runs as three programs: a **Tauri shell** in Rust (`src-tauri`, with the pure
bookkeeping types of `sidecar-core`), a **window** in React and TypeScript
(`frontend`), and a **Python sidecar** (`app`, a FastAPI process that the shell
spawns, watches, restarts and kills).

These modules specify how the shell keeps one sidecar alive, how the window
learns of it, how several programs bring one database up to date, how sidecars run
commands on one database and the same files while windows listen to their events,
and what an analysis finds, stores and later says of itself. What is left out is
listed at the end.

Run a model from this directory with, for example,
`tlc -workers 2 -config MCCommands.cfg MCCommands`, and the proofs of a module with
`tlapm Commands_proofs.tla`.

## 1. The parts of the system

### The shell (Rust)

| part | code | state | operations |
|---|---|---|---|
| lifecycle | `sidecar-core/src/state.rs`, `supervisor.rs` | one of eight lifecycle states | twelve legal transitions; everything else is `InvalidTransition` |
| restart policy | `sidecar-core/src/restart.rs` | `RestartTracker.attempts`; `RestartSchedule.pending` (a token); `StabilityWindow.pending` (a token) | `decide`, `record_attempt`, `reset`; `try_begin`, `consume`, `cancel`; `begin`, `confirm`, `cancel` |
| timers | `src-tauri/src/restart_scheduler.rs` | one OS thread per scheduled restart and per stability window | `schedule`, `cancel`, `begin`, with a rollback when the thread cannot be created |
| sidecar process | `src-tauri/src/sidecar.rs` | supervisor, child handle, port, token | `start` (spawn, handshake line, health poll), `poll_for_crash`, `shutdown`, `reset_for_retry` |
| shell | `src-tauri/src/lib.rs` | `SidecarState`: the above, each under its own mutex, and `shutting_down` | setup thread, crash poll loop, `handle_retry_eligible_failure`, `attempt_restart`, the stability callback, the `RunEvent::Exit` handler, the commands `get_sidecar_status` and `get_sidecar_origin` |
| events | `src-tauri/src/events.rs` | one sequence counter | `state_changed`, `restart_scheduled`, `restart_exhausted` |
| keystore | `keystore-core`, `src-tauri/src/keystore.rs` | none of its own | reads and writes the operating system's keyring |

The threads meet at four locks: the process mutex (held by `start()` from
beginning to end, and by `shutdown()` while it waits), the tracker's, the
schedule's and the window's. What is hard: the locks are taken one after the
other and never together, so every decision rests on something read under a lock
that has been given back; a timer may fire while its reason has gone; the user
may quit at any moment; spawning a process or a thread may fail half-way.

Correct means: one thread drives the sidecar at a time and one process is alive;
the restart budget is kept; a failure is never forgotten; nothing comes up after
the exit; the events tell the truth in the right order.

### The window (TypeScript)

| part | code | state | operations |
|---|---|---|---|
| subscription | `shared/sidecar/eventSubscription.ts` | the handlers in place, the last sequence applied | `start`, `handleIncoming` |
| projection | `eventProjection.ts`, `projectionConnector.ts`, `projectionStore.ts` | the status the window shows | `projectSidecarEvent`, `start`, `stop`, `apply` |
| reconciliation | `snapshotReconciliation.ts` | lifecycle and generation | `initialize`, `dispose`, `runSequence`, `reconcileSnapshot` |
| view | `sidecarStatusView.ts` | none | the status as one of a few words |
| exhaustion notification | `shared/notifications/restartExhaustedNotificationStore.ts` | whether the notice is shown | an edge detector on the store |
| event stream | `shared/events/eventSourceManager.ts` | one `EventSource`, its subscribers, the connection attempt | `subscribe`, `subscribeStatus`, `getStatus`; reconnects by itself |
| API client and pages | `shared/api`, `pages`, `app` | what is on screen | requests and rendering |

The window asks for events and for a snapshot. What is hard: `listen()` is
asynchronous and an event nobody listens for yet is lost; a snapshot is out of
date when it arrives; React's Strict Mode mounts, unmounts and mounts again while
the first mount's requests are in flight.

Correct means: no event escapes both ways in; an unmounted window stays silent;
`initialize()` always ends; what is newer wins.

### The sidecar (Python)

| part | code | state | operations | what is hard |
|---|---|---|---|---|
| event broker, SSE | `application/broker.py`, `api/app.py` | subscribers, one bounded queue each | `publish`, `subscribe`, `get`, `close` | drop-oldest queues between three threads, and commands that hold the event loop which serves the streams |
| command handlers | `application/handlers.py`, `dto.py`, `execution.py` | none | validation, dispatch, eighteen handlers, seven kinds of events | what has been done and told when one step of several fails |
| migrations | `database/migration_runner.py` | the schema version | one transaction per migration | a crash between two, two processes at once |
| investigations, timeline | `database/repository.py`, `service.py`, `timeline/`, `analyzer.py` | two SQLite tables | analyse, store, find, delete; append, list | check, insert and reload are three transactions, each timeline entry another |
| settings and secrets | `settings/`, `secrets/store.py` | a JSON file, a read-only secret store | load (which may reset), save, migration of a key | load and save are two steps, of several processes |
| reports and exports | `reporting/`, `services/investigation_csv_export.py` | the files | four formats by temporary file and replacement; CSV in place | failures and kills half-way |
| threat intelligence | `threat_intel/` | the counts of a batch | one lookup, an analysis' lookups, verdicts | four hand-written loops that a rate limit cuts short |
| extraction, correlation, scoring | `extractor.py`, `services/correlation_service.py`, `scoring/` | none | pure functions of one report | two spellings of one indicator, caps and thresholds |
| views and dashboards | `services/` | none | pure functions of stored rows and the key configured now | a dozen places that decide the same question |
| command line, legacy GUI | `main.py`, `display.py`, `gui` | | the older interfaces over the same services | |

Commands meet in the database and the files: every window has its own sidecar, a
restarted shell may leave one of before, and the command line uses the same
database. Within one sidecar nothing overlaps, because `run_command` calls its
handler on the event loop.

Correct means: events and answer tell the same end of a command; a report name has
one investigation, whoever wins; a timeline tells what happened; a file holds what
was answered for; every indicator that was looked up is counted, and one that was
not is nowhere called clean; a score can be explained, and totals agree.

## 2. The modules

```
SidecarLifecycle   RestartProtocol      StatusFeed
        ^                 ^              ^       ^
        |   implements    |              |       | extends
        +------------ SidecarHost -------+   StatusProjection
                          ^                       ^
     SidecarHost_proofs, MCSidecarHost                MCStatusProjection,
                                                      StatusProjection_proofs

MigrationHistory <-- implements -- MigrationRunner <-- MCMigrationRunner,
                                                       MigrationRunner_proofs

EventStream  InvestigationStore  SettingsFile  Requests
      ^              ^                ^            ^      extends
      +--------------+- CommandJobs --+------------+
                             ^
       StoreCommands <- FileCommands <- AnalyzeCommand <- Commands
                                                             ^
InvestigationLedger <----------- implements -----------------+- MCCommands,
                                                   Commands_proofs, CommandsSafety_proofs,
                                                   CommandsTimeline_proofs

Indicators <- VirusTotal <- Enrichment <- Scoring <- InvestigationViews
                                                             ^
        MCInvestigation, -> Investigation -> Dashboards -> Reporting
        Investigation_proofs -> Sums_proofs
```

**SidecarLifecycle** is the transition table of `state.rs`, as a specification of
its own. **RestartProtocol** states what automatic restarts promise, without
threads or locks: one attempt at a time, one verdict per failure, one unit of the
budget per restart, "exhausted" is final.

**SidecarHost** is the shell. The correspondence:

- `state`, `child`, `port` are the fields of `SidecarProcess`; `booting` and
  `stopping` the children that `start()` and `shutdown()` hold in a local while
  they own the mutex. `live` and `launches` belong to the operating system.
- `attempts`, `pending`, `window` with `nextToken` and `nextWindow` are the
  tracker, the two token slots and the token counters. A token is the index of
  the thread that was created for it.
- `pc[t]` is where thread `t` is: 0 is the setup thread, `n` the timer thread of
  restart token `n`. Each label is one critical section or one call; a thread
  that drives the sidecar goes `launch` or `restart`, through `start()`, the two
  events, `beginWindow` and the poll loop, and on a failure through
  `cancelWindow`, `decide`, `checkExit`, `record`, `schedule` and `emitScheduled`
  or `emitExhausted`. `outcome[t]` and `decision[t]` are the locals it carries
  from one lock to the next.
- `exitPc` is the `RunEvent::Exit` handler, on the main thread.
- the process mutex is not a variable: it is held exactly by a thread whose
  label is in `Locked` or by the exit handler in `killWait`.
- `event` is the event with the highest number. `attempt_restart` resets and
  announces before it gives the mutex back, so `Reset` does both.

Every fallible call fails or not: spawning a process, reading the handshake (a
malformed line, the end of the stream, the deadline), the health poll, and
creating either kind of timer thread. A sidecar process may die at any moment.

**StatusFeed** is the shell as the window can observe it: no processes, tokens or
windows; TIMEOUT and FAILED are one. SidecarHost implements it (`FeedSpec`), which
is what makes it legitimate to put it in the shell's place. It ends where the
application exits, because no window is left then.

**StatusProjection** extends it with the window: an event is numbered by a shell
thread, emitted by it later, carried in order, and handled later still. The
command `get_sidecar_status` reads state, schedule, tracker and sequence in four
steps. `task[m]` is the asynchronous `runSequence()` of mount `m`.

**MigrationHistory** is what schema migration promises: the database is always the
one that some version's migrations leave, each executed once and as a whole, and it
moves to the next one only. **MigrationRunner** is `migration_runner.py`: `disk` is
the committed database, `work` what the one open transaction sees, `at[r]` where
the call `r` of `run_migrations` is, `target` and `step` its `next_migration` and
the statements of it executed, `result` its `final_version`. A database is its
recorded version and, per migration, how many statements were executed: enough to
tell a repeated, skipped or half-applied migration from a whole one. Runners belong
to builds (`Latest`), and the database may start at any version. SQLite is modelled
by what the code relies on: `BEGIN IMMEDIATE` gets the lock or gives up, and an open
transaction leaves no trace. `schema_version` is read by two SELECTs; its table is
created together with its row, so one read stands for both. The rejection of
malformed or duplicate file names is left out: it happens before the database is
read at all.

**Commands** is several sidecars at work; it is put together from

- **EventStream**: `stream[c]` is the `Subscription` behind the `/events` response of
  window `c`, with the reader thread (`reader`, `held`: what `get()` has taken and
  the loop has not written yet) and two counters, `delivered` and the code's
  `dropped_count`. `published[s]` logs what sidecar `s` has published; events are
  named by their place in it, so that loss, repetition and order can be stated.
- **InvestigationStore**: `rows`, `lastId` (SQLite's AUTOINCREMENT), `timeline`, a set
  of entries that carry the `rowid` they are read by. One operator is one transaction. **InvestigationLedger** says what it promises.
- **SettingsFile**: the file is absent, garbled or saved, perhaps with the key that
  an old version left in plain text.
- **Requests**: the request classes of `dto.py` as predicates on a payload, whose
  values carry their JSON type.
- **CommandJobs**: `job[s]` is the handler that sidecar `s` runs, with `step` its next
  transaction or file operation and the locals it carries; `inbox[s]` the requests to
  come and `answers[s]` the answers given. A request is accepted, refused, or fails
  because the handler's repositories cannot open the database. A handler that has
  deleted a row, written a file or loaded the settings returns in a step of its own (`Done`, then
  `Return`): a kill may fall between a deletion or a replaced file and its answer.
- **StoreCommands**, **FileCommands**, **AnalyzeCommand**: the handlers. Reading,
  listing and deleting; settings, reports and CSV; the two commands that publish
  events. A step of the pipeline publishes its progress before it does its work, as
  `analyzer.py` does.
- **Commands**: the composition, with `Kill` (the command is never answered, its
  streams end, files and database stay as they are) and `Restart`. Opening, writing
  and closing a stream need the event loop and wait for `LoopIdle`; the reader thread
  does not.

The history variables are `published`, `replacers` (the commands that replaced a
report or the settings), `lastSaved` (what they set), `raced` and the kind of answer `LOST`; `VANISHED` tells one `INTERNAL_ERROR` apart from others.
No action's guard reads them; an event is named by its position in `published`.

**Investigation** follows one analysis after the other from a text to everything
that is said of it. `iocs` and `work` are the locals of `analyze_report` and
`enrich_results`; each lookup is a step that takes any of `Responses`, and `ChangeKey`
may come between two. Below it:

- **Indicators**: `extractor.py` and the spellings that `correlation_service.py`
  compares. A domain is its labels, a URL its scheme, user, host and rest and whether
  `urlparse` takes it, an address its octets; everything else is a token.
- **VirusTotal**: validators, request, status, body, record; then the four places
  that turn a record into a verdict, and their precedence.
- **Enrichment**: the four loops of `enrich_results` as one, `Turn`, with what
  differs between them in `LeftBehind`.
- **Scoring**, **InvestigationViews**, **Reporting**, **Dashboards**: one operator per
  function of the code, on a stored row.

**MCCommands** and **MCInvestigation** define the situations TLC starts from; the
other **MC...** modules only name the module, and their constants are in the cfgs.
The **..._proofs** modules hold the proofs. Definitions under a comment beginning
"Mutant" are plausible bugs; no specification uses them. Each is the standard
variant of the definition next to it and makes one property fail.

### What is abstracted

- Durations: a sleeping timer may fire, and a deadline may pass, at any moment.
  The order of a backoff delay and a stability window is therefore not assumed.
- The token, origin and launch configuration; the reasons, timestamps and launch
  generation of events, which no consumer reads.
- Counters that wrap after 2^64 steps are natural numbers.
- `InvalidTransition`: left out of the actions because no step can meet it. That is
  the theorem `ImplementsLifecycle`, not an assumption.
- Poisoned mutexes: the code takes the data of a poisoned lock and carries on.
- A sidecar's requests come one after the other from its inbox. While a command runs
  the loop takes no other, so a later arrival waits in the socket.
- What an investigation contains besides its report name does not matter in
  Commands, and who else writes does not matter in Investigation: no handler
  decides anything by both.
- Texts and names are tokens; documents are the facts they show.
- Busy timeouts, full disks and missing permissions are the one outcome `Fault`.

## 3. What is checked

| run | question | bounds | states |
|---|---|---|---|
| `host_safety` | Does the shell keep its promises in every interleaving, and implement the three abstract specifications? | 2 restarts, 3 things go wrong | 1.4 million |
| `host_liveness` | Does every failure end in something the user can see, and does quitting always work? | 1 restart, 2 things go wrong | 32 thousand |
| `host_orphan` | "There is no path that leaves an orphaned process" | 1 and 1 | violated |
| `host_stability` | "a stale stability check can never erase real crash history" | 1 and 1 | violated |
| `projection` | Does every event reach the window, whenever it mounts? | 1 restart, 1 mount, 1 event on the wire | 1.9 million |
| `projection_mounts` | Do two mounts and a rejected call leave a disposed window silent, and does `initialize()` end? | no restart, 2 mounts, 2 events, 1 rejection | 305 thousand |
| `migration` | Do concurrent runners of different builds leave a whole schema, whatever fails, and does each call end? | 3 runners, 2 builds, 3 migrations, 1 fault | 173 thousand |
| `commands` | Do sidecars that run every command on one database and the same files keep their promises, whatever fails? | 2 sidecars, 1 window, 2 reports, queue of 2, 1 fault | 83 thousand |
| `investigation` | Is everything said about an analysis true and complete, whatever the provider answers? | 11 answers, up to 10 indicators, up to 3 analyses | 120 thousand |
| `projection_snapshot` | "A stale snapshot must never overwrite newer accepted event state" | 1 restart, 1 mount, 2 events | violated |
| `projection_pending` | "`restart_pending` can read stale for the brief window ..." | same | violated |
| `projection_exhausted` | "once exhausted, no further restart will happen" | same | violated |

**Bounds.** `MaxAttempts` is the policy's maximum (the default's is 5; the
threads treat every attempt below the maximum alike, so two restarts show a first,
a middle and a last one). `MaxFailures` counts everything that goes wrong, and so
bounds the launches, the tokens and the stability windows; with three failures and
two restarts there is a run that exhausts the budget and one in which a stable
sidecar's budget is refilled in between. `MaxMounts` is two because Strict Mode
mounts twice. `MaxInFlight` bounds the wire and delays the sender, which only
removes behaviours in which the window lags further behind. `MaxRejections` counts
rejected `listen()` and `invoke()` calls. Two runners of one build can race for a
migration and the third, older one meets their newer schema; the versions 1, 2, 4
have a gap, and one migration has two statements so that it can stop half-way.

A situation of `commands` gives each sidecar its requests: two windows analyse one
report while one deletes it; a window listens to an analysis that is then found to
exist; reports and CSV files are exported while rows are deleted, listed and
exported elsewhere; settings, the same one too, are changed from two windows over an absent, a garbled
and an old file; lookups and refused requests; and all reading commands in a row.
An analysis publishes eight events or more, so a queue of two overflows many times.
`MaxFaults` is one: one failing step, or one kill with or without a restart, at any
place. A situation of `investigation` is a text, the options and the key: one with
all ten types and invalid values, one with two of a type, a URL that does not parse
and an empty one; all eight sets of options with and without a key; histories with
old rows and a repeated report; and a key that comes and goes between lookups. The
answers cover each status the client tells apart, misshapen bodies, a date beyond the
platform's range and the two ways a connection fails.

**Deadlock** is checked for the shell: until its process has ended, some thread
can move. The window may come to rest with everything delivered, so its runs do
not check it. Sidecars rest when their inboxes are empty, analyses when none is left.

**The shell's properties** (the hazard each is for is in `PROJECT.json`):

- `SingleSupervisor`, `AtMostOneChild`: one driver and one process, through all
  hand-overs between setup thread, poll loop and timers.
- `AttemptsBounded`: `decide` and `record_attempt` lock the tracker separately and
  a stability timer may reset it between the two.
- `ScheduleNeverRefused`, `PendingHasTimer`: the comment that a refusal by
  `try_begin` is "structurally impossible" is right, and no phantom token remains.
- `HandleMatchesState`: whoever gets the mutex finds handle, port and state in step.
- `FailureIsAnswered`, `FailureIsSettled`: a failure is neither forgotten nor left
  pending.
- `RestartsStayDown`: no restart brings a process up once `shutdown()` has returned.
- `QuietMeansAnnounced`, `EventChain`: the last event tells the current state as
  soon as nobody owes one, and each begins where the previous one ended, whichever
  threads sent them.
- `ExhaustedIsFinal`: after the verdict nothing starts the sidecar again.
- `ExitCompletes`: the exit handler gets the mutex whoever holds it.
- `LifecycleSpec`, `RestartProtocolSpec`, `FeedSpec`: the three refinements.
  `RestartProtocolSpec` maps the program counters to a `phase`; `FeedSpec` holds
  up to the exit.

**The window's properties**: `NoEventEscapes` (with everything delivered, the
latest event was handled or is contained in the snapshot; the one exception is a
restart event accepted while the store is still `null`, see section 6),
`SilentWhileDisposed`, `InitializeSettles`.

**The migrations' properties**: `SchemaWhole` (what is on disk is the work of whole
migrations), `HistorySpec` (the refinement), `ReadyMeansCurrent` and
`RefusedForCause` (what a call reports is true and stays true), `EveryCallEnds`.

**The commands' properties**:

- `StreamsOrdered`: a stream delivers in the order of publication, never twice; the
  queue is always the newest events, and `dropped_count` accounts for the rest.
- `AnswerMatchesEvents`: at most one terminal event per command, its last one,
  "completed" exactly for a success, nothing for a refused request, growing progress.
- `LedgerSpec`, `DuplicatesResolved`: one investigation per report name and no id
  twice; of two analyses of one report exactly one has stored the row that both name,
  and none fails unless something was deleted, by an answered command or a killed one.
- `TimelineTruthful`: entries are of the analysis that created the row, in order, all
  of them if nothing failed; an export entry belongs to a report that was replaced.
- `FilesKept`: the settings hold what the last save put there, answered or not. A
  command that saves settings or exports a report is answered as done exactly when it has
  replaced the file; of a killed one nobody can tell. The CSV holds the rows its export
  answered for, and only a kill leaves a temporary file. It excepts what no code
  prevents: two sidecars that load and save settings, or write the CSV, at once, and
  settings that could not be read and were reset.
- `CommandsAnswered`, `StreamsCatchUp`: a command ends or its process does; an open
  stream shows the newest event in the end.

**An investigation's properties**:

- `EnrichmentAccounted`: requested = succeeded + failed + skipped, except that a rate
  limit among the domains forgets exactly the URLs (section 5).
- `UncheckedIsNotClean`: an indicator without an answer has no verdict in any view,
  report or typed lookup, and one with an answer has the same in all; "enriched" is
  said of an investigation only when every valid indicator was answered for.
- `ScoreExplained`: the shown parts add up to the score, a flagged record counts, a
  higher score is no lower severity, and an unfinished check halves confidence.
- `TotalsAgree`: dashboards, aggregates, the CSV, the command line and the documents
  come to the same numbers, and each document shows all of its investigation.

**Fairness.** `Fairness` asks for weak fairness of each thread, which the operating
system's scheduler and finite sleeps justify, and of the exit handler. It covers
the mutexes: a thread waiting for one waits only for threads that give it back. It
also assumes that the read of the handshake line ends. `sidecar.rs:345` documents
that it need not (a child that neither writes nor exits blocks it), so the
liveness properties hold for every other child. Nobody is obliged to quit, to die,
to mount or to unmount. In the window an emitted event arrives, a `listen()`
settles and an awaited call comes back, resolved or rejected. A call of
`run_migrations` that has begun goes on; it need not get the lock, because the busy
timeout is an outcome. A handler goes on too: SQLite's busy timeout, the client's
request timeout and the end of the worker bound every wait in it. The reader thread
waits with a timeout, and the event loop resumes a generator once no command holds
it. Nobody is obliged to kill or restart a sidecar, or to open or close a stream.

## 4. What is proved

The inductive invariants stand in the modules of the components, next to the
properties they are for, and TLC has checked them on the instances of section 3
before they were proved.

`SidecarHost_proofs` proves, for every `MaxAttempts` and `MaxFailures` in `Nat`
(the two `ASSUME`s of SidecarHost, the only assumptions used):

| theorem | statement |
|---|---|
| `TypeCorrect` | `Spec => []TypeOK` |
| `OneSupervisor` | `Spec => []SingleSupervisor` |
| `NoPhantomRestart` | `Spec => []PendingHasTimer` |
| `NeverRefused` | `Spec => []ScheduleNeverRefused` |
| `BudgetKept` | `Spec => []AttemptsBounded` |
| `ImplementsLifecycle` | `Spec => LifecycleSpec` |

The argument has three layers, each inductive relative to the ones before.

1. `TypeOK`. It says of a decision to retry that its attempt number is within the
   policy, and of the exit handler's result what `shutdown()` can leave.
2. `SupervisionInv`. `SingleSupervisor` is not inductive: when a timer fires, a new
   supervising thread appears. `PendingExcludes` says that nobody supervises while
   a restart is pending (except the one thread about to roll it back),
   `PendingHasTimer` that a pending token belongs to a live timer, and
   `TokensFresh` that the next token's thread does not exist yet. With all four, the
   firing timer finds nobody, and the scheduling thread finds its slot free.
3. `BudgetInv` and `LifecycleInv`. `AttemptsBounded` is not inductive because the
   decision is older than the increment: the invariant carries "one unit is left"
   from `decide` to `record_attempt`, which holds since only the one supervisor
   increments and a concurrent reset only lowers. `LifecycleInv` ties the program
   counters that hold the mutex to the lifecycle state, and says that nobody is in
   `start()` while the exit handler waits for the child; then each assignment to
   `state` is one of the twelve transitions.

The same module goes on from there, under the same two assumptions:

| theorem | statement |
|---|---|
| `OneChild` | `Spec => []AtMostOneChild` |
| `HandleTellsState` | `Spec => []HandleMatchesState` |
| `NoRestartAfterExit` | `Spec => []RestartsStayDown` |
| `QuietIsAnnounced` | `Spec => []QuietMeansAnnounced` |
| `FailuresAnswered` | `Spec => []FailureIsAnswered` |
| `EventsChain` | `Spec => EventChain` |
| `VerdictIsFinal` | `Spec => ExhaustedIsFinal` |

These need `HostInv`. `ChildInv` says who holds a living process: the child that
`start()` has not filed yet, the filed one or the one being stopped, and no two of
them at once. `DownInv` dates everything against the exit handler: once it is past
the mutex, the only thread that may still take it is the very first launch, which is
the orphan of section 5. `OutcomeInv` says that what a thread remembers is what the
lifecycle still says, although it has given the mutex back: only the exit handler may
have moved a RUNNING sidecar on. `AnnouncedInv` says for each label which state was
announced last, and so why the events of two threads chain. `VerdictInv` gives the
decisions their meaning: whoever goes on has been granted a retry, and after the
verdict nobody supervises and nothing is pending.

The second half of the module proves that the threads, locks and timers implement the
two other abstract specifications:

| theorem | statement |
|---|---|
| `ImplementsRestartProtocol` | `Spec => RestartProtocolSpec` |
| `FeedsTheWindow` | `Spec => FeedSpec` |

Each action is shown to be a step of the abstract specification or a stutter. Only
`BirthInv` has to be added: a token's thread exists from the moment the token is
issued, unless its timer could not be created, and until the exit handler cancels
restarts a timer's token is the pending one. Without it a firing timer could be a
step the protocol does not know. `FeedsTheWindow` is why the next module may speak of
StatusFeed in the shell's place.

`StatusProjection_proofs` proves, for any number of mounts, of events on the wire and
of rejected calls (`FeedAssumption`, `ProjectionAssumption`):

| theorem | statement |
|---|---|
| `ProjectionTypes` | `Spec => []ProjectionTypeOK` |
| `NothingEscapes` | `Spec => []NoEventEscapes` |
| `SilentWhenDisposed` | `Spec => SilentWhileDisposed` |

`NoEventEscapes` speaks of a moment when everything has been delivered; the invariant
has to follow the latest event until then. `NumbersInv`: it is on its way at most once,
and meanwhile the window has not passed its number, so the comparison of sequence
numbers does not reject it. `MountsInv`: a task is of the current generation only
while its mount is the last one and connected, and it asks for a snapshot only when
both `listen()` calls have settled. `EscapeInv`: from the request on, the latest event
is in the snapshot, on its way, or the last one applied. `SilentWhileDisposed` follows
from `MountsInv` alone.

`MigrationRunner_proofs` proves, for every set of runners, every set of migrations
of any lengths and every mix of builds (`MigrationAssumption`):

| theorem | statement |
|---|---|
| `MigrationTypeCorrect` | `Spec => []TypeOK` |
| `SchemaAlwaysWhole` | `Spec => []SchemaWhole` |
| `ImplementsHistory` | `Spec => HistorySpec` |
| `CallsReturnCurrent` | `Spec => []ReadyMeansCurrent` |
| `RefusalsHaveCause` | `Spec => []RefusedForCause` |

`SchemaWhole` speaks of the disk only, and a commit writes what the transaction
holds. `MigrationInv` adds that there is one transaction at a time (`OneWriter`) and
that it holds the committed database plus the executed part of the migration that
follows the committed version (`TransactionInv`). That the migration *follows* is
where the second read under the lock is used: nobody can have committed since. The
lemma `CommitsNextVersion` then gives both theorems about the schema, and since the
version only grows, what a call reported stays true.

`Commands_proofs`, `CommandsSafety_proofs` and `CommandsTimeline_proofs` prove, for any
finite set of sidecars, any windows, any queue capacity, any requests and any number of
faults (`CapacityAssumption`, `SidecarsAssumption`, `DefaultAssumption`,
`FaultsAssumption`, `CodesAssumption`, `SituationsAssumption`: the last says that inboxes
are sequences of requests, and that the reports analysed and the settings saved are among
those named):

| theorem | statement |
|---|---|
| `Types` | `Spec => []CommandsTypeOK` |
| `Streams` | `Spec => []StreamsOrdered` |
| `StoreIsLedger` | `Spec => LedgerSpec` |
| `DuplicatesAgree` | `Spec => []DuplicatesResolved` |
| `FilesAreKept` | `Spec => []FilesKept` |
| `EventsTellTheEnd` | `Spec => []AnswerMatchesEvents` |
| `TimelinesAreTruthful` | `Spec => []TimelineTruthful` |

The invariant `CommandsInv` has five parts. `StreamsInv` is `StreamsOrdered` for every
window together with the types of the logs: a `Put` into a full queue moves one event
from the queue to `dropped`, a `Take` one from the queue to the hand, so the sum in
`SubscriptionOrdered` is kept. `JobsInv` says that a job's request was accepted and its
step is one that its command comes to. That is where validation matters: the report
that `InsertRow` stores and the setting that `SaveSettings` writes are those of an
accepted request. `AnswersInv` types the answers. `RowsInv` says that ids were given
out and a report has one row; it makes `Insert` a `Register` of the ledger, since
`~ Conflict` is its guard and `NextId` is fresh, and every other step a `Remove` or a
stutter. `FilesInv` counts: `temporaries` is not negative because each job at `replace`
owns one (`Replacing`), which needs the sidecars to be finitely many.

The other four relate the store, the files and the events to the history of commands.
A sidecar's step has some thirty forms, so each proof first says once what a step does
as far as it matters here (`Doing`, `TimelineMove`), and then reasons about those few cases.

- `DuplicatesResolved`. `PlacesInv` says which step a command may be at, and with which
  code. `ClaimsInv` is the point: everybody who holds an id, working or answered,
  agrees with the row of that id, and two who did not find it `existing` hold different
  ids. The race between two inserts is settled by the unique index, and whoever lost it
  takes the winner's id. `AuthorsInv` says that a row was stored by a command past its
  insert, and `VanishedInv` that without a deletion what was once found is found again.
- `FilesKept`. `SettingsInv` carries the last saved values from the load to the save,
  unless another save came between (`raced`). `ReplacedInv` says that of the running
  commands exactly those past their replacement are in `replacers`, which rests on the
  places `PlaceOK` gives to the two commands that replace a file. `CsvInv` knows that
  while the one sidecar that exports is at `write`, the file is empty, and at `answer`
  what will be answered. `TemporariesInv` counts the killed.
- `AnswerMatchesEvents`. `Settled` is what holds of a command that has answered and
  `Telling` what holds of one that runs. `Due(step)` bounds the progress told before
  each step, so the numbers only rise, and no terminal event is told before `respond`.
- `TimelineTruthful`. While an analysis writes its milestones there is a `k` such that
  the first `k` are written and the rest is its `todo` (`Remaining`); a swallowed
  failure is counted in `faults`. Another sidecar may delete the row between two entries,
  and an id that has gone is refused by the foreign key. That entries are read in the
  order they were written follows from the rowid: `NextRowid` is above every other, which
  needs the timeline to be finite.

`Investigation_proofs` proves, for any texts with finitely many indicators, any answers of
the provider with any counts, any stored rows and any changes of the key:

| theorem | statement |
|---|---|
| `LookupsAccounted` | `Spec => []EnrichmentAccounted` |
| `UncheckedNeverClean` | `Spec => []UncheckedIsNotClean` |
| `ScoresExplained` | `Spec => []ScoreExplained` |
| `TotalsAgreed` | `Spec => []TotalsAgree` |

The assumptions: `ResponsesAssumption` lists what the client tells apart about an answer,
and says that its counts are numbers and not negative (`int()` makes sure of the first, the
second is the service's word). `SituationsAssumption` says that the rows of older versions
are `Whole` like those of this one, and that the search finds a text in itself. TLC
evaluates both on the `investigation` run, whose situations begin with old rows.

`EnrichmentAccounted` speaks of stored rows, so its invariant, `AccountInv`, has to follow
the loops: the queue names every enrichable indicator once, type by type (`Ordered`,
`TypedByPosition`), and `LookedUp(found, w, p)` says that the first `p` of it have been
looked up and are counted once each, while the others wait; or that the lookup after them
stopped the loops, and what they left was counted by `LeftBehind`. A rejected key counts
everything left, a rate limit among the domains only up to the URLs, so that the sum falls
short by exactly their number (`Reckoned`).

The other three speak of what is computed from the stored rows, of any size. They follow
from `WholeInv`, which is inductive with `AccountInv`: in every row the indicators are of
their types and finitely many, the records are answers with the verdict of `FormatVerdict`,
one to an enrichable indicator, a row whose coverage says that nothing was asked has none,
and the numbers are those of the engine, or it was not scored.

- `UncheckedIsNotClean` is a case analysis over the places that decide one question.
  The link between them is `RecordShownAlike`: an indicator has at most one record, so
  every view shows the verdict of that one. The overview (`OverviewTruthful`) is only as
  good as the lookups' account: with nothing failed and nothing left out, every indicator
  that is valid has been answered for.
- `ScoreExplained` compares the engine's sums with those of the explanation, which are
  taken over other sets: only the types that occur, only the records that are malicious or
  suspicious. `FlaggedCounted` and `CategoriesAddUp` show that nothing is lost in between.
- `TotalsAgree` compares sums of sums taken in two orders, by row and by type, severity,
  status or day (`SumSwapped`, `SumByClass`).

`Sums_proofs` holds the lemmas on sums and counts over finite sets that these need. The
library's induction theorems take an operator, which the provers do not instantiate, so the
induction is done on a set of subsets: `OneByOne` says that a set of finite sets which
contains the empty one and, with each of its members, that member with one more element,
contains them all. It rests on `FS_StrictSubsetOrderingWellFounded`, and with it the
recursion inside `SumFunctionOnSet` can be unfolded (`SumUnfolds`). For the proofs `Total`
is written with `SumFunction`, and a filtered list (`FilterRows`) without recursion.

Every invariant and every refinement that the runs check is now a theorem. What remains
only model-checked is liveness (`FailureIsSettled`, `ExitCompletes`, `InitializeSettles`,
`EveryCallEnds`, `CommandsAnswered` and `StreamsCatchUp`): it rests on fairness and ENABLED,
which are beyond the prover's temporal backend.

## 5. Where code and comments disagree

- **An orphan after a quit during the first launch** (`host_orphan`). The setup
  thread never reads `shutting_down`. If the exit handler takes the mutex first,
  `shutdown()` finds a sidecar that is not RUNNING and does nothing; the setup
  thread then spawns a process and the shell ends.
- **A stability timer erases a crash** (`host_stability`). It checks RUNNING under
  the process mutex, gives it back, then resets the tracker. A crash that is found
  and recorded in between loses its attempt, so that one restart more than the policy
  allows may follow it. The count itself stays within the maximum.
- **A torn snapshot wins** (`projection_snapshot`). The state is read first and the
  sequence last: old state, newest number, and the equal-sequence rule accepts it.
- **`restart_pending` outlives the restart** (`projection_pending`). No event clears
  it once the scheduled restart has fired, and the later events keep it.
- **"Exhausted" while the last restart runs** (`projection_exhausted`). The snapshot
  says exhausted as soon as the last attempt has been granted.

Met while modelling the Python side, without a run of their own:

- **Comments that the code does not keep.** `services/correlation_service.py:91` says a
  malformed URL is compared "instead of breaking correlation for the whole
  investigation"; `urlparse` raises for unbalanced brackets, so an investigation with
  `http://[abc` answers `get_investigation` with INTERNAL_ERROR for good
  (`CorrelationRaises`). `scoring/engine.py:128` says that the reasons are "persisted on
  the `Investigation`"; the class has no such field, so the reason for a halved
  confidence is shown nowhere.
- **Counts.** When a rate limit ends the domains, `threat_intel/service.py:462` leaves
  out the URLs that line 470 counts for a rejected key: requested exceeds the sum
  (`EnrichmentAccounted`). An analysis whose lookups were all skipped as invalid is "ok",
  and its overview says "Enriched".
- **An enrichment that failed as a whole** (disabled, no key, an unexpected error) has
  no coverage, and its overview says "No Enrichable Indicators" without a warning.
- **Today's key decides what is shown of yesterday's lookups**: without one, an enriched
  indicator is shown as `no_api_key`.
- **Settings.** A read that fails for a moment resets the settings and saves the
  defaults. A plaintext key that cannot be moved is kept "and retried", but the next
  save drops it. Two sidecars that save at once lose one update; two CSV exports to one
  file overlay.
- **Progress events** reach a window only after the command has ended, because the
  handler holds the loop; with more than 32 the first are gone.
- **PDF.** The threat table is never split: beyond some twenty rows it runs off the page.
  `TotalsAgree` states that up to twenty rows fit. The table of indicator counts above it
  is placed without asking for room either and may lose its last row; no property covers it.
- **Duplicates** are recognised by file name alone. The dashboard reads its totals and
  its recent list in two transactions. The colours of the HTML report change at other
  scores than the severities.
- **Command line.** `main.py:106` hands the wrapper of the result to tables that expect
  its parts, which then show nothing, and `main.py:132` calls the exporters without
  their second argument.

## 6. Plan

Done so far, in the order of the first plan: the shell, the window's status, the
migrations, the event streams with the event loop, the commands with store, settings and
files, the analysis with its lookups, scores, views and documents. Left:

1. **StatusProjection**, extended by the exhaustion notification and by two cases met on
   the way: a restart event accepted while the store is `null` is dropped, and a snapshot
   read before it has a lower number, so the event is lost; and an event older than the
   applied snapshot, still on its way, is accepted, because the subscription's number
   knows nothing of snapshots, and rolls the store back until the next event.
2. **EventSourceManager** with the window's subscribers, against EventStream.

Not modelled: the pages and rendering, the API client and the keystore (stateless
adapters), the health probes (independent reads shown as text), the legacy GUI and the
legacy exporters (widgets and formats over services that are modelled, replaced by the
shell). The status column of `PROJECT.json` says the same per part.
