# Manticore Sentinel in TLA+

Manticore Sentinel is a Rust desktop monitor for one Linux host: it collects
snapshots of `/proc`, keeps them in SQLite, shows them in an `egui` dashboard,
and lets an operator kill or renice a process through a privileged helper
process, with a signed, Merkle-hashed audit trail.
The modules here model the parts of it in which several threads, two processes,
or a file and its cache must agree. TLC checks their properties on small instances;
TLAPS proves nearly all of the safety properties for all values of the constants. Source paths below
are relative to `src/` of the crate.

## 1. Inventory

Threads and processes: the UI thread (`app/dashboard.rs`) does everything that
is not named here; the telemetry worker (`telemetry/mod.rs`); the store's writer
thread (`store/mod.rs`); the helper process (`security/helper.rs`); the threads
of the event stream and the observability endpoint.

| Component | State | Operations | Talks to |
|---|---|---|---|
| Audit trail (`security/audit.rs`) | `events.jsonl`, archive files, `merkle_state.json` | append, retention pass, current root | called by UI and by helper |
| Anchoring, audit stream (`audit.rs`, `dashboard.rs` poll) | `anchor_state.json`, stream offset | anchor if due, emit new events | Evrmore node (RPC), event stream |
| Command gate (`dashboard.rs`, `security/auth.rs`, `core/policy.rs`) | pending action, confirmation text, failure counter, lock, last kill | submit, confirm, cancel | helper, audit trail |
| Helper (`security/helper.rs`) | capabilities, peer uid, token | handle one request, audit it, reply | UI over a Unix socket, audit trail |
| Telemetry worker (`telemetry/mod.rs`, `core/engine.rs`) | snapshot in hand, `SharedState` | collect, persist, publish, poll connectors | store, UI (mutex) |
| Alert rules (`core/policy.rs`) | one streak per rule id | evaluate a snapshot | UI |
| Snapshot history (`core/history.rs`) | `snapshots.jsonl` | append, compact | UI |
| Store (`store/mod.rs`) | channel, open transaction, tables | enqueue, apply, commit, prune, flush | worker, UI; readers |
| Search (`search/mod.rs`) | none | keyword, vector, hybrid (RRF) | store |
| Event stream (`app/event_stream.rs`) | channel, clients | accept, authorize, emit, drop | UI or headless loop; clients over TCP |
| Observability (`observability/mod.rs`) | none | answer one HTTP request per connection | telemetry handle, search, store |
| Connectors (`connectors/`) | status, waiting snapshot, last publish time | ingest, poll, publish | PeerWeave, EVRUS (HTTP), worker |
| Collectors (`collectors/`, `core/engine.rs`) | last sample of each counter | read `/proc` and `/sys`, join into a snapshot | worker; one thread each |
| Command parser (`core/command.rs`) | none | parse, help | gate |
| Configuration, start-up (`main.rs`, `core/config.rs`) | environment, `RuntimeConfig` | apply profile and overlay files, load, refuse | all |
| Life of the helper (`security/helper.rs`) | child process, socket file | start embedded or spawn, wait, health check, drop | start-up, gate |
| Models (`models/`) | none | plain data | all |

What is hard in it, and what makes each part correct:

* **Audit trail.** One append is eight file operations whose failures are
  partly ignored; retention rewrites the file in place; the Merkle leaves are
  cached and trusted on a *count*. Correct: no acknowledged event is lost,
  repeated or reordered; the root is the root of the file; the trail is
  append-only through every intermediate step.
* **Anchoring and streaming.** They read a file that retention renumbers.
  Correct: each anchored root can be recomputed from the trail, is recorded in
  it, and is newer than the ones before; no event is streamed twice or out of
  order until a read fails, and gaps come from retention only.
* **Gate and helper.** Authorization is decided in three layers that do not see
  each other, checked twice (at submission and confirmation), with time passing
  between; the cooldown is measured in another thread than the one that acts;
  the helper may die at any step. Correct: effects are permitted by all layers,
  kills are confirmed and spaced, failures back off, each outcome leaves one
  event, the UI does not wait forever.
* **Store.** Writes are batched in one open transaction, and errors of COMMIT,
  of statements and of a full channel are discarded. Correct: readers see a
  prefix of the accepted writes; vectors belong to their documents although
  SQLite reuses rowids; flush means committed; tables and losses are bounded.
* **Telemetry, alerts, history.** The dashboard samples the worker. Correct:
  nothing is taken twice, out of order, or before it is stored; alerts are those
  of the last N evaluations under their id; the history keeps order and the newest line.

* **Collectors.** Each keeps a baseline that it moves on by itself, while the
  engine may throw its figures away. Correct: the figures of all snapshots join
  without a gap and never add up to more than what happened.
* **Connectors.** The waiting snapshot, the time of the last publish and the
  status are set at different points, some only on success. Correct: snapshots
  arrive in order and spaced, a failure stays visible, the newest one arrives.
* **Event stream.** One thread both reads the requests of new clients and writes
  every event to all clients, whose sockets do not block. Correct: each client
  gets every snapshot from its admission on, once, in order and whole, or is
  dropped; nobody who is not let in gets one; a client harms the others only in
  the two ways of section 3.
* **Observability.** A request is one read, a page several locks. Correct: what is
  answered was authorized; a page is of one moment or of later ones.
* **Search.** Two reads of a store that is written and pruned between them are
  joined by rowid. Correct: hits are distinct, ordered, not forgotten, and scored
  by their own text and vector.
* **Parser.** Correct: its loops over flags accept their grammar and nothing else,
  and what is accepted has numbers in the range the helper counts on.
* **Start-up.** Three layers of settings give one configuration, and the child
  process derives its own from them; the helper is found by a file that is there
  before anybody listens, and that an earlier process may have left. Correct:
  nothing is switched on that nobody asked for, the dashboard talks to the helper
  it started, an orderly end leaves nothing, a start ends.

`PROJECT.json` lists the components with their status, the line of each hazard
and the properties that cover it.

## 2. The modules

### Audit trail: `AppendOnlyLog`, `AuditTrail`, `AuditTrailInvariant`, `AuditTrailProofs`

`AuditTrail` has one variable per file (`log`, `leaves`, `archive`, and
`unterminated` for a last line without its newline) and a program counter per
writer. Each file operation is an action: `Append_WriteLine`,
`Append_WriteNewline`, `LoadLeaves`, `Append_SaveLeaves` (two steps: the
truncating open and the write), `Retain_Read`, `Retain_Archive`,
`Retain_Truncate`, `Retain_Rewrite`, and the four steps of
`current_merkle_root`. `Spec` has these steps; `FaultySpec` adds `FaultStep`, with
the I/O errors (`IoErrors`) and the abandoned calls (`Crashes`) at every step;
a read that fails is no error to the code but an empty file (`ReadFails`). An event is its number, a leaf the
event it hashes, a root the sequence of its leaves.

One Sentinel instance is one writer: the dashboard's UI thread appends denials
and anchors and is blocked in `send_request` while its helper appends. Two
instances over one directory are not covered.

`AppendOnlyLog` is the abstract specification: a sequence of events that only
grows, by one new event at a time. The refinement maps it to archive and live
file together, and during the last two steps of a retention pass, when the live
file is being rewritten, to the archive and the lines in memory.

Reading a file drops the lines that do not parse, or are blank (`Without`); it is a
recursive function, not a recursive operator, so that it can be reasoned about.

### Anchoring and audit stream: `AuditPoll`, `AuditPollInvariant`

Extends `AuditTrail` with the Evrmore chain (external: a node accepts, rejects,
or accepts and its answer is lost), `anchor_state.json`, the stream's line
offset, and what was streamed. `Restart` starts a new process on the files left.
`Stream_ReadFails` is a poll that cannot read the file: `read_from_offset` returns no
events and line 0 without an error, the dashboard stores that offset, and the next
poll emits every line of the file again. Like a restart it begins the stream anew
(`StreamAnew`), and what is said of order holds from one such beginning to the next.
Two things the model made visible: the guard of `audit.rs:393`, which compares
the current root with the last anchored one, never holds back an anchor without
faults, since the anchor event itself changes the root; and once the live file
stays at its limit, the offset stays at its end, so new events are no longer
streamed (`StreamGapsOnlyByRetention` is the strongest statement that holds).

### Command gate and helper: `Policy`, `CommandGate`, `CommandGateInvariant`, `CommandGateProofs`

`Policy` has the pure decisions (roles and modes, EVRUS policy, token check).
`CommandGate` composes dashboard and helper: `Submit_*`, the confirmation prompt
(`Type`, `Cancel`, `Confirm_Mismatch`, `Confirm`), and the helper's `Helper_RejectPeer`,
`Helper_Handle`, `Helper_Audit`, `Reply`, `Helper_Dies`. `Tick` is the clock,
which runs while the UI waits. The dashboard's configuration is a variable that
never changes, so that one run covers all configurations. Commands that only
read are answered on the spot (`Submit_Inline`), without token, policy or event, if
`execute_read_only_command` has an answer (`Inline`): always for `help` and its
like, and from the first snapshot on for the five show commands. Before it these go
through the gate to `execute_action`, which audits `show cpu` (`Submit_ShowCpu`) and
no other (`Submit_ShowOther`). The helper refuses pids 0 and 1 for a kill
(`handle_request`) and for a renice (`set_priority`), both in `HelperAllows`.
The code asks token and policy a second time when a kill is confirmed; that this
check never refuses (`ConfirmationStands`) is not obvious, as failures, renices
and other kills come in between, and holds because kills exist only in modes
that have no lockout and the cooldown starts only when no kill is pending.
A process id is an unsigned number of `PidBits` bits; the helper casts it to a
signed one (`Raw`), and `Signalled` says which processes `kill(2)` then means:
one, a group, or all. In `kill_number` four bits stand for 32.
The length and content of tokens, the reasons of denials and the formatted
events are left out, except actor and policy hash of an event.

### Command parser: `CommandParser`

`parse_command` as a function from token sequences to commands, with the code's
loops over flags as recursive operators. Two of its assumptions state the loops
against grammars given without a loop (pairs of flag and value of which the last
counts; terms and modes), the third the ranges of the numbers that the gate and the helper rely
on. TLC evaluates them for every line of up to four of seventeen tokens whenever
a run of `MCCommandGate` starts. Trimming, splitting and wording are left out.

### Store: `StoreTables`, `StoreService`, `Store`, `StoreInvariant`, `StoreProofs`

`StoreTables` has the tables and, as operators on them, what the SQL statements
of `apply_op` do: upserts on the timestamp, a document as two statements (row,
then vector under `last_insert_rowid`), rowids used again after deletions, prune
by age and number. `Store` has the channel, the writer thread's loop, the
transaction (`work` is what the writer's connection sees, `committed` what
readers see), flush, the shutdown when the last handle is dropped, crashes, and
failing statements. Details taken from the code: the result of `COMMIT; BEGIN`
is ignored, so that after a COMMIT that rolls back BEGIN is not reached and the
writer goes on without a transaction; a failed write is not counted as pending;
Sync commits but does not reset the count; the errors of a prune are ignored
one by one; a prune becomes visible with the next commit; the count that
triggers it is not kept over a restart.

A committed transaction survives a crash of the process. (The SCHEMA pragmas are
run on another connection than the writer's; a power failure is not modelled.)

`StoreService` is the abstract specification: a committed state and a backlog of
accepted writes; publishing applies a prefix of the backlog; a prune may happen
with a publication, after any of its writes; a crash drops the backlog, never a
write in the middle.

### Search: `Search`, `SearchInvariant`, `StoreProofs`

Extends `Store` with one search at a time: `Search_Lexical` and `Search_Vector`
are the two reads, each through a connection of its own, between which the
writer goes on; `Fused` is `fuse_rrf`. A read may rank the documents it sees in any way
and leave any out, which covers every query, tokenizer and score; the reciprocal
ranks are kept, in millionths. `Search_Fts` and `Search_Recent` are the modes
with one read. `LateSearches` is a bound for TLC, not for the proofs: in the run
searches begin before the first fault and crash, and what they read may come after. `OwnScores` says how far a hit may go wrong: when a
prune drops a document between the reads and a newer one gets its rowid, the hit
shows the old row with the new row's vector score; only then.

### Event stream and observability: `Bearer`, `EventStream`, `Observability`, `Endpoints`, `EndpointsInvariant`, `EndpointsProofs`

`Bearer` is the check both servers make (`bearer_equals` under the mode), and when it
panics (`Panics`): `extract_bearer` cuts the value at byte 7, so that one of another
scheme with a character across that byte (`Halved`) ends the thread, unless the mode
is local or no secret is set. In the event stream that is `Panic`, the end of the only
thread; `emit_json` goes on into a closed channel. In the observability server the
one connection is closed unanswered (status 0).
`EventStream` has the channel, the server thread of `serve` with one action per
outcome of `accept`, `authorize_client` and `recv_timeout`, and the clients
(external): they connect, send a header or none or a line that is not UTF-8 (`Garbled`,
refused in every mode), stop reading, hang up. A write
to a client that does not read may succeed, fail, or write the front of the
frame (`Torn`). `Observability` follows one connection through `handle`: one
read of at most 4096 bytes, which may end anywhere (`FirstRead`), the status,
and for a page of metrics the two locks. Of a method only matters whether it is
`GET`, of a route whether it is the health check, the metrics, another page or none.
A value that is cut short counts as none: that the front part of one sent may
itself be the secret, or make the check panic, is left out.
`Endpoints` composes both with
`TelemetryWorker` and the headless loop, which takes ticks and emits them;
`drain_telemetry` ends with the same call.

### Telemetry, alerts, history: `TelemetryWorker`, `SnapshotHistory`, `Telemetry`, `TelemetryInvariant`, `TelemetryProofs`

`TelemetryWorker` has the worker (`Collect`, `Collect_Fails`, `Persist`,
`Publish`, `Connectors`), the shared state and `poll_tick` (`Fresh`,
`PollTick`); `Telemetry` and `Endpoints` both extend it.
`SnapshotHistory` has `append_snapshot` and `compact` as operators on the lines
of a file, and what a death or an I/O error in the middle may leave
(`HalfRecorded`). `Telemetry` adds `drain_telemetry`
(`TakeTick` with `Drain` or `Drain_HistoryFails`), the dashboard's own errors,
and crashes. The wall clock may be set back. Lines of the history have one size.
The handing over to the store is one step (`Persist`); what the store makes of
it is `Store`, whose producers are the calls of `persist_snapshot` in their
order. The graphs' samples, latencies and connector summaries, which the screen
shows and nothing reads back, are left out.

### Collectors: `Collection`, `CollectionInvariant`, `CollectionProofs`

The kernel's counters are variables that move at any time; the threads of one
`collect` (`Disk_Collect`, `Network_Collect`, `Process_Collect`, `Sample_Fails`)
each take a sample of all their counters in one step and keep the growth since
the last one; `Collected` and `Collected_Fails` are the join in `engine.rs`.
Devices and processes vanish and appear, with the name or pid of old ones too;
a collector passes over what it cannot read, except that the network collector
takes an unreadable counter for 0. `first`, `moved`, `counted` and `dropped` are
history for the properties. Rates are kept as growths: the time by which they are
divided is left out, and with it the case of no time between two samples, in
which the code reports 0. The CPU and memory collectors have no named counters
and are left out; for the others they are one more thread that may fail, and
each of the three modelled may. (The CPU collector matches cores by their place
in `/proc/stat`, so that a core that goes offline shifts the figures of the ones
behind it for one cycle.)

### Connectors: `Connectors`, `ConnectorsProofs`

`Ingest` is `ingest_system_snapshot`, `Poll` one `poll_connectors`: PeerWeave's
`health_check` with its publish inside, then the EVRUS probe, then the summary.
The services are external: each may not answer, answer badly, refuse, or store
the snapshot and lose the answer. An answer with `accepted: false` counts as
success in the connector, which does not read the field (`declined`); a publish
that failed is tried again at the next poll, without waiting for the interval;
without a space (`unset`) PeerWeave is degraded at every poll.

### Start-up and life of the helper: `Startup`, `StartupInvariant`, `StartupProofs`

`Main` applies profile and overlay (`Apply`) to the environment of a launch and
turns it into a configuration (`LoadFails`, `Loaded`). `SentinelDashboard::new`
is a phase that goes on from `Start_Embedded` or `Start_Subprocess`, unless the socket
cannot be bound or the process not be spawned (`Start_Fails`), over
`Wait_Seen` or `Wait_Timeout` (`wait_for_startup`), `Check_Connect` and
`Check_Answer` (the health check) to `New_Done`. The child has steps of its own:
`Child_Binds`, `Child_Listens`, `Child_Serves`, `Child_Dies`. `Dropped` is
`HelperRuntime::drop`; `Killed` runs no destructor. A setting is one of a few
values (`Values`); those that are only clamped or replaced by a default are left
out. The modes that start no helper (headless, benchmark, health check) end
after `Main` and are left out.

The child's `main` loads the configuration from the environment its parent has
changed, with the same result, which is why it has no configuration of its own.
The socket is named after the process id; every start gets the same one, the
worst case, except while a helper that its parent has left has still to bind.
What the model made visible: a start that fails after the spawn leaves the helper
running, because a `Child` that is dropped is not killed; an embedded helper with
a user id that is no number leaves its socket file; and a health check that
comes between the child's bind and listen fails the start.

## 3. Checks

| Run | Question | Bounds |
|---|---|---|
| `audit` | one writer, no faults, with anchoring and streaming: the inductive invariant (`SequentialTypeInv`), `HistoryKept`, `TrustedRoot`, the refinement of `AppendOnlyLog`; anchors can be replayed, are recorded and advance; the stream skips by retention only | limit 2, 6 events, anchor events among them: three retention passes, each after a state in which the cache was longer than the file |
| `audit_faults` | crash, failed read or write, or lost reply at every step: types, order of the files, order of the stream between two failed reads (`FaultsOrdered`) | limit 1, 3 events: a fault before, in and after a retention pass |
| `command_gate` | the whole way of a command, over the twelve configurations of `MCCommandGate`; with it the assumptions of `CommandParser` | pids 1 (never killed) and 7; four failures reach the cap of the lockout; the clock passes the cooldown, the lockout and the token's age; deaths of the helper |
| `store` | queue, batch, prune, flush, one crash, one failing statement or COMMIT anywhere, searches between them (`SearchSound`); refinement of `StoreService` | channel of 2 (overflow), batch of 2, prune after 2, limits 1, 3 writes (two to reach a prune, one to take a rowid that the prune has freed), two readings of the clock further apart than the age limit; searches for two hits, of two embeddings at most |
| `telemetry` | worker, dashboard, alerts (`AlertsMatchStreaks`), history | 4 collections, streaks up to 2, limit of 2 lines, 3 by size, an age limit that both keeps and drops; one crash or failed append; five rules: debounced, immediate, on an unknown metric, and two that share an id |
| `collection` | collectors in any order against moving counters | one disk, one interface, two processes of which one is listed; 3 collections (baseline, growth, growth after a failed one), counters at 1 before the start, 2 moves, one failure or disappearance |
| `connectors` | publish, retry, spacing, status, delivery | interval 2, 4 snapshots, 4 bad answers: enough for a retry that a newer snapshot overtakes, twice |
| `endpoints` | what leaves the process: `StreamSound`, `PageSound`, and that every event is taken (`EventsTaken`) | two clients, one secret right or missing, two collections, of which each may fail; six configurations: stream and server in each mode; clients with the right, a wrong, a panicking, a garbled and no header, requests of every route with all of these but the garbled one |
| `startup` | layers of settings, start of the helper in either mode, its death, the dashboard's end | two starts, so that the second meets what the first left; one death of a helper; the launches are four usual ones with one setting changed to each of its values, privilege over all three places, and a missing profile |

Deadlock is checked in `audit` and `audit_faults`. The others set `CHECK_DEADLOCK FALSE`
because their behaviours stop at a bound (clock, writes, collections, starts) or
because the program was closed.

Three runs expect a violation; each shows the code doing something else than a
text of the repository says, and is a finding in `PROJECT.json`:

* `gate_lost_event`: the helper acts first and ignores the error of the append,
  so a command (in the trace a renice) is carried out, answered OK, and not recorded.
* `alert_cycles`: an alert's condition holds in the first and the third collection; the
  dashboard misses the second, and a rule that asks for two cycles fires. The help
  text has alerts "evaluated on each collection cycle" and `for_cycles` ask for
  "consecutive cycles". (`AlertsPersist` passes over cycles that failed.)
* `kill_number`: an id above 2^31 - 1 passes the guard as `u32` and reaches
  `kill(2)` as a negative number, for a group or for every process; the help text
  says the signal goes "to the specified process".

Not findings, but worth knowing:

* The Merkle cache is trusted when it has as many leaves as the file has lines, and
  the error of a failed update is ignored (`audit.rs:78`). With a limit of one line:
  event 1 gets its leaf, the update for event 2 fails, the retention pass of the same
  append archives event 1. One leaf, one line: the root is over event 1 and event 2 is
  in none, though the help text (`command.rs:478`) has the root "computed over all
  events". The steps are `Append_MerkleFails` and the `Retain_` steps of `AuditTrail`;
  `TrustedRoot` is checked without faults.
* Once a snapshot has been taken `show cpu` is answered on the spot (`Submit_Inline`)
  and leaves no event; before, it leaves one. The table of commands in the
  repository's `README.md` has it "audited". The other show commands never leave one.
* A failed write of the newline (`audit.rs:74`) glues the next event to the line
  before; if an anchored event is among them, its root can no longer be replayed
  from the JSONL (`AnchoredVerifiable` is checked without I/O errors).
* A read of the audit file that fails makes the event stream repeat all of the file
  (`Stream_ReadFails`); no document says that an event is streamed once.
* Rules that share an id share a streak: it counts the evaluations of all of them
  (`AlertsMatchStreaks`).
* A lost answer of the Evrmore node leaves an anchor no event names
  (`AnchorsRecorded` is checked without `LostReplies`).
* A request of a peer the helper does not admit is answered and leaves no event.
* An error of the collector reaches the screen with the next good snapshot, which
  has just cleared it; the dashboard's error counter goes back with each tick.
* `flush` answers Ok when its COMMIT failed.
* A client of the event stream that connects and sends nothing holds up the
  stream of all others, as `authorize_client` reads without a limit (`HeldUp`).
* A client whose Authorization value makes `extract_bearer` panic ends the stream for
  all of them until the program is started again (`Panicked`); no document says that
  the stream survives such a client.
* Both servers compare the token only; its lifetime, which the gate checks, does not
  end their clients' access.
* `kill` sends SIGTERM where its help text names SIGKILL.
* A search may show a pruned document with the vector score of the one that has
  got its rowid (see `Search`).
* Two texts about settings that no run
  depends on differ from the code: `docs/configuration.md` has the refresh
  interval clamped where `core/config.rs` refuses what is out of range, and
  `docs/startup-diagnostics.md` gives it another default.

**Fairness.** `CommandGate!FairSpec` has weak fairness of `Answer`: the helper's
thread and the UI's read of the socket get scheduled, and a closed socket is an
answer; there is no fairness of the helper's death or the operator. A helper that
lives and never answers would hang the UI (`send_request` has no timeout).
`Search!SearchSpec`, like `Store!FairSpec`, has weak fairness of `Writer`: the writer thread is in a loop
around `recv_timeout` of 40 ms, so it takes a step whether or not writes come.
`Telemetry!FairSpec` has weak fairness of taking a tick: each frame calls `poll`
and asks for the next frame after the repaint interval (`dashboard.rs:3179-3181`).
`Endpoints!FairSpec` has weak fairness of `Stream_Step`: the server thread's loop
waits at most 100 ms for an event and not at all for a connection; there is none of a client, so one
that never sends its request is among the behaviours checked.
`Connectors!FairSpec` has weak fairness of `Poll` (the worker's loop) and of
time; the bound on bad answers means that PeerWeave answers properly from some
point on, without which nothing can be delivered.
`Startup!FairSpec` has weak fairness of `New`, one thread that goes on from call
to call with a limit of two seconds on its wait, and of each child's steps, a
process that is scheduled; none of deaths, of kills or of the operator's closing.
No other step is fair.

## 4. Proofs

Each `...Invariant` module has what a component carries from one step to a later
one, each `...Proofs` module the theorems. An inductive invariant can be given to
TLC as well: an `INVARIANT` line with its name in the `.cfg` of the run, whose
MC module extends the invariant's module. The invariants were checked like that
before they were proved.

| Theorem | Says |
|---|---|
| `SequentialInductive`, `TypeCorrect` | the inductive invariant and the types of `AuditTrail` |
| `TrustedRootHolds` | the root returned is the root of the file, cached or rebuilt |
| `HistoryKeptHolds`, `ImplementsLog` | archive and live file hold each event once, in order; every step is a step or a stutter of `AppendOnlyLog` |
| `PollInvariantHolds`, `PollKeepsTrailInvariant`, `PollImplementsLog` | the same with anchoring and streaming going on (`PollInv`) |
| `AnchoredVerifiableHolds`, `AnchorsRecordedHolds`, `AnchorsAdvanceHolds` | each anchored root can be recomputed, has its one event, and covers what none before it covers |
| `StreamGapsOnlyByRetentionHolds` | an action property: a poll emits every event since the last one unless retention came between |
| `FaultsInvariantHolds`, `FaultsOrderedHolds` | with every crash, restart, failed read, torn write and lost answer: the files do not lose their order, nor does the stream from one failed read to the next |
| `GateInductive` | type correctness and the five parts of `GateInv` |
| `EffectsAuthorisedHolds`, `SignalsSpacedHolds`, `KillsConfirmedHolds`, `LockoutBacksOffHolds`, `ConfirmationStandsHolds`, `OneEventPerOutcomeHolds` | the safety properties of the gate; what the helper carries out meets no protected pid, be it a kill or a renice; `OneEventPerOutcome` includes that the event of what the dashboard refuses or does by itself names the actor and policy in force |
| `StoreInvariantHolds` | `StoreInv`, over every failed statement, COMMIT and crash |
| `EmbeddingsStayPaired`, `FlushMeansCommitted`, `TablesStayBounded` | vectors belong to their documents; `flush` answers Ok only when all is committed; tables and losses are bounded |
| `StoreImplementsService`, `SearchLeavesStore` | the store implements `StoreService`; a behaviour with searches is one of the store |
| `SearchInvariantHolds`, `SearchesSound` | until a second statement has failed: a search returns the best hits, none twice, each with the scores of its own document or of its successor under the rowid |
| `TelemetryInvariantHolds`, `SnapshotsTakenInOrder`, `AlertsAreOfStreaks`, `HistoryStaysSound` | worker, dashboard, alerts and history file |
| `FiguresInvariantHolds`, `SamplesJoin`, `NothingCountedTwice` | the figures of all snapshots together |
| `LaunchInvariantHolds`, `NothingStaysBehind`, `HelperIsOwn`, `OnlyWhatWasAsked` | start-up and the helper's life |
| `StreamSoundHolds` | what the event stream delivers, and to whom |
| `PageInvariantHolds`, `PageSoundHolds` | what a page of the observability server shows, and to whom |
| `ConnectorsInductive`, `ConnectorsInvHolds`, `PublishedInOrderHolds`, `PublishSpacedHolds` | the PeerWeave connector: honest status, order and spacing of what it sends |

### Audit trail

The theorems about `Spec`, without faults, assume one writer (`Sequential`), and
`ArchiveEnabled` where the archive is part of the statement; retention limit and
number of events are arbitrary. `TrustedRoot` alone is not inductive: that the
cache may be trusted when the counts agree rests on every file being a *run* of
consecutive event numbers (`RunTo`) with known ends. `AuditTrailInvariant` says
for each step of the writer where log, cache, buffer and archive end, and that the
cache is never shorter than the file except for the one event being hashed. Two
runs with one end and one length are equal, which is `TrustedRoot`.

`PollInv` adds to it that every root on the chain is a run that ends before its
anchor event and after the run of the root before (`ChainRuns`), that there is one
anchor event for each of them, and where the stream's offset points
(`StreamInv`: until retention moves lines, the lines behind the offset are the
events since the last poll). Then a root is a segment of the trail because both are
runs, wherever retention has moved its events since. These theorems assume
`Faultless` (no crash, I/O error or lost reply): after a fault the files are not runs
any more, and with a torn line or a lost reply `AnchoredVerifiable` and
`AnchorsRecorded` are false (see the notes of section 3).

`FaultsInv` needs no assumption. What faults leave of the runs is their order.
`FilesInv` says that what is archived is older than what is
in the file or still among it (a pass that died between archiving and rewriting),
that nothing streamed is as new as a line behind the offset, and that nothing
archived is as new as a last line without its newline, which the next append
will spoil; `HandsInv` says the same of the lines a writer has in memory and has
still to write back.

### Gate

The gate theorems hold for all sets of configurations, pids, cooldowns, lockout
steps and time bounds; `OneEventPerOutcomeHolds` assumes that appends succeed.
`GateInv` says what the code carries from one step to a later one and does not
look at again: the lock in force belongs to the last failure (`LockInv`), a
confirmation in the field was typed for no earlier request (`ConfirmInv`), a
request under way was permitted (`RequestInv`), the helper's last signal is
covered by the dashboard's `lastKill` unless it belongs to the request under way
or the helper is dead (`CooldownInv`), and the helper writes the event of the
request the UI waits for (`EventInv`). `ConfirmationStandsHolds` adds `PendingInv`.

### Store and search

For every size of queue and batch, prune interval, limit, number of writes, faults
and crashes. `EmbeddingsPaired` is about one failed statement, which is where it is
hard: a document without its vector does no harm, a vector without its document
could be taken for that of the next document with its rowid. `PairInv` has both,
and that once a COMMIT has failed, from where on SQLite runs every statement by
itself, no vector is left alone. `TablesBounded` needs what the writer has done
since the last prune (`SizeInv`, `ControlInv`), `FlushPublishes` that what is owed
to the caller of `flush` is in the open transaction or ahead of its message in the
channel (`FlushInv`), and that channel and tables are in the order of the writes
(`OrderInv`). The refinement maps the readers' tables to the service's and the
open transaction with the channel to its backlog. `ServiceInv` says that the
writer's tables are a result of applying the open writes to the readers' tables,
with prunes among them; with it each commit is a publication, and every other step
is an enqueue, a crash or a stutter. Like the property, it speaks of the behaviour
up to the first failed statement.

`SearchesSound` joins what two reads saw at different times by rowid, and rowids are
used again. `SearchInv` says of every document that was ever read that it is `Settled`:
under its rowid there is nothing older now, its number is under no other rowid, and all
writes still in the channel are newer. The writer keeps that because it applies the
channel in order and gives a new document a rowid above all it sees
(`DocumentsStep`); so a vector read later under the same rowid is the document's own
or its successor's. For `fuse_rrf` (`FusedIs`) any order of equal scores is covered:
what the list leaves out stands behind all it keeps. The theorems say `faults <= 1`
because with two failed statements a document's vector may be another's, as in
`EmbeddingsPaired`.

### Telemetry, collectors, start-up

`TelemetryInv`: the dashboard may be long in taking what the worker publishes, so
`TakenInOrder` needs all of the way: `WorkInv` says that the snapshot in hand is
newer than the shared one, and `Older` what "older than all that is
to come" means at each point. An evaluation is a pair of snapshot and rule;
`StreakInv` says that the streak of an id is the number of evaluations under it
behind the last one that did not match, be it shared by rules or not. `HistoryInv`
includes that the last line is whole unless a loss has just happened, and the
properties of the file.

`FiguresInv`: `CountedOnce` is not inductive; `BudgetInv` is: what was counted,
what was dropped, what is in hand and what the next sample would say together are
no more than the counter's growth. It rests on `BaselineInv`: a name that never
vanished is in every sample since its first, and has not been below it.

`LaunchInv`: the socket's file says nothing of who made it. It leads to the
helper of this start because the start has removed the file that was there
before, and only the helper of the latest start has still to bind (`SpawnedInv`,
`SocketInv`), for any number of starts, deaths and kills. `OnlyWhatWasAsked`
follows from `ConfigInv` for all files and environments.

### Event stream, observability, connectors

`StreamSoundHolds` is for any clients, headers, configurations and number of
snapshots, the panic included (`Ended`: the server ends with its channel, or because a
client that is not let in has sent such a header). `StreamSound` is inductive as it stands because its parts include what
the deliveries rest on: who waits is in the backlog once (`Connected`), and the
numbers of the snapshots grow from the worker to the stream (`Numbered`).

`PageInv` is for any requests. `PageSound` compares a page with the collections
there have been, so the shared counters must be theirs (`CountersInv`: the counters
are those of the collections whose outcome is published, and the shared snapshot
is the last good one of them); and between the two locks of a page of metrics the
counters already read are no newer than the shared ones, and the reader was let
in (`BetweenInv`).

The connector theorems are for every interval and any number of snapshots and bad
answers. `PublishedInOrder` and `PublishSpaced` are not inductive: that the next
attempt is in order needs a waiting snapshot to be newer than all that was given
(or the last one, with its answer lost), and that it is spaced needs the
connector's clock to be the time since the last acknowledgement; that a refused
attempt stays visible needs that it is still due. `Remembered` says these.

### Assumptions on the constants

Each is a named `ASSUME` of the module that declares the constant, and TLC
evaluates it for the values of the runs. Bounds are natural numbers; queue, batch
and intervals are not 0; the markers (`NONE`, `JUNK`, `NoSnapshot`, `FAILED`) are not
among the values they stand beside. `CollectionConstants` has finitely many devices
and processes, no name in two collectors, and counters that are not 0 when Sentinel
starts (`Boot`); `BearerConstants` that the value on which the check panics is no
secret; `AskConstants` gives requests a method, a route and a header,
`StartupConstants` the launches their files and environments.

### How data is reasoned about

The prover has no induction over operators. Where a proof needs induction (over
the lines of a file, the rules of a snapshot, the operations of a batch) it
forms the *set* of the numbers for which the statement holds and shows that it is
all of `Nat` (`SetInduction` in each module that needs it). Loops of the code are
recursive functions; a lemma says that the function exists and what it is at 0 and
at `n + 1` (`RestOf` and `WithoutIs` for `Without`, `AfterStep` for the streaks).

### Only model-checked

* Liveness (`AlwaysAnswered`, `AcceptedPublished`, `LatestShown`, `Delivered` of
  `Connectors`, `EventsTaken`, `StartupEnds`): out of the prover's reach.
* The statements that the three runs with a violation refute.
* The recursive `CommandParser` and its assumptions.

## 5. Not modelled, and why

* What the read-only commands answer, help texts, completion: they format what is in
  memory. Whether such a command passes the gate is in `CommandGate`.
* Scores of a search (tokens, embeddings, cosine, bm25) and `discover`: any
  ranking is allowed in their place.
* The `/api` pages of the observability server: each is one or a few reads of the
  store; in `Observability` they are `Answer`.
* CPU and memory collectors, models: sequential arithmetic.
* Settings that are only clamped or defaulted, and the modes of `main` that start
  no helper. `CommandGate` takes its configurations as a constant; that `Startup`
  yields them is not stated yet.
* Rendering: only the state changes made while drawing the prompt are modelled.
* Signatures and hashing: an event is its number; that verification fails for a
  changed event is the promise of Ed25519 and SHA-256.

## 6. Plan

Done: all components of section 1 that have a module; the safety properties of
every passing run are proved. Next:

1. `Startup` composed with `CommandGate`, so that a kill between two dashboards'
   lives is covered, and the gate's configurations are those `Startup` yields.
2. Two audit writers over one directory.
3. The Merkle tree with odd levels against a reference definition.
