# mymuxer: a TLA+ model of the stream multiplexer

mymuxer receives MPEG-TS streams (UDP, RTP, HTTP, HLS, unix sockets, ffmpeg),
checks and remultiplexes them and sends them on (UDP, RTP, HTTP, unix sockets).
It is one tokio process controlled through an HTTP API.  This directory holds
TLA+ modules for the parts of it whose correctness depends on interleavings,
failures or long histories, the TLC runs that check them on small instances, and
TLAPS proofs of the main safety properties for every value of the constants.

`PROJECT.json` lists the components, the runs, the mutants that show each
property can fail, the source lines behind every definition, the hazards and the
theorems.  Line numbers below are those of the files under `src/src/`.

## 1. The system

| Component | State it keeps | Operations | Talks to |
|---|---|---|---|
| Stream lifecycle (`supervisor.rs`, `workers/mod.rs`) | map of workers, set `workers_lock`, loaded configuration; per worker one input task, one task per output | load, start, stop, startall, stopall, restart; the monitor loop once a second | HTTP handlers (one task per request), tokio tasks, admin server |
| Configuration store (`supervisor.rs`, `config.rs`) | `src_config`, `dirty`, `last_update`; `config.json` and backups `json.1` to `json.5` | load, dirty, save, autosave, read at start | file system |
| Stream status (`workers/mod.rs`: `WorkerStatus`, `Helper`) | flag `dirty`, `last_dirty_time`, `unmark_message`; channel to the admin server | mark, unmark, unmark now, log | shared by the input, every output's packet handler and the status loop |
| Inputs (`workers/input_*.rs`) | the loop's position, a local flag `dirty`, the read's timeout | connect, read, time out, back off, end | source, broadcast channel to the outputs, Helper, cancellation token |
| Packet handler, proxy mode (`mux.rs: proxy_packet`) | sync, initial tables, two dirty flags, bytes gathered | one call per chunk | output loop and its socket |
| Packet handler, mux mode (`mux.rs: write, process, flush_*`) | sync, tables, `dirty_ca`, `is_ready`, one buffer each for video and audio, last DTS, limits | write a chunk, flush a datagram, clear | Helper, output loop |
| PSI tracking (`mux.rs: process_pat, process_pmt`, `psi/mod.rs`) | initial PAT and PMT, reassembly buffers | push a packet | both modes |
| PSI insertion (`mux.rs: flush_psi_packets`) | a PCR per table, which a jump of the PCR leaves as it is | once per flush | PCR restamper |
| Sync search (`mux.rs: sync_buffer`, `biss.rs`) | bytes not used yet, `is_sync` | once per chunk | both modes, descrambler of the inputs |
| CBR pacing, PCR restamping (`mux.rs`, `output_udp.rs`, `output_rtp.rs`) | first PCR, packets sent, the two buffers | flush, resync | output loop |
| HTTP and unix outputs (`output_http.rs`, `output_unix.rs`) | main task, accept task, one task per client on a broadcast channel, the socket's file | listen, accept, serve, end | clients, cancellation token, the runs of the output before and after it |
| HLS client (`hls_client.rs`) | playlist task, pacing task, names seen, queue of segments, channel | fetch, retry, pace | `input_hls` |
| HTTP router (`http_router.rs`, `supervisor.rs`, `database.rs`) | map of router tasks behind a fair lock, table of aliases, table of keys, feeds, viewers | start, stop, add and remove aliases and keys, view | HTTP handlers, unix outputs, viewers |
| Dumps (`supervisor.rs`) | map of dump tasks | start, stop, the guard of a response | HTTP handlers, outputs |
| EPG (`supervisor.rs`, `epg/epg.rs`) | map of generators; per generator a snapshot, a version, a queue, three tasks | start, stop, monitor; load, pass, send, watch | HTTP handlers, admin server, UDP |
| Probe (`probe.rs`, `supervisor.rs`) | set `probe_lock`; what was found so far | probe | HTTP handlers, a worker's channel |
| Parsers and builders (`pes/`, `psi/*`, `packet.rs`), statistics | none or display only | | |

What is hard here: every HTTP request is a task of its own and most functions
take several locks one after the other; the monitor changes the worker map
without the per-stream lock; a save rotates files another save may be rotating,
and can be killed between any two steps; one status is written field by field by
tasks in different threads; select loops mix timeouts, statistics timers and
cancellation; the packet handler's many flags decide together whether anything is
sent, and must let it start again after every kind of trouble; clocks wrap after
26 hours.  Section `hazards` of `PROJECT.json` puts each of these at its line.

What makes each part correct: a stream has at most one worker the API can reach
and a stop gives everything back; the last complete configuration survives a
kill; a problem that lasts shows and a recovery is reported; payload is forwarded
only under the tables the output started with; an output that could run does run;
tables come when their timers let them, on a clock that wraps; a constant bit rate
output sends no packet further ahead of its clock than jitter and limit allow,
and never stands still with packets in its buffers; the runs of one output do not
take each other's socket; a task that was told to stop ends, and one that ended
is found again; a removed key ends a viewer.

## 2. The modules

A comment at the head of every module says what it leaves out.  `MC*` modules
only add values for constants, and five of them put components that share no
state into one run: a variable `part`, chosen when the run starts, says which of
them moves, the others stay in their first state, and fairness is asked of the
part that moves only.  The reachable states are those of the components one by
one, and a property of one component is checked in the part that moves it.

**Supervisor** (`supervisor.rs` 245-485, `workers/mod.rs` 56-254, `misc.rs`).
A process is one tokio task: a request or a restart task.  `pc[p]` stands before
the next statement that touches shared state, so `Check` (the look at the map)
and `Lock` (the look at `workers_lock`) are separate steps as in the code, and
`Release` is the drop of the scopeguard on every return path.  A worker is an
identity of `Inst` with the state of its tasks; a task whose `Worker` is dropped
goes on running, as tokio tasks do.  `MonitorScan` is one `retain` under the
write lock together with `Worker::monitor` on every worker; `MonitorSpawn` spawns
the restart tasks.  `AbortOutput` and `AbortRemote` are `wait_and_abort`.

**ConfigStore** (`supervisor.rs` 245-299, 451-465, `config.rs` 160-195).  A
configuration is the number of the load that brought it.  A file name refers to
an inode, so a rename moves a file that another save is still writing.  Every
`try_exists`, `rename`, `create` and `write_all` is a step.  tokio's `File`
accepts the bytes and writes them in a blocking task; the code does not flush, so
`Flush` is a step of its own.  `Crash` and `Boot` may come between any two steps.
`Autosave` starts only when no write is pending: the monitor looks once a second
and the blocking pool is taken to be faster.  A save that begins while another is
under way, or while the bytes of one are still on their way to the disk, counts as
an overlap (`overlapped`).  A file operation fails only because
another save moved the file.

**WorkerStatus** (`workers/mod.rs` 324-514).  Each call of `Helper` is the
sequence of its accesses to shared fields and to the channel.  `Age` lets the 30
seconds of `DIRTY_TIMEOUT_SEC` pass.  `Deliver` is the sender task; with `Lossy`
a failed POST drops the message, as the code does.

**InputWorker** (`workers/input_*.rs`) extends WorkerStatus: the input is one of
its callers, the status loop the other.  The six loops are disjunctions of the
same steps (`Connected`, `Failed`, `TimedOut`, `StatsTick`, `Received`, `Slept`,
`Stopped`).  Time counts in periods of the one-second statistics timer.  The
source is up, closed or silent.  A connect is taken to end.  A BISS read that
yields no whole packet is left out.

**PsiTracker** (`psi/mod.rs` 19-135, `mux.rs` 513-609): the reassembler and the
comparison with the first section.  A section comes whole, as head and tail, or
as a tail followed by a whole one; a head joined to a foreign tail is `Mixed`,
because the reassembler checks neither continuity nor CRC.

**ProxyHandler** (`mux.rs` 974-1056, `output_udp.rs` 54-111) extends PsiTracker.
`put` records what the last packet added to the output; `first` and `seen` are
history variables for the properties.

**Clock** (`mux.rs` 45-100): DTS and PCR sums, differences and order over a
cycle that is a parameter.

**MuxHandler** (`mux.rs` 315-901, 1155-1199, 1346-1359) extends PsiTracker and
Clock.  `Receive`, the packet actions and `End*` are the pieces of one call of
`process`; they are separate because a chunk is taken packet by packet, and no
other task can see the handler in between.  The loop of `buffer_adjust` is a choice
of how many packets of each kind it has dropped: `Popped` says which numbers the
loop ends with, step by step through what is left after i drops (`Left`).  `marked` is what the handler last
told its Helper.  The input buffer's overflow only resets the sync and is covered
by `Receive`; BISS descrambling cannot fail once a descrambler exists.  The
tables a datagram carries are in PsiInserter.

**PsiInserter** (`mux.rs` 1058-1133) extends Clock: one table at most per flush,
PAT before PMT before SDT; `Resync` is a jump of the PCR, which the timers do not
follow.  `since` and `owed` are history variables: the ticks since a table was
inserted (or since the start or the last jump, if later), and those of them its
timer does not let it come in, which after a jump back are the ticks until the PCR
has caught up with the timer (`Withheld`).

**CbrPacer** (`mux.rs` 1201-1398, 1407-1463) extends Clock.  The handler in
constant bit rate mode: packets come in between two datagrams (`PushFrame`,
`ClearBuffers`, `BecomeReady`), a flush fills the slots of a datagram one by one
(`FillSlot`) with a table, a packet chosen by one of the three rules, or a null
packet, and the clock counts all of them.  A datagram has room for any number of
packets; with a `pkt_size` below 188, which the configuration admits, it has room for
none, and only tables leave.  `Left` and `Adjusted` are `buffer_adjust`,
as in MuxHandler.  The packet count is kept modulo the
denominator of a packet's duration and the rest added to the first PCR, which
yields the same PCR and keeps the state finite.

**TsSync** (`mux.rs` 114-135 and its users, `biss.rs` 126-149).  The one module
that looks at bytes: a byte is the first of a packet, one that looks like it, or
neither.  The source sends packets back to back in chunks that cut them anywhere
and may lose bytes between chunks; three readers are compared.  `sync_buffer` is
the first of the places its loop would look at where the loop ends.  `searched`,
`fell`, `emitted`, `waiting` and `held` are history variables: `waiting` counts the
bytes since a packet came out, a byte was lost or one looked like a sync byte, and
`held` is what the buffer held then.

**OutputServer** (`output_http.rs`, `output_unix.rs`).  Successive runs of one
output: main task, accept task and one task per client of each.  The worker holds one
run (`srv_held`); it starts the next when that has ended, over it when a start
overwrites a worker, or after the monitor has dropped it (`forgotten`).  `srv_file` is
the run whose socket the path leads to.  `Unlink` removes whatever is there, or fails,
at the start and at the end of a run; it is done by tokio's blocking pool, so that a
run aborted meanwhile (`"left"`) still does it.  `robbed` is a history variable: the
runs whose file was removed by one that had been given up.  Accept errors, clients
that read or do not, the token and the abort of a stop are in it; the frames on the
broadcast channel and tokio's lag notices are not, nor the reports of accept's errors
(`cmd_mark_dirty` sets the status all of the stream's tasks share).

**HlsClient** (`hls_client.rs`, `input_hls.rs`).  Both tasks of one `get`, await
by await, over a playlist that moves forward; the hash list of names seen, a
queue, a bounded channel, failures of every fetch, a segment of duration 0.  The
pushes of the first playlist are one function (`PushedAll`).

**TaskMap** is an abstract specification: a map from ids to tasks in which a task
is registered alone, loses its entry only by being stopped or after it has ended,
and ends when it was stopped.  **EpgTasks** (`supervisor.rs` 738-806 and the
monitor's EPG half) implements it with its liveness (`EpgMapKept`), **HttpRouter**
(`supervisor.rs` 808-899, `http_router.rs`, `database.rs`) its safety part
(`RouterMapKept`).  The refinement mapping reads a task's abstract state off
whether it is registered, whether it runs and whether a stop waits for it.  The
map of streams does not implement it (an insert overwrites, and the monitor's
restart fails), nor does the map of dumps.

**HttpRouter** also models the fair read-write lock: requests queue for it,
`guards` counts the read guards each holds, and add_alias holds one while it asks
for a second.  `Of` says which router a task would be of; start and stop visit
the routers in any order, as iteration over the code's hash maps does.  **Viewers** (`http_router.rs` 80-208, `database.rs` 84-110) is one
alias of a running router seen by those who watch it: the check of the key, the
look-up, the subscription, the check at every frame, a channel that closes when
its last sender is gone.

**Dumps** (`supervisor.rs` 682-736, 1156-1211): requests, responses, the scope
guard that stops by the output's id, the stop tasks it spawns.  `shared` records
the outputs that had two dumps at once.

**EpgGenerator** (`epg/epg.rs`): watchdog, load task and main task of one
generator.  A tick is the watchdog's period; a schedule stands for its own hash.
`Sorted` is the stable sort by start time, each event put at its `Rank`.

**Probe** (`probe.rs`, `supervisor.rs` 648-680): requests that contend for the
lock, the reading phase with its timeout and a worker that may go, then the loop
over the packets with its four arms, each packet a choice.

**SupervisorProofs, WorkerStatusProofs, InputWorkerProofs** (with HlsClient),
**OutputsProofs** (ProxyHandler, OutputServer, EpgGenerator), **MuxHandlerProofs,
PacingProofs** (PsiInserter, CbrPacer, TsSync), **StoresProofs** (ConfigStore, Viewers) and
**TasksProofs** (Dumps, EpgTasks, Probe, HttpRouter) hold the theorems.

## 3. The runs

| Run | Instance | Shows |
|---|---|---|
| `supervisor_race` | one stream, two clients, one restart task, three workers (2.7 M states) | lock discipline, a map that offers only live workers, nobody inserts while a stop is under way, the map changes under the lock, workers are lost only by an overwriting insert |
| `supervisor_live` | one stream, one client with all four requests, one restart task, two workers | locks come back, finished outputs return |
| `supervisor_restart` | as above, start requests only | **violated**: see section 4 |
| `stores_all` (MCStores) | ConfigStore in two slices: the autosave, four loads, three backups, kills at any step; the autosave and one `/save`; and Viewers: two viewers with one key, two channels, a ring of two (0.27 M states) | the last complete save survives and the rotation loses only the oldest; a dirty flag is reset in the end although two saves make each other fail; after a key's removal a viewer is handed at most the frame that was past the check, and leaves; nobody stays on an old channel |
| `config_lost` | two loads, the autosave | **violated** |
| `status_race` | two callers and the status loop, lossy | between calls an armed timer means a dirty stream |
| `inputs_all` (MCInputs) | all six inputs, lossless; an HLS broadcast of five segments, a playlist of three, two names kept after a cut, one piece per segment | local flag covers the shared one; outage and recovery show; cancellation ends the loop; segments are queued once and in order and sent; only a cancel or the loss of the pacer ends the playlist task |
| `input_silent` | the unix input | **violated** |
| `mux_all` | two contents, DTS cycle of 6, steps 1, 2 and -1, small buffers (0.5 M states) | started is not silenced, a pause is reported, discontinuities are marked, a good source recovers |
| `pacing_all` (MCPacing) | PsiInserter: PCR cycle of 16, periods 4, 4 and 6, flushes of 1 or 2 ticks, three jumps; CbrPacer: packets of one and a half ticks, DTS cycle of 8, jumps both ways, two packets per datagram and buffer, with and without adjust_buf; TsSync: packets of two bytes, chunks of three and eight, up to three false sync bytes in a chunk (0.54 M states) | a table comes when its timer lets it, after the flushes of those before it: from one insertion to the next that is its period, after a jump it may be half a cycle; the PCR moves with the wire, nothing unmarked leaves further ahead than jitter and upper limit allow, packets in the buffers never block for ever; the search finds the first packets and drops no possible one, readers do not stay misaligned, packets come out within `FlowBound`: six packets, a chunk, and a chunk more for every three packets in the buffer |
| `outputs_all` (MCOutputs) | ProxyHandler: two contents per table, all fragmentations, a datagram that is no multiple of a packet; OutputServer: two runs, one client, a file left by a killed process or none; EpgGenerator: three schedules, five ticks, three versions (0.33 M states) | payload only under the initial tables, bounded gathering; a run that listens has its file unless a run that was given up took it, the token ends the tasks wherever they are; a version tells a schedule, the present event moves on, the queue grows by passes cut short only, a stalled generator ends itself and leaves nothing |
| `tasks_all` (MCTasks) | EpgTasks: two ids, three generators, one stop; HttpRouter: one router, three concurrent requests, one alias, two sockets; Dumps: two clients, one output; Probe: two requests, three programs, eight packets (85 k states) | both maps implement TaskMap, reaped generators come back, requests end but for one cycle of locks, routers serve what the table says, no dump leaks unless two shared an output, a probe is exclusive, skips nothing and ends |

Where a module makes several promises of one kind they are named separately and
checked together, as one conjunction with the module's type invariant: `StoreInv`,
`ViewersLeave`, `HlsInv` and `HlsLive`, `ReportsFollowSource`, `BuffersInv`,
`InserterInv`, `CbrInv`, `SyncInv`, `ServerInv`, `GenInv`,
`SectionsFollowSchedule`, `RouterInv`, `DumpInv`, `ProbeInv`, `InputInv`, and in the
MC modules `MapsKept` and `RequestsEnd`.  The type invariants of Supervisor and
WorkerStatus are proved (section 5), and so is the part of ProxyHandler's that its
theorems need.

Why the bounds are enough.  Supervisor: all races of the code are about one
stream, since the lock and the map entry are per stream; two requests and one
restart task are the smallest set in which a request can meet each of the others
between two of its statements, and three worker identities let an overwritten
worker and two successors coexist (the proofs cover any number).  ConfigStore:
three backups rotate as five do, and four loads push a generation out of the last
one; seven inodes are never exhausted.  WorkerStatus: `MaxQueue` only limits when
a call starts.  InputWorker: a timeout of two statistics periods is the smallest
that the timer can interrupt.  MuxHandler: the limits are small enough for
overflow and for `buffer_adjust` to pop, the cycle of six is the smallest in
which a step over the threshold is still forward; one packet per chunk loses
nothing but longer buffers, since a decision between two packets that is not
taken changes nothing.  CbrPacer: a packet of one and a half ticks makes the
rounding of the clock visible, and the jumps go ahead and back by more than the
limits.  TsSync: packets of two bytes leave room for one payload byte that looks
like a start, eight bytes hold three packets at every alignment, and three false
bytes are what it takes to lose the sync in two chunks running, the case in which
the buffer grows.  `SyncMax` is seven packets, the least that the proof admits (the
code's is 10 MiB), so that write drops a buffer.  OutputServer: two
runs are one that is given up and the one it robs; a client task depends on its own
run only, so one client.
HlsClient: five segments move the window past the list of names.  EpgGenerator:
three versions wrap within a run, and five ticks see every event of a schedule
begin and end; `GenFails`, the passes in a row that are cut short, keeps the run
finite and stands for no limit of the code.  HttpRouter: a reader, a second reader and a writer are what the
fair lock can order in a cycle; two tasks of a router let an old one serve while
a new one binds.  Viewers: a response that has looked a channel up keeps it open
for another viewer, so two; a ring of two can hold a frame behind the one being
checked.  Probe: eight packets are enough for three PMTs, two streams and
packets between them.  PsiInserter: the periods are longer than two flushes and
shorter than half the cycle, as 100 ms and 1 s are against a datagram and 13
hours, and the jumps put the timers of all tables ahead of the PCR.

In `stores_all` the slice with two saves is bounded to one load and one waiting
write; `overlapped` remembers that two saves were under way at once, and the
properties of the files are about histories without that.

Deadlock is checked in the supervisor, status, mux and pacing runs, and not where
something may rightly stop: a configuration that is saved, a program that is down
with a file that does not parse, an input, HLS client, output or generator that
was cancelled, requests that have formed the cycle of locks.

### Fairness

* Supervisor: every spawned task is polled again (`WF` on `Step`), sleeps and the
  grace period of `wait_and_abort` elapse, the monitor loops.  No request, load
  or end of a task is assumed.
* ConfigStore: accepted requests, the clock, the monitor and tokio's blocking
  pool go on.  No load, request or crash is assumed.
* InputWorker: a ready await is polled, a second passes, calls return, the status
  loop ticks, the sender empties the channel.  The source owes nothing;
  `OutageShows`, `RecoveryShows` and `SilenceShows` speak of sources that stay as
  they are from some point on.
* MuxHandler: chunks keep coming and `process` ends (`WF`); `Recovers` speaks of
  sources that are good from some point on, and strong fairness on each table and
  on the video says that such a source sends all of them again and again, not
  only one PID.
* CbrPacer: the output keeps flushing, as its interval timer does; nothing is
  assumed of the source.
* HlsClient: both tasks and the input are polled; every fetch has a timeout, so
  it ends, well or not.
* OutputServer: tasks are polled and the blocking pool works.  Nobody is promised to
  start or stop a run, and no client to come, to read or to leave.
* EpgGenerator: time passes and tasks are polled.  Strong fairness on
  `SendCancelled`: the select of the send loop is unbiased, so a token that stays
  cancelled is taken in the end although the other branch is ready as well.
* EpgTasks, HttpRouter, Dumps: spawned tasks run, `wait_and_abort` bounds a wait;
  nothing is assumed of the admin, nor of the viewers a graceful shutdown waits
  for.
* Viewers: the body of a response is polled, that is, its client reads.  A client
  that does not read stays connected whatever happens to its key.
* Probe: the request goes on and its timer runs; the stream owes nothing.

## 4. Where the code and what it says differ

Three runs end in a counterexample that is a behaviour of the code.

* `supervisor_restart`: `monitor` removes a finished worker from the map (470)
  and then spawns `restart_worker`, which begins by removing it again and fails
  when there is none (437-441).  The stream stays stopped.
* `config_lost`: `save` copies the text, writes it and clears `dirty` (287-295).
  A load in between has its flag cleared by the older save.
* `input_silent`: the five-second `timeout` around the read is created anew in
  every turn of a select whose last branch is the one-second statistics timer
  (`input_unix.rs` 66, 104), so it runs out only if the task is not polled for
  seconds.  CHANGELOG.md 21 says the timeout marks the stream dirty.

The models contain further behaviour that a reader of the docs would not expect;
no run is spent on it.

* A start that looked at the map before another start inserted its worker takes
  the lock afterwards and inserts over it (`supervisor.rs` 321, 342); the first
  worker's tasks run on out of reach.  `OrphanOnlyByOverwrite` shows that this is
  the only way to lose a worker.
* A stop that finds the lock taken returns Ok (374), and the client reads "Stream
  stopped successfully" (1418) although the stream runs on.
* `write_config` returns before tokio has written the bytes (`config.rs` 192): a
  program killed right after leaves an empty `config.json`, which does not parse
  at the next start.  The previous configuration is in `json.1`
  (`LastSaveSurvives`).
* Two saves at once can truncate each other's file, so `LastSaveSurvives` is a
  property of one saver.
* Flag and command of a mark are two steps, so two tasks can queue their commands
  in the opposite order of their writes (`workers/mod.rs` 468, 491), and the
  admin server disagrees until the next change.
* In proxy mode each table is held back by its own flag only, so the PMT is still
  sent while the PAT differs (`mux.rs` 1013); and a table whose first section
  spans two packets adds 188 zero bytes (1015).
* In mux mode the first PAT and PMT become the reference (524); one put together
  from two sections makes every later table a change.
* proxy_packet has no limit on `in_buff` (987, 1036): a source that loses its sync
  in chunk after chunk lets it grow; mux mode drops it at `MAX_BUFFER_SIZE` (490).
* PSI: a discontinuity sets the PCR anew and leaves the timers alone.  After a jump
  back they lie ahead, and PAT, PMT and SDT are withheld until the PCR has caught
  up with them, for up to half a cycle, 13 hours (`mux.rs` 1070, 1091, 1113).
  `SpacingBounded` counts that wait (`owed`) and shows that only the flushes of
  the tables before come on top of it.
* CBR: a packet is let go up to the jitter ahead of the clock, which the configuration
  admits up to 1000 ms, but `process_packet` takes a lead over `MAX_DTS_PCR_DIFF_MS`
  (800) for out of range: packets between the two leave and set the clock forward.
  A `pkt_size` below 188 makes datagrams without payload (414-420).  The mark of a
  discontinuity needs an adaptation field and its result is not looked at (1287).
  With adjust_buf a video that stops keeps the audio back until the buffers are
  cleared.
* HLS: the list of names seen has a limit, and in a longer playlist the evicted
  ones look new; a segment of duration 0 makes tokio's interval panic
  (`hls_client.rs` 104), which ends the pacing task; without a master playlist
  the playlist task returns while the pacing task keeps the sender open (94); the
  error limit is looked at only when cancelled (165).
* A server that accepts and never answers holds `input_http` in `send()` without a
  report (`input_http.rs` 56): there is a connect timeout only.
* Outputs: `remove_file` takes what is at the path (`output_unix.rs` 173).  A run that
  the monitor forgot, that was inserted over, or that was aborted while its removal
  was under way, can remove the socket of its successor, which listens on and cannot
  be reached.  A removal that fails ends the run with an error, and the file
  stays until the next start.  The task of a unix client that takes nothing does not see the token;
  the unix accept loop ends at its second error, and the mark it leaves is in the
  status of the whole stream, where any other task may clear it; the HTTP one
  retries without a delay.  A unix client that lags leaves a line in the log; an HTTP
  client loses frames silently, since the handler drops the notice
  (`output_http.rs` 178-181).
* Stream status: `cmd_unmark_dirty`, called by the status loop, clears the report of an outage that
  lasts longer than its 30 seconds when nothing repeats it, and a mark between the
  look at the age and the clear is lost (`workers/mod.rs` 477); the loops of the
  inputs repeat their reports.
* EPG: no limit is set on the queue while sends fail, so it grows with every pass
  that is cut short (`epg.rs` 320-330); the version starts anew when a generator is restarted; after the last event
  the first is shown again; a pass whose sends fail leaves its packets in the
  queue; the first load does not count as a download for the watchdog.
* HTTP router: the second guard of add_alias can form a cycle with a waiting
  start or stop (`supervisor.rs` 871, 884), after which no request for a router
  ends; a start while the old router is still serving fails to bind and stays
  registered; a stop returns at the first router that is not running and leaves the
  others running (863), which TaskMap allows and the run, with one router, does not
  meet; overlapping requests for one alias can reach the table and the
  router in opposite orders, and so can addkey and rmkey, which answer before
  their task runs; a viewer without a key stays connected while its feed is
  silent.
* Dumps: the second dump of an output overwrites the first in the map, whose task
  then runs until its client's guard stops the wrong one (`shared` excuses such an
  output from `NoDumpLeaks`); a request dropped
  between the start of its task and the response leaves the task.
* Probe: a PMT is given to the first program with its PID, so of two programs that
  share one the second never gets its table and no stream is described; a channel
  that closes makes the status false although the programs are filled in.
* `api_client.rs` says of a response "Returns `ApiResponse` even if the HTTP status
  is non-2xx"; the code returns an error then.

## 5. The proofs

All are for arbitrary constants under the assumptions named in the modules; none
takes anything else on trust.

* **SupervisorProofs.**  `IInv` is `TypeOK`, `LockDiscipline`, `MapIsLive`,
  `StoppedStreamAbsent` and `Ownership` (no worker is in the map twice or held
  by two processes, and a worker on its way into the map is not cancelled).  `MapIsLive` alone is not
  inductive: cancelling the tasks of a held worker must not touch a worker in the
  map, which is ownership, and a fresh worker must not be one that somebody
  holds, which is `Free`.  `StoppedStreamAbsent` needs the lock: an insert by
  another process would need the same lock.  The two action properties follow
  from `IInv` step by step.
* **WorkerStatusProofs.**  `ArmedMeansDirty` speaks of the moments between calls;
  `ArmedIsOwned` strengthens it to all moments: an armed timer means a dirty
  stream or a task standing at a point from which it will set the flag or clear
  the time.
* **InputWorkerProofs.**  `Covered` says where the shared flag may be up while the
  local one is down: only while the input is inside a call that clears it.
  `InputImplementsStatus` shows that every step of an input or of the status loop
  is a step of WorkerStatus or changes nothing of it, so that its theorems hold
  here too.  `SegmentsOnceInOrder` is about HlsClient.  That segments are queued in
  order is not inductive: a name that was evicted looks new again.
  `WindowKnown` says that no name from the beginning of the last playlist to the
  newest name has been evicted, and that what is left of the list is the end of
  that playlist.  It holds because the names in the list are steep (`KnownSteep`:
  from one to the next older they go back by at least one), so that fewer than
  `HlsCapacity` of them can lie in a window of `HlsWindow`.  It needs a playlist that
  is no longer than the list, as `HlsAssumption` says.
* **OutputsProofs.**  ProxyHandler: `Tracked` ties the code's flags to the history: a
  table is clean exactly when its last section is its first.  `FrameBuffBounded`
  needs that a datagram holds at least one packet.  OutputServer: `OnlyRunsGivenUpRob` holds because a
  run removes a file only while the worker waits for it, or has given it up.
  `RunsInOrder` says so: a run that has begun and not ended is the worker's or was
  forgotten, and where its accept task is follows from its main task.  A run binds
  only where there is no file, so from then on the file is its own until somebody
  removes it.
  EpgGenerator: `Queue` bounds the packets by the place in the pass and the passes cut
  short before it, for any number of them, `Watched` the
  ages by what the watchdog has seen, `SectionOfCurrent` and `PresentWas` tie the
  last section to the schedule and to the time it was made at; the present event
  moves on because schedules are sorted, which follows from the ranks being a
  permutation that respects the start times.
* **MuxHandlerProofs.**  `ReadyNotPaused` needs `ReadyHasTables` (a ready handler
  has both tables and therefore follows neither), and `PausedIsMarked` needs
  `ReadyNotPaused`, because becoming ready takes the mark back.  `EveryJumpIsMarked`
  needs `Chained`: `last_dts`, which decides about the mark, is the DTS of the
  buffer's last packet, whatever was dropped, cleared or flushed.
* **PacingProofs.**  Lemmas on the sums, differences and order of both clocks over
  the wrap come first.  `TablesKeepComing` is proved for `Brisk` outputs: a datagram
  lasts at most half the period of PAT and PMT, which with seven packets to a
  datagram begins at 211 kbit/s.  Below that the claim is false: PAT and PMT are due
  at every flush and leave none to the SDT.  `Timed` ties the PCR to the timers and
  to the history: the PCR is `since - owed` ticks behind the limit of a timer, after
  a jump as well, unless the jump has left the table overdue.  `Waited` follows, for
  each table, how long it has been due and which of the tables before it went first
  in that time.
  `PacketsLeaveInRange`: whatever lets a packet go (jitter, the upper limit, a
  drained video) puts it at most the highest lead ahead of the clock (`WithinLead`,
  over the wraps of both clocks), which is the jitter where that is above
  `MAX_DTS_PCR_DIFF_MS` (`CbrHighest`); `CbrBase` adds that the clock is set while the
  output runs.  `PcrIsWireTime` is arithmetic on the count and its denominator.
* **PacingProofs**, TsSync: `PacketsAreFound` proves `SyncInv` for every length of a
  packet and of the chunks, every limit of the buffer from seven packets on and every
  byte that is lost or looks like a sync byte.  What the loops of the code do is stated
  first: where the search ends (`SearchedAt`), where the loop over the packets ends and
  with which bytes (`HandledTo`), what the descrambler leaves (`DescrambledTo`).
  `BufferBounded`, `SearchIsFirst` and `Aligned` follow from that step by step;
  `PacketsFlow` is not inductive, and `SyncIInv` adds three facts.  `Coherent`: behind a
  gap the starts are a packet apart and in phase with the source, also in what is left
  of the buffer (`RestIsSource`).  `CleanEnd`: the last `waiting` bytes of the buffer lie
  behind the gap and none of them is a false sync byte, so a byte at which a packet
  fails, or where a false start was found, is older.  `FlowAt` is the bound for each
  state of the handler: in sync less than a packet is waited for; not in sync either
  the search stands at an old place of the buffer, or at the source's own start
  (`LandsOnStart`), which is then kept until three packets are there; and after a lost
  sync `Rounds` counts: every chunk that loses it again has used three packets that
  were in the buffer before.  The proof found the bound stated before to be false.  It
  was four packets and a chunk, and held on the instance of the run; with chunks of
  one byte and packets of four TLC shows 17 bytes of waiting, as old false bytes in the
  buffer let the handler fall out of sync chunk after chunk.  The bound
  depends on `held` since.
* **StoresProofs.**  `StoreIInv`: files are not shared between names (`OneName`), and
  until two saves overlap only one save is under way and its inode is config.json
  (`OneSave`), the name it moves a file to is free (`Rotation`), and config.json is
  the last configuration or not written yet (`LastIsNewest`).  The proof attempt
  found an overlap the model did not count: a `/save` may begin while the bytes
  of the last one are still in tokio's hands, and rotate them away.
  `RotationKeepsNewer` follows from the same invariant.  `RevokedGetsOneFrame` counts
  the frames after the removal by the control point of the viewer.
* **TasksProofs.**  `DumpOwned` adds to `NoDumpLeaks` that the task is the one in the
  map, since a stop acts on what is there.  `EpgImplementsTaskMap` and
  `RoutersImplementTaskMap` map every step to a step of TaskMap or a stutter; they
  need that a stop holds a task nobody else has (`EpgOwned`, `RequestsInv`).
  `ProbeSkipsNothing` needs `Consistent`: what was described so far belongs to PMTs
  that came.  `RoutersFollowTable` has the hypothesis `OneAliasClient`, that the
  requests for aliases come from one client: with two the property is false
  (section 4).  `AliasServed` says of every router that what it will read once it
  has loaded and emptied its channel (`Upcoming`) is what the table says, unless a
  request that has written the table is on its way to it (`Pending`).

Loops over data are written without recursion, so that the proofs can expand them:
what is left of a buffer after a number of drops is an end of it, and an end keeps
the order.  The least element of a set of numbers comes from the well-foundedness of
the naturals, a theorem of the library.

Only model-checked: liveness, out of the prover's reach (the refinement of TaskMap
with its fairness included: the theorems are about `SafeSpec`).  Every invariant and
every action property that a passing run checks is proved (`InserterInv` and
`RouterInv` under the two hypotheses above).

## 6. Not modelled

Codec header parsers (`pes/`), table builders (`psi/sdt.rs`, `eit.rs`, `tdt.rs`,
`tot.rs`) and packet headers are byte layout without state, and byte-level tests
suit them.  BISS: the test of a packet's header and the cipher, a C library.
RTP headers and their counters.  Statistics (`status.rs`) are written and
displayed, never read back.  Request signing, argument parsing and process
set-up.  Errors of the embedded database.

## 7. Plan

Done: every component that keeps state, in the order of importance; proofs of every
safety property that the runs check, and of the safety part of both refinements of
TaskMap.

Left: liveness stays with TLC; the elementary stream parsers and the table builders
(section 6) would be worth reference definitions once they keep state.
