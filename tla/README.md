# A TLA+ model of UMA Serve

UMA Serve (`umad`) is a daemon that serves one llama.cpp model to many local
clients.  Clients send framed JSON requests over a Unix domain socket and read
back a stream of `token` events that ends in `eos` or `error`.  The daemon is
one thread: a kqueue event loop that accepts, reads, writes, sweeps idle
sessions, and then runs one scheduler tick, which merges the work of all
sessions into a single `llama_decode` call.

Being single threaded, the code has no data races.  What is hard about it is
the order of things: a client may half-close, vanish, stall or send its next
request between any two handlers; a descriptor number is reused as soon as it
is closed; every session walks a state machine whose transitions are spread
over three files; and KV cells, poller filters and pending output must agree
with that state on every path, the failing ones included.

Paths below are relative to `src/` of the repository.

## Inventory

| Part | State | Operations | Talks to |
|---|---|---|---|
| event loop, `umad/main.cpp` | `g_shutdown`, list of polled events | test flag, wait, accept, readable, writable, idle sweep, tick | all of the below |
| `SessionManager`, `ipc/session_manager.cpp` | `sessions_`, `next_seq_id_` | `add_client`, `close`, `find`, `on_readable` | Poller, llama memory, protocol |
| `Scheduler`, `sched/scheduler.cpp` | `target_batch_`, `rr_*_idx_`, EWMA | `tick`: plan, guard, enact, decode, sample | policy, BMT, sessions, llama |
| `BaselinePolicy`, `sched/policy.cpp` | none | `schedule_tick` | reads sessions |
| BMT estimator, `sched/bmt.cpp` | none | `estimate_units` | reads sessions |
| `Poller`, `ipc/poller_kqueue.cpp` | kernel filters | `add`, `remove`, `wait` | kernel |
| protocol, `ipc/protocol.cpp` | none (rx and tx are the session's) | `try_read_frame`, `write_frame`, `append_*_event` | |
| `UDSServer`, `ipc/uds_server.cpp` | listen socket, socket path | `open_listen`, destructor | file system, other daemons |
| `uma-cli`, `cli/main.cpp` | one connection | send a request, read events to the end | umad |
| `TopPSampler`, `sched/sampling.cpp` | none | `sample` | called by the tick |
| config, model, tokens, metrics, logging | counters | startup, rendering | |

What each part has to get right:

* **Policy, guard, batch filling**: a batch within the backend's capacity;
  decode first; counters, estimate and rows that agree after trimming; a sample
  taken at each session's own last row; no empty tick while work is ready.
* **Sessions**: a sequence of its own for each session, cleared however the
  session ends; positions without gap or overlap; no more than `max_sessions`.
* **Loop and poller**: polled events applied to the connection they belong to;
  pending output watched; input watched until the client stops sending.
* **Towards the client**: no request lost, one reply at a time and in order,
  the hang-up only after the terminal event; every request eventually answered;
  cells and slot of a vanished client freed; a signal ends the loop.
* **Between client and daemon**: frames survive any cut of the byte stream; what
  is printed is what was generated; the exit status tells what happened; neither
  end waits for the other; a restarted daemon is reachable whatever the one
  before left behind.
* **Sampler**: a token of the nucleus, in proportion to its probability; a
  maximum where sampling is off or impossible; no index outside the row.

## Modules

| Module | Models |
|---|---|
| `Policy` | The *outcome* of planning, declaratively: which sessions decode, the chunk of each prompt, the trimmed chunks, the next cursors and target. |
| `SchedulerTick` | The *loops* of planning, BMT guard and batch filling, one action per iteration, on an arbitrary session pool. |
| `Umad` | The daemon: loop, poller, session manager and scheduler tick (planned by `Policy`), with clients and failures. |
| `SequencePool` | Abstract: llama sequences, each with one user, cells only for it, never used again. |
| `ReplyService` | Abstract: the daemon as one client sees it, one request after the other. |
| `UmadProps` | What `Umad` promises, the two refinement mappings, and what documents and comments say. |
| `Protocol` | Framing, escaping and field scanning (`protocol.cpp`, `extract_json_string`, `json_get_string`) as operators on streams. |
| `UdsServer` | Life of the daemons that share one socket path: startup, its failures, exit, crash. |
| `Cli` | `uma-cli`, one system call per step. |
| `Deployment` | `UdsServer`, `Cli` and the daemon's end of the connection, composed. |
| `Sampling`, `SamplingProps` | `TopPSampler::sample`, loop by loop, and what it must return. |
| `MCSchedulerTick`, `MCUmad`, `MCDeployment`, `MCSampling` | Values of the constants for TLC. |
| `SchedulerTickProofs` | Theorems about `SchedulerTick`. |
| `UmadLemmas`, `UmadSteps`, `UmadProofs` | Theorems about `Umad`: types and outcomes of the helpers; one lemma per kind of step; the scheduler tick and the theorems. |
| `UmadPoolProofs` | `Umad` implements `SequencePool`. |
| `DeploymentProofs` | Framing, ownership of the path and integrity of the request. |
| `SamplingProofs` | Theorems about `Sampling`. |

Four abstract specifications carry the layers:

* `Policy` is the abstract specification of a tick and `SchedulerTick` the
  detailed one.  The invariant `LoopsImplementPolicy` says that the loops always
  end in the plan of `Policy`; this is why `Umad`, which uses `Policy` to plan a
  tick in one step, is entitled to do so.
* `SequencePool` is implemented by `Umad` for any client and any failure
  (`SequencesPooled`, checked and proved).  The mapping sends a sequence to the
  live sessions that hold it and the cells in the KV cache.
* `ReplyService` is implemented by `Umad` for each client that awaits its replies
  (`ServesReplies`).  The mapping computes a request's stage from where its frame,
  its session and its terminal event are; a stage `"lost"` that the abstract
  specification does not have stands for all other states.  `Deployment` uses the
  promise of `ReplyService` for what the daemon does between request and reply.
* `LifeSpec` of `UdsServer` is implemented by `Deployment` (proved): a client
  never changes who owns the path.

### `SchedulerTick` and the code

`view` is the pool as `schedule_tick` sees it.  `DecodeIter`/`DecodeExit` are
Phase A (`policy.cpp:31-44`), `SplitIter`/`SplitExit` the TTFT split (48-62),
`PrefillIter`/`PrefillExit` the two calls of `schedule_pool` (64-89),
`EstimateIter`/`EstimateExit` the call of `estimate_units`,
`TrimToken`/`TrimNext`/`TrimExit` the nested guard loops
(`scheduler.cpp:70-84`) and `EnactItem`/`EnactExit` the batch arrays
(102-148).  `cum` is a history variable used by the proofs.

### `Umad` and the code

| Action | Code |
|---|---|
| `Check` | loop condition, `main.cpp:143` |
| `Wait`, `WaitTimeout`, `WaitFails` | `main.cpp:145-167` and `Poller::wait`; readiness is level triggered and coalesced by descriptor |
| `Accept`, `AcceptFails` | `main.cpp:170-191`, with `add_client` |
| `ReadEvent` | `main.cpp:192-249` with all of `on_readable`: drain, one frame, its outcome, immediate write, finalisation |
| `WriteEvent` | `main.cpp:250-292` |
| `IdleSweep` | `main.cpp:296-307` |
| `Tick` | `Scheduler::tick` and the arming at `main.cpp:312-320` |
| `Signal` | `signal_handler`, with EINTR if the thread is in `kevent` |
| `Connect`, `Send`, `Receive`, `HalfClose`, `Disconnect` | clients (external) |
| `GrowIdle` | passage of `idle_timeout_sec` |

Each handler runs to completion on the loop thread and is one action.  A
polled event with both flags is handled as readable only, as in the code.

Abstractions:

* A frame is its kind (valid prompt, metrics, bad frame, bad request, prompt too
  long, no tokens), its request id and its number of tokens; an event is its kind
  and id.  Reads and writes move whole frames; rx and tx are FIFO byte queues, so
  where bytes are cut only delays a frame or event.
* The KV cache is the number of cells per sequence.  A failed decode may or may
  not leave cells behind.
* Time is not modelled: any branch of the adaptive tuning may be taken, a session
  may grow idle at any moment, and a wait may expire when nothing is ready.
* The iteration order of the session map is a variable that an insertion may
  change; accept returns any free descriptor.

What the environment may do is the constant `Env`, so that a run can state
which of pipelining, half-close, disconnect, read/accept/decode/kevent failure,
null logits, empty pieces, idleness and signals it is about.

### `Deployment` and the code

| Action | Code |
|---|---|
| `Start`, `StartFails` | `umad/main.cpp:60-115`, up to the `UDSServer` |
| `RemoveStale`, `Bind`, `Listen`, `OpenFails` | `open_socket_`, one step per call on the path, since daemons interleave |
| `Stop`, `RemovePath` | end of `main` and `~UDSServer` |
| `Crash` | the process is killed: the path stays |
| `ParseArgs`, `ConnectUds`, `SendSome`, `SendFails` | `cli/main.cpp:115-169` |
| `ReadHeader`, `HeaderEnds`, `ReadPayload`, `PayloadEnds`, `Handle` | the read loop, 172-229 |
| `Interrupted` | EINTR, and the value it leaves in `errno` |
| `Accept`, `OnReadable`, `Generate`, `OnWritable`, `IdleClose` | the daemon's handlers for this connection |

Here a stream is cut: a unit is one byte of a frame header or one string of a
payload, and every read and write moves any number of units the buffers allow.  A
payload is the sequence of its quoted strings, which is what the scanners of both
sides tell apart.  A string is its text with the kind of escapes `json_escape` put
in it: texts in `Quoted` get escapes of two characters, which both scanners undo;
texts in `Control` also get `\u00XX`, of which `json_get_string` keeps `u00XX`
(`Bare`) and `extract_json_string` makes `?` (`Masked`).  Process death is modelled
with what it does to the peer: end of file, or a reset if input was left unread.

`Generate` is what a tick may do to this session: a token, an empty piece, `eos`,
a failed decode (which sets `read_closed` and may leave its error unarmed), or a
null logits row, after which the session is never scheduled again (`"stalled"`).
The last two leave a session that only the idle sweep ends.

### `Sampling` and the code

`Start` (`sampling.cpp:18-38`) chooses the greedy loop or any result of
`partial_sort`; `GreedyIter`, `Softmax`, `TopPIter`, `Roll` and
`DrawIter` are the loops in order.  Floats are not modelled: a logit is one of
finitely many levels or an infinity, and probabilities are integer weights given
by a decreasing `curve` that may underflow to 0.  Where rounding decides in the
code (`c >= top_p` at equality, `r` above the accumulated sum) both outcomes are
allowed.  The cut is made for `top_p < 0.9999` (line 61), which is the constant
`CutBelow`: from there up to 1 all tokens are kept.

## Runs

| Run | Question | Result |
|---|---|---|
| `tick` | Do the loops end in the declarative plan, in a well-formed batch, and do they end? | holds |
| `any_client` | With an arbitrary client and every failure: are cells owned, output watched, and sequences used as `SequencePool` says? | holds |
| `conforming` | With clients that await each reply, over reused descriptors: does each see a `ReplyService`; are requests, positions and polled events kept apart? | holds |
| `live` | For two clients under a BMT budget too small to prefill both: is every request answered, every vanished client's sequence cleared, and are the sequences distinct? | holds |
| `reclaim` | Does a signal, at any point, end the loop; is the slot of every client that stopped or left reclaimed, whatever failed? | holds |
| `deploy` | Client and daemons on one path, streams cut anywhere, crashes and restarts: intact requests and output, truthful exit status, no standoff? | holds |
| `sampling` | Is the token drawn from the nucleus, by weight, and a maximum where it must be? | holds |
| `doc_prefill` | "`DECODE`: The session has finished prefill" (`docs/SCHEDULER.md:10`) | violated |
| `doc_max_tokens` | "Default maximum number of tokens to generate for a request." (`docs/CONFIG.md:28`) | violated |
| `doc_errors` | "On error: enqueue error event, flush, then close." (`docs/PROTOCOL.md:89`) | violated |
| `doc_busy` | "rejects a second request while busy" (`docs/PROTOCOL.md:77`) | violated |
| `doc_cli` | exit code 0: "an `eos` event was received without an error" (`src/cli/README.md:47`) | violated |

The violations are disagreements between the code and a sentence written about
it:

1. Each chunk of a prompt is sampled and the first sample moves the session to
   DECODE, so only the first chunk of a long prompt is ever fed.
2. The token sampled at the end of prefill is sent and not counted, so a reply
   that the model does not end holds `max_tokens + 1` tokens.
3. The error event of a failed decode is not reported for arming: unless a write
   was already pending it stays in tx and the session stays open.
4. `on_readable` does not look at the session's state: a second request replaces
   the one in flight, at position 0 of a sequence that still holds cells.
5. `uma-cli` leaves its read loop on end of file, a cut header or a cut payload
   and returns 0.

Met on the way and not given a run:

* "For each one, it adds exactly one token" (`docs/SCHEDULER.md:20`, of all
  DECODE sessions on every tick) holds only while they fit the budget of the tick:
  `target_batch_` may be as low as 8, and with more sessions decoding the rotating
  cursor leaves some of them for the next tick.  `DecodeFirst` says what the code
  does guarantee: none is left out in favour of a prompt.
* A control character in a token is printed by `uma-cli` as `u00XX`, and one in a
  prompt or id reaches the model, or comes back, as `?`; `PrintedFaithfully` names
  this exception.
* `top_p` between 0.9999 and 1 cuts nothing; `DrawnInNucleus` names this exception.
* A read error removes the Read filter and leaves the session open
  (`session_manager.cpp:79-81`); `WatchedForInput` is about clients without one.
* Nothing relates `max_sessions` (16) to `n_seq_max` (4).
* After an interrupted read, end of file inside a payload makes `uma-cli` spin
  (`cli/main.cpp:189` tests a stale `errno`); `NoStandoff` names this exception.
* A request whose id equals a field name misleads the scanners: with `--id text`
  the client prints `token` for every token; `PrintedFaithfully` is about other ids.
* A daemon started on the path of a running one takes the path over, and the end
  of either then removes it; `AloneServes` is about daemons that do not overlap.
* `docs/PROTOCOL.md:40` gives 0.0 as the default temperature, `ipc/session.h:56`
  has 0.8.

Properties that a pipelining client could break only because of the fourth
violation (`PositionsContinuous`, `ReplyWellFormed`, `RequestAccountedFor`,
`HangUpAfterReply`, `ServesReplies`) are stated for clients that follow the
protocol's "one request at a time"; `TxArmed` names the third as its one
exception, and `RequestAccountedFor` counts its unsent error event as an answer on
its way.

### Bounds

* `tick`: three sessions, each absent, decoding or prefilling with several
  lengths and positions; capacity 4, burst 2, targets on both sides of the
  capacity, budgets 0 (off), 4 and 9, all cursors.  Prompts longer than burst,
  budget and capacity all occur, and the guard cuts within a chunk, a whole chunk
  and several chunks.
* Daemon runs: one or two descriptors (enough for a slot that is reused while the
  other is in use, and for two sessions in a batch), capacity 2 and burst 2, a
  send buffer of one event (so writes are partial), one to three requests per
  connection, up to three connections, `max_tokens` 0 to 2.  `MaxReqs` and
  `MaxConns` bound only the clients.  `any_client` and `conforming` have one
  session at a time; that two never share a sequence is checked in `live` and
  proved for any number.  `conforming` is without the idle sweep, which `any_client`
  and the proofs have.  In `live` each of two clients sends one prompt or one bad
  request, so it shows that the guard's trimming delays a prompt without stopping
  it, and not for how long a stream of other requests can hold one off.
* `deploy`: two daemons (enough for a restart after a crash and for an overlap),
  one client, `MaxFrame` 5 so that the request with options is over the limit and
  the plain one is not, a buffer of 3 units towards the daemon (less than a
  header, so every frame is cut) and of 10 back (one error event, so token events
  are cut), three pieces of which one is empty and one has a control character,
  which the id has too, and a prompt with escapes of two characters.
* `sampling`: rows of 0 to 3 logits over three finite levels and both infinities,
  a flat curve and one that underflows, `top_p` below 0, 0, inside, in the
  interval that is not cut, 1 and above,
  `top_k` negative, off, 1, 2 and the whole row.
* Descriptors and daemons are symmetric; symmetry is used in safety runs only
  (`ServesReplies` is a step property and mentions all descriptors alike).

### Fairness

`FairSpec` has weak fairness of `Loop`, that is, the thread keeps running
whenever `kevent` has something to return, and of `Receive`, that is, clients
read their socket.  The liveness runs do not let a client stop reading without
leaving, because the code (rightly) waits for such a client until the idle
sweep.  They also leave out failing decodes (violation 3), null logits and
pipelining, for which the code does not give a reply.  `TimedSpec` adds that a
blocked `kevent` returns when its timeout expires; `ShutdownStops` needs it for
a signal that arrives between the test of the flag and the call.
`SlotsReclaimed` further assumes that idleness is noticed, that is,
`idle_timeout_sec > 0`, since the code has nothing else for sessions whose filters
are gone; this assumption is part of the property.  The timeout of the wait is
`200*1000*1000` ms (`main.cpp:158`), some 55 hours, where the comment says
200 ms: "eventually" is a long time here.

`deploy` states no fairness.  Instead of a liveness property it checks
`NoStandoff`: until the client ends, some step that nobody can put off for ever
is enabled (a step of the client, of the loop it talks to, the exit of a daemon
on its way out, the idle sweep of a forgotten session).  Each of these happens
finitely often, so the client ends.

## Proofs

TLC checks small instances; the following are proved with TLAPS for every value
of the constants that satisfies the named assumptions (`PolicyAssumption`,
`ViewsAssumption`, `UmadAssumption`: capacities positive, the descriptor set
finite, `max_sessions` at most the number of descriptors, a prompt not empty;
`MaxFrameAssumption`, `CliAssumption`, `DeploymentAssumption`,
`NobodyAssumption`: the frame limit fits a header of 31 bits, buffers are not
empty; `TextAssumption`: a text has one kind of escapes, and what is read for a
control character differs from it; `SamplingAssumption`: curves positive at the maximum and decreasing).

* `SchedulerTickProofs`: `TypeCorrect`, `BatchAlwaysFits`, `SplitAlwaysAccounts`.
  The size of the batch is not inductive by itself: it depends on how many tokens
  the items still to be enacted carry.  The history variable `cum` holds the
  partial sums of the plan; the invariant `Inv` says that `cum` agrees with the
  items, that its last entry is `dcount + pcount`, that this plus the budget left
  never exceeds the initial budget, and that the rows built so far are the partial
  sum of the items enacted.  Trimming lowers a suffix of `cum` by one, which keeps
  all of this.
* `UmadProofs`: `TypeCorrect`, `SessionsAlwaysBounded`,
  `SequencesAlwaysDistinct`, `CellsAlwaysOwned`, `EventsAlwaysCurrent`,
  `TxAlwaysArmed`, from one inductive invariant `Inv` (in `UmadLemmas`): the six
  properties and three strengthenings.  `ReadyArmed` says a polled descriptor has
  the filter it was polled for (needed because a handler that leaves output
  relies on it); `SocketBounded` that the socket never holds more than its buffer
  (so a write's size is a natural number); `AcceptReady` that a polled listen
  socket has a connection.
  The argument: a handler stores the outcome for one descriptor, and `StoredStep`
  shows that `Inv` survives any store that satisfies `Stored` (either closed and
  cleared, or open with its sequence kept or fresh and its output armed);
  `ReadEventStep` and `WriteEventStep` show their handlers do.  The tick changes
  many sessions at once and is done apart (`BatchStep`, `TickStep`).
* `UmadPoolProofs`: `SequencesAlwaysPooled`, that `Umad` implements
  `SequencePool`.  Given `Inv`, a handler's store maps to `Assign` (fresh
  sequence), `Retire` (closed) or `Use`; the sweep to `Retire` of all it closes;
  a tick to `Use`; everything else to a stutter.
* `DeploymentProofs`: `FrameRoundTrip` and `FramePrefix` say that a whole frame is
  taken unchanged, leaving what follows, and that no proper prefix is taken for
  anything.  `AloneServesAlways` needs, beyond the property, that a daemon that met
  no other is the only active one (`AloneInv`), so nobody touches the path between
  its calls; it carries over to the deployment through `ImplementsLife`.
  `RequestIntactAlways` needs `TransferInv`: what the daemon buffered followed by
  what is in the socket is the part of the request written so far.  Only sending
  and receiving touch it; that all other steps do not is `NextQuiet`.
* `SamplingProofs`: `LoopsWithinRow` and `GreedyAlwaysMax`, from `SampleInv`: the
  best token so far is the first maximum of the prefix scanned, and the kept
  tokens start with a maximum of the row.

Only model-checked: `ServesReplies` and the other properties about replies,
requests and positions; the exactness of the estimate, `LoopsImplementPolicy`,
`SampledAtLastRow`, `DrawnInNucleus`, `DrawsByWeight` and
`ImpossibleOnlyByRounding` (they sum over sets of items or tokens, which calls
for induction over data); `PrintedFaithfully`, `ExitTruthful` (which need the
whole reply as history), `NoStandoff` (it uses ENABLED), and all liveness, which
is outside the prover's reach.

## Not modelled

* Metrics, other than the split of the decode time: counters and their JSON
  rendering.  No control depends on them.
* Configuration parsing: a pure function of arguments and environment; its values
  are constants, its failure is `StartFails`.
* Model loading, tokenisation and the llama.cpp backend, which is external: a
  prompt is its number of tokens, a piece is empty or not, a decode succeeds or
  fails.
* Characters: a text is a value of which only the kind of its escapes is known.
  The escapes that `extract_json_string` rejects are in `Umad` (`"badreq"`) and not
  in `Deployment`, whose client does not write them.  The numeric fields of a
  request (sampling preferences) choose only numbers.
* `UDSServer::serve`, which `umad` does not call, and `util/utf8.h`, likewise.
* Time: how long a wait takes, the EWMA of the tick duration.
* `kevent`'s limit of 64 events and failing `kevent` registrations.
* Logging.
