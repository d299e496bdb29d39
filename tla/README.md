# TSN fieldbus: a TLA+ verification project

This directory specifies the TSN fieldbus prototype of this repository (crates
`common`, `master`, `slave`, `demo`) in TLA+, checks the specifications with TLC
on small instances, and proves the most important properties with TLAPS for
every value of the constants. Every definition is translated from the source;
`PROJECT.json` maps each one to its lines.

## 1. The system

A **master** (the controller) commissions and drives **slaves** (sensors and
actuators) over Ethernet. The life of a slave has three phases.

1. *Discovery* (`DiscoverySync`). Master and slave exchange SDCP frames on raw
   sockets: `DiscoverReq/Res`, `GetIpReq/Res`, `SetIpReq/Res`. Each frame has a
   footer with a sequence number and an HMAC. A slave that was given an IP
   configuration enters `PreOp` and stops listening.
2. *Configuration* (`PreOp`). The slave serves a gRPC API; the master moves the
   slave through its states and configures streams.
3. *Exchange* (`SafeOp`, `Op`). Two threads on either side send and receive the
   frames of the streams once per cycle.

### Inventory

| Component | State | Operations | Used by | What is hard | What makes it correct |
|---|---|---|---|---|---|
| `DeviceStateManager` (`common/src/state_machine.rs`) | the device state, in a mutex | `get_state`, `set_target_state` | all threads of a device | callers act on a state that has changed since | only documented transitions |
| `DiscoveryAuthHandler` (`common/src/security/discovery_auth.rs`) | per MAC: next number to send, last number accepted | `add_new_device`, `create_auth_tag`, `validate_auth_tag`, `validate_discovery_response` | both ends of SDCP | volatile, saturating counters; two ends must agree | nothing is acted on twice; the window never runs ahead of the peer |
| `DiscoveryMaster` (`master/src/discovery.rs`) | transaction counter, cache of devices, contexts | `discover_devices`, `get_ip_config`, `set_ip_config`, `clear_discovered_devices` | the master application | loss, duplicates, late answers, timeouts, retries | what a call returns is true of the slave; every call returns |
| discovery listener (`slave/src/discovery.rs`) | contexts; device information; interface | `handle_packet` and three handlers | a thread of its own | partial failure; the answer leaves before the state changes | one configuration per discovery |
| slave runtime (`run_slave_thread`, `demo/src/main.rs`) | handles of the server and the threads | the arms of its loop | everything in the slave | one thread drives tasks, timers and joins | starts and stops what the state asks for |
| master runtime (`run_master_thread`, `main`, `demo/src/main.rs`) | its position in a sequence of calls | discovery, RPCs, control loop, shutdown | the slaves, its own L2 threads | response codes nobody reads; joins; one slave of two failing | both slaves enter `Op` together; the run ends |
| slave API (`slave/src/slave_api.rs`) | none of its own | `set_target_state`, `configure_streams`, reads, subscription, `get_token` | the master's client | awaits between two updates | the copy of the state is never ahead of the original |
| `DeviceStatusStore` (`slave/src/device_status.rs`) | status, log ring, broadcast | `update_*`, `get_status`, `get_log`, `subscribe` | API, L2 threads, main loop | a fair lock; bounded queues; pages of a log that moves | readers see the state of the manager; subscribers learn every update or a later one |
| `StreamStore` (`common/src/stream_store.rs`) | per stream: configuration, number | `reset`, `add_stream_configs`, `generate_stream_tag`, `validate_stream_tag` | API, L2 threads | reset during the exchange | data are applied in order |
| L2 handlers (`master/`, `slave/src/l2_handler.rs`) | last counters, snapshot of the streams | send loop, receive loop | runtimes | stale state, blocking reads, wrap of a counter | no data outside `Op`; gaps are reported |
| `TokenStore`, `SlaveApiClient` (`slave/src/token_store.rs`, `master/src/slave_api_client.rs`) | tokens and their expiry; a cached token | issue, validate; attach, refresh, invalidate | API, master | clones share the token; expiry between two steps; retries | a call succeeds after at most one refresh and is executed at most once |
| process images and L2 frames (`hardware_mock.rs` on both sides, `l2_types.rs`, `auth_footer.rs`) | the bits of an image | `read_outputs`, `write_inputs`, build and parse a frame | L2 threads | bit offsets; lengths; padding | a variable arrives unchanged and touches nothing else |
| crypto, demo set-up, logging, analysis | – | – | – | – | – |

Interactions: the discovery listener, the API handlers and the main loop share
the `DeviceStateManager`; the API handlers and the main loop copy its state to
the `DeviceStatusStore`, and the L2 threads of the slave read it only there; the
API handler and the L2 threads share the `StreamStore`; master and slave share
only the network. `PROJECT.json` lists the hazards of all this line by line.

## 2. Modules

| Module | Models | Theorems in |
|---|---|---|
| `DeviceState` | transition rules of `DeviceStateManager`, as operators | |
| `DiscoveryAuth` | the table of security contexts, as operators | |
| `Discovery` | master, listeners and network during discovery | `DiscoveryProofs` |
| `SlaveRuntime` | main loop, API handlers, status store and L2 threads of one slave | `SlaveRuntimeProofs` |
| `IpAssignment` | what discovery promises, without frames: the abstract specification | `DiscoveryProofs` |
| `DiscoveryRestart` | `Discovery` with a master that crashes and starts again | `DiscoveryRestartProofs` |
| `StreamStore` | the numbers of the streams, as operators | |
| `CycleCounter` | the arithmetic of the cycle counter, as operators | |
| `L2Stream` | both L2 handlers, their stream stores and the network | `L2StreamProofs` |
| `DataPath` | process images and frames, bit by bit | `DataPathProofs` |
| `ApiSession` | token store of a slave and the clones of a client | `ApiSessionProofs` |
| `StatusFeed` | status store, subscription and log | `StatusFeedProofs` |
| `DemoRun` | the master of the demo with two slaves, from discovery to exit | `DemoRunProofs` |
| `MCDiscovery`, `MCDiscoveryRestart`, `MCL2Stream`, `MCDataPath`, `MCApiSession` | constants and symmetry for TLC | |

**Discovery** composes `DeviceState`, `DiscoveryAuth`, one master and any number
of slaves. The network is the set of all frames ever sent: a receiver may read a
frame once, repeatedly, late or never, so loss, duplication, delay and
reordering need no actions of their own. The three calls of the master share the
action `Request` up to the receive loop; `LoopCheck` is the test of the timeout,
`ReadOther`, `ReadDiscoverRes` and `ReadResponse` are what can come out of the
blocking read. A handler of the slave is one action, with the failure of every
hardware access as an alternative; only the end of `handle_set_ip_request` is an
action of its own (`EnterPreOp`), because the response has left by then and the
master can act on it. `assigned` is a history variable. The HMAC is not computed:
all frames are made by holders of the secret. An interface without a MAC address
is not modelled. With `Flooding` unicast frames reach every station, as on a hub
or a learning switch; the sockets are promiscuous, so nothing below the code
filters them, and the listener does not compare the destination either: a slave
that a `SetIpReq` for another one reaches takes it. The run delivers by address,
because the instance with `Flooding` is too large for it; the proofs cover both.

**IpAssignment** has three actions: configurations are offered to slaves, a slave
takes one, once, the master confirms one that a slave has taken. `Discovery`
implements it under the mapping at its end: what was offered are the
configurations in the `SetIpReq` frames that can reach a slave, the configuration
of a slave is its device information, what is confirmed is `assigned`. Every
other step of discovery is a stutter.

**DiscoveryRestart** adds one action that puts the master back to its initial
state, in the middle of a call if need be. The slaves keep their windows, the
network its frames. `OkMeansApplied` does not survive this, because the new master
uses old transaction numbers and may take an old answer for its own;
`OkMeansConfigured` says what is left. A slave that restarts loses its
configuration with the rest, and the code promises nothing about it.

**SlaveRuntime** starts when the slave waits for discovery. Main loop and RPC
handlers are tasks of one `current_thread` runtime, so what happens between two
awaits is one action; the L2 threads interleave freely. The `RwLock` of the status
store is first in, first out: `update_state` either writes at once (`UpdateNow`)
or joins the queue `pending` (`UpdateLater`), which is possible while an L2 thread
lives or somebody waits already; `GrantLock` serves the queue and needs the
runtime. Readers are not kept in the queue: an L2 thread reads when its turn may
have come (`ReadTurn`), so it may see the status as it was before a writer that is
already waiting, and it is stuck when writers wait and the runtime is blocked. In
a join the thread of the runtime is blocked, and with it every task and timer
(`RuntimeRuns`). Configurations of the stream store are numbered; `snap` is the
one the L2 threads were started with. `lateWrites` and `lateSends` are histories.
tokio suspends a task that has used up its cooperative budget in the next
operation that could wait. An RPC handler begins with a fresh budget and comes to
its `write().await` long before the end of it; the arm of `Error` is a loop of
them without a sleep. There the task is suspended after it has read `Error` and
before it is in the queue of the lock: this is the place `budget`, from where the
write goes on in whatever state the device is in by then (`MainErrorResumes`).
Left out: the hardware task; the status updates of the L2 threads other than that
they hold the lock. The listener's `set_target_state(PreOp)` and its next check of
the state are one step, because the API server is not running before the main loop
has seen `PreOp`.

**L2Stream** takes the exchange of one slave with the master. The streams in
`Sensors` go from slave to master, the others the other way. `clock` is the cycle
counter of a stream at its last interval and advances by a cycle give or take a
member of `Jitter`, which is bounded by `MaxJitter`; tokio's timers have a
granularity of 1 ms, which is 32 ticks. An interval may make no frame, because the
stream is not due by the `Instant` of the last one, or its id is gone from the
store. Process data are the number of their frame, so that order can be stated.
The states in which the threads run are in `SlaveRuntime`; here the loops are
always willing, which allows more behaviours, and a change of state appears only
as what it does to `last_cycle_counter`.

**DataPath** follows a variable from the output image of one device through a
frame into the input image of another. The slave addresses bits, the master whole
bytes. `Layouts` are the positions at both ends that an application asks for, with
the variables the hardware of a slave has. `ConfigureStreams` is what a slave does
with its end: `ValidateStreams` wants a stream to have bits and to be one of the
variables of the layout, and checks nothing else of a position; the master checks
nothing at all. Only layouts that pass are run. A byte is a function
on its bits, a frame a sequence of bytes; the tag of what it covers is a value no
other bytes have. Nobody sees both ends of a stream, so the rest is left to the
application and the hardware, and the theorems have it as hypotheses:

- a variable has one length (`SameLength`);
- no two streams are given the same input, which `validate_streams` lets pass
  (`OneProducer`), and the input variables of a slave share no bit
  (`VariablesApart`);
- on the master a variable begins where a byte does (`MasterAtBytes`), because the
  master does not read the bit offset, and no two inputs share a byte
  (`MasterBytesApart`);
- an input fits into its image where the output does (`InputsFit`).

TLC evaluates them for the layouts of `MCDataPath`.

**ApiSession** has the steps of a call between its awaits: is there a token, fetch
one, cache it, read it again, send, look at the answer. The slave's side of a
request is one step. Clones share `cached` and nothing else. A connection may break
before or after the slave has acted, and the slave may restart with an empty
store. `issues`, `runs`, `since` and `disturbed` are histories. The seven RPCs of
the client are copies of the same code, so one kind of call stands for all.

**StatusFeed** numbers the writes of the status. Every `update_*` function is one
step under the write lock, and either publishes (log and broadcast) or is silent.
`down` says that the device has been in `Shutdown`: from then on the thread of the
runtime may block in its join, for ever by `runtime_shutdown`, and polls no task.
The task of a subscription has a step for each of its awaits; the broadcast
channel is `published` from the position of the receiver, cut to its capacity. A
client of the log asks for one page after the other. `client` and `pager` record
what the two readers have seen.

**DemoRun** composes the whole. `run_master_thread` and the joins of `main` are
the sequence `Script`; each call may fail, and `?` or `let _ =` decides what
follows. A response with an error code is a success to it: `configure_streams` may
have stored the streams or not (`Configure`). Each slave is `SlaveRuntime` reduced
to what the master can tell of it, with the blocked join of `runtime_shutdown` as a
possible outcome. Commands to the valve wait in the socket of its slave, which
reads them only in `Op`.

## 3. Runs

| Run | Result | Question |
|---|---|---|
| `discovery` | pass | two slaves, two configurations, three requests: `OkMeansApplied`, `AnsweredOnce`, `WindowBehindPeer`, `ConfiguredOnce`, `ImplementsAssignment` |
| `discovery_restart` | pass | one slave, three requests in each life of the master, numbers that end at 2, a link with traffic: `TypeOK`, `AnsweredOnce`, `OkMeansConfigured`, `CallReturns` |
| `discovery_lost_answer` | violated | `AnswersAccepted` |
| `runtime` | pass | `TypeOK`, `StatusNeverAhead`, `OneLateWrite`, `OneLateCycle`, `ExchangeStops`, `JoinReturns` |
| `runtime_shutdown` | violated | `ShutdownCompletes` |
| `l2_order` | pass | both directions, three intervals, one reconfiguration: `InOrder`, `WindowBehindProducer` |
| `l2_cycles` | pass | one stream, five intervals that are up to 1 ms early or late, counters that wrap, numbers that end at 3: `TypeOK`, `NoFalseAlarm`, `GapReported`, `InOrder` |
| `data_path` | pass | six pairs of layouts, and one that a slave refuses: `ValueIntact`, `Untouched`, `FramesAccepted` |
| `data_path_padded` | violated | `FramesAccepted` on a link that pads |
| `api_session` | pass | two clones, three tokens, a restart: `TypeOK`, `AtMostOnce`, `RefreshSuffices`, `AuthorisedOnly` |
| `status_feed` | pass | one subscriber, one reader of the log: `TypeOK`, `BoundedRegress`, `NoEntrySkipped`, `UpdateArrives`, `StreamEnds` |
| `demo` | pass | the whole demo: `ClosedUntilOp`, `OpInLockstep`, `ValveFollows`, `MasterEnds`, `DemoCompletes` |

A violated run states what a comment or a test of the code says; `PROJECT.json`
quotes it under `findings`. What they show, in short:

- A slave whose first `DiscoverRes` is lost is refused for good, since a first
  contact must have number 1 (`discovery_lost_answer`). `get_ip_config` creates a
  context and would repair it, which is why `AnswersAccepted` is about
  `discover_devices` alone.
- The shutdown of the demo slave joins the sender on the thread that drives the
  sender's timer (`runtime_shutdown`). `JoinReturns` shows that the join returns
  when the sender is gone, no writer waits for the status lock and frames arrive;
  a writer that waits blocks it in the same way, because only the runtime can
  serve it. `DemoCompletes` says what else can keep the demo from ending.
- The footer of a frame is taken from its end, so padding added by a link makes
  the receiver drop it (`data_path_padded`); the frames of the demo are short
  enough to be padded by real Ethernet.

Eleven more are stated as formulas in the modules and refuted by TLC when added to a
configuration; they are listed as findings without a run:

- `CallReturns` under `QuietSpec` (`Discovery`): a call tests its timeout only
  between frames and reads the socket blocking, so on a quiet link it does not
  return. With traffic it does (`discovery_restart`).
- `HardwareErrorMeansNotApplied` (`Discovery`): a slave that fails after it has
  changed its interface is reported as not configured.
- `ActuatorsOnlyInOp` (`SlaveRuntime`): the receiver acts on the state it read
  before it blocked; `OneLateWrite` shows that this is never two frames.
- `OperationalExchanges` (`SlaveRuntime`): after a reconfiguration nobody starts
  the L2 threads again, or they go on with old streams.
- `AppliedInTolerance` (`L2Stream`): frames out of tolerance are counted and applied.
- `ChangesPublished` (`StatusFeed`): a subscription ends before it has delivered
  the change to `Error` or `Shutdown`.
- `StatusMirrorsManager` (`SlaveRuntime`): a restart from `Error` that falls into
  the suspended write of the main loop leaves the status in `Error`.
- `InOrderThroughout` (`L2Stream`): after `configure_streams` the window of an input
  is 0 again, and the first frame it takes may be older than the data it replaces.
- `ValueIntact` for layouts without `MasterAtBytes` (`DataPath`): the master ignores
  the bit offset of a position.
- `OpHasStreams` (`DemoRun`): a slave whose `configure_streams` answered with an
  error code is brought to `Op` without streams.
- `MasterEndsQuietly` (`DemoRun`): when the link falls silent with the slaves, the
  receiver of the master never returns from its read, nor the join that waits for it.

One finding has no formula: the periodic log, written by a function nobody calls.

The passing runs show some things that are less obvious than their names.
`RefreshSuffices` has an exception for calls that another clone disturbs: between
`ensure_token` and the read of the token a clone may invalidate it, and that error
is returned without a retry. `BoundedRegress` lets a subscriber with a periodic
interval be told older statuses after a newer one, as many as the broadcast
channel holds. `ClosedUntilOp` holds although old commands are applied when the
valve slave enters `Op`: the master writes none but `closed` before.
`OpInLockstep` is about the states of the devices and holds because both are polled
before the next step; it does not say that a slave in `Op` has its streams.
`StatusNeverAhead` allows for a status that stays in `Error`: the L2 threads, which
read only the status, then stay stopped, and never run on in a state the manager
has left. `InOrder` is about the time from one configuration of the slave to the next,
and about streams whose numbering goes on: after a reconfiguration the slave numbers
its own streams from 1 and the master refuses them until they have passed the old
numbers. `DemoCompletes` has two exceptions, which are the ways in which the demo
really stays: a slave that hangs in its join, and a slave that a master that gave up
never told to shut down (`Stranded`).

Three smaller disagreements need no run. A slave does not compare the
destination of a frame, so a flooded `SetIpReq` configures every slave it reaches.
`Error` may be
entered from `Shutdown`, which the comment of `set_target_state` calls terminal.
`discover_devices` is documented to return `ErrStateConflict` when a transmission
fails and returns `ErrSocketChannel`.

### Bounds

- Three requests (`MaxRequests`) are a discovery, a `SetIpReq` and its retry, or
  two attempts and a query; two slaves and two configurations suffice for a
  frame of the wrong sender, receiver or content. Slaves and configurations are
  interchangeable, hence the symmetry; no liveness property is checked with it.
- One slave and one configuration suffice with restarts, where the two lives of
  the master are the peers to be confused; three requests of each life make its
  numbers saturate and meet those of the other.
- `SeqMax` is 10 where it must not matter, and 2 or 3 where saturation is the subject.
- `MaxPending = 2`, `MaxConfigs = 2`: the main loop and two clients can wait for
  the status lock at once, and one reconfiguration takes place. The histories
  saturate at 2, one more than the properties allow.
- The cycle time of the L2 runs is 200 ms (6400 ticks), as in the demo; five intervals then cover
  gaps of up to three cycles and stay below half the range of the counter. The
  counter starts at 0, where the distance to a wrap is longest, at 50000, where
  it wraps between intervals, and at 65534, its last value.
- Bytes of two bits and images of two bytes have fields that begin inside a byte,
  cross a boundary, share a byte and fill one; the layouts in `MCDataPath` are
  one of each kind for each direction, and one whose input is none of the variables
  of the slave, which `ConfigureStreams` keeps out. `MinLen` is longer than a frame of one byte.
- `TokenTtl = 2` and a clock up to 3 let a token expire during a call and a second
  one after it; three tokens are a stale one, a refresh and the refresh of the
  other clone.
- Capacities of 2, 1 and 2 with four updates overrun the broadcast channel, block
  the queue and turn the log over; pages of one entry let the log move between pages.
- Two commands in the socket of the valve (`BufferMax`) are an old and a new one.
- `SlaveRuntime` may stop (`done`, `failed`, or a blocked join), so its runs do
  not check for deadlock; `ExchangeStops` and `JoinReturns` say what must not stop.

### Fairness

`QuietSpec` has the clock run and the calling thread scheduled, nothing else.
`BusySpec` adds that the read of the socket returns from time to time: any frame
of any protocol will do, and the raw socket sees all of them. `LiveSpec` has every
thread scheduled, a lock that serves readers and writers in turn (tokio's is
fair), timers that fire while the runtime runs, and frames that keep arriving.
`RestartSpec` has the fairness of `BusySpec`; restarts are never forced.
`StatusFeed` has the task polled and the client reading until the device is shut
down, and assumes nothing after that; so `StreamEnds` is about `Error`. `select!`
may favour either branch for ever, so nothing more is assumed of the two, and a
stream that is dropped owes nothing. `DemoRun` has every thread scheduled, every
timeout expiring, and the frames of a sender that goes on arriving at their
receiver; the sensor may change or not, and the control loop ends only where a
property says so. That frames of other stations keep arriving when the senders of
the demo have stopped is no part of the specification: it is the formula
`Traffic`, a premise that `MasterEnds` and `DemoCompletes` state and that the code
does not see to. Nothing is assumed of the clients of the API, of the slaves that
should answer, or of the network.

## 4. Proofs

`DiscoveryProofs` proves, for all `Slaves`, `Configs`, `SeqMax`, with or without
`Flooding`, and for any number of requests below the wrap of the 16-bit
transaction counter (`DiscoveryAssumption`), that `Discovery` has `TypeOK`
(`TypeCorrect`), `OkMeansApplied` (`OkIsApplied`), `AnsweredOnce`
(`AtMostOneAnswer`), `ConfiguredOnce` (`NeverReconfigured`) and `WindowBehindPeer`
(`WindowsStayBehind`), and that it implements `IpAssignment` (`Implementation`).
The proofs share one analysis of the steps: a step makes a request, takes an
answer, answers a request, or sends nothing and moves no window (`Requested`,
`Taken`, `Answered`, `Local`), and `StepKinds` shows under `BaseInv` that there is
no other; each invariant is then shown for four kinds of steps and not for every
action. None of the properties is inductive. `SafetyInv` adds to `BaseInv` what
ties an answer to the configuration it is about: a transaction names one request
(`RequestsUnique`); a running call has sent the request with its configuration
(`CallSent`); a slave with a stored configuration is not listening and has it on
its interface (`ListenerInv`); a positive answer comes from a slave that stored
what the request of that transaction carried (`PositiveAnswerInv`); every answer
belongs to a request inside the replay window (`AnswerInv`). So when the master
reads a positive answer of its own transaction, the only request of that
transaction is its own, and the slave has its configuration and no longer listens.
`WindowInv` says that every frame is behind the counter of its sender and that the
edge of a window is the number of a frame. For `Implementation`, a slave that
takes a configuration has no other (`ListenerInv`) and got it in a request that
was offered, and what is confirmed is in the device information
(`OkMeansApplied`); all other steps are stutters.

`DiscoveryRestartProofs` proves `TypeOK`, `AnsweredOnce` and `OkMeansConfigured`
with a master that restarts any number of times. `RequestsUnique` does not survive
a restart, so the argument is another one: in every life of the master the number
of a request is its transaction number, up to saturation (`NumberInv`), so a slave
that has answered a transaction has a window at or beyond that number and refuses
it from any later master (`AnsweredInv`).

`L2StreamProofs` proves all the properties of `L2Stream` for any set of streams and
any number of frames and reconfigurations: `TypeOK`, `InOrder` (`AppliedInOrder`),
`WindowBehindProducer` (`WindowStaysBehind`), `NoFalseAlarm` (`NoFalseAlarms`) and
`GapReported` (`GapsReported`). Where producer and consumer count alike, the
numbers of the frames grow with their production and the next number is beyond all
frames and the window (`OrderInv`), and the image shows a frame inside the window
(`ImageInv`). For the counter, two frames of a stream that are `k` cycles apart
differ by `k` cycles, give or take `MaxJitter` ticks for each, around a counter that
wraps at 0xFFFF and is compared modulo 0x10000 (`CounterInv`). `NoFalseAlarm` has the
hypothesis that a cycle is off by no more than a cycle time: with timers of 1 ms it
covers cycles of 1 ms and more, and not the 250 us (8 ticks) that the API accepts,
where the jitter alone may exceed the tolerance of a cycle and a half. `GapReported`
has the hypothesis that the jitter of all the cycles of a gap is less than half a
cycle, so that the division rounds to the right number.

`DataPathProofs` proves `ValueIntact` (`ValuesIntact`, from `SameLength`,
`OneProducer`, `VariablesApart`, `MasterAtBytes` and `MasterBytesApart`),
`Untouched` (`NeighboursUntouched`, without a hypothesis) and `FramesAccepted`
(`Accepted`, from `SameLength`, `InputsFit` and `NoPadding`), for every width of a
byte, size of image and footer and every set of layouts. The lemmas say that the
bits of a variable lie in its bytes and its image (`ByteLenCovers`,
`FieldInImage`), that `read_outputs` puts them first and `write_inputs` takes them
from there and touches nothing else (`ReadOutputsBits`, `WriteInputsBits`,
`WriteInputsFrame`), that a built frame is authentic and gives back its payload
(`BuiltFrame`), and that a padded one never is (`PaddedFrame`), so `ValuesIntact`
also holds on a link that pads. The invariant says that what is on the wire was
built from some output image (`PathInv`) and that an applied value is in the input
image (`AppliedInv`); other streams touch other bits (`Kept`).

`DemoRunProofs` proves `ClosedUntilOp` (`ValveClosedUntilOp`) and `OpInLockstep`
(`OpTogether`) for every size of the socket buffer. The invariant contains
`TypeOK` and gives the state of the master and of each slave for every position of
the script (`MasterInv`, `SlaveInv`), where the states have been polled; and as
long as the master is not in `Op`, no command to open is in the image, the socket
or the valve (`PlantInv`).

`ApiSessionProofs` proves all four properties of `ApiSession` for any number of
clones, tokens, restarts and ticks: `TypeOK` (`SessionTypeCorrect`), `AtMostOnce`
(`ExecutedAtMostOnce`), `AuthorisedOnly` (`OnlyAuthorised`) and `RefreshSuffices`
(`OneRefresh`). The invariant says that an executed request waits only for its
answer (`ExecutedInv`); that the store holds tokens of this life with the expiry
they were issued with (`StoreInv`); and what an undisturbed call can rely on at
each of its places (`RefreshInv`): the token it has fetched stays in the store and
in the cache until it is used, so the second attempt is not refused. One lemma per
step shows that the invariant is kept and that the step is as the action
properties say; the other clones are handled once, in `KeptInv`.

`SlaveRuntimeProofs` proves `TypeOK`, `StatusNeverAhead` (`StatusOnTheSafeSide`),
`OneLateWrite` and `OneLateCycle` for every `MaxPending` and `MaxConfigs`. The
invariant `IInv` says that the state announced last, by the last waiter or, if
none waits, by the status itself, is the state of the manager or `Error`
(`Mirror`); that the main loop has a place of its own in the queue (`MainPlace`);
that before the API server runs only the listener has changed the state
(`BeforeApi`, `ListenerFirst`); and that a receiver about to take a frame has
applied none since `Op` was left, and the like for the sender (`LateInv`).

`StatusFeedProofs` proves `TypeOK` (`FeedTypeCorrect`) and `NoEntrySkipped`
(`PagesJoin`) for every capacity, page limit and number of updates. The invariant
says that the version counts the published and the silent updates (`VersionInv`);
that the log is the youngest updates, newest first, up to its capacity, so that
entry `i` is update `Len(published) + 1 - i` (`LogInv`); and that what the reader
has lies in front of its offset or is older (`PagerInv`). An update moves every
entry back by one, which can only repeat entries at the next page. The steps of
the subscription leave these parts alone (`StoreKept`). `BoundedRegress`
(`RegressBounded`) needs `RegressInv`: versions are published in their order
(`PublishedInv`); what waits for the client, in the queue and in the hands of the
task, lies behind a younger status by no more than the channel holds and in its own
order (`OrderInv`); and for what the client has read behind its newest status there
is an update up to which the channel held at least that many (`OlderInv`).

Only model-checked: liveness (`CallReturns`, `ExchangeStops`, `JoinReturns`,
`UpdateArrives`, `StreamEnds`, `ValveFollows`, `MasterEnds`, `DemoCompletes`), which
needs fairness and is beyond this prover. Every invariant and every step property
of a passing run is proved. The three violated runs and the formulas TLC
refutes are not theorems, of course; `NoPadding` of `Accepted` is what
`data_path_padded` takes away.

## 5. What is not modelled

- HMAC-SHA256 and the loading of the secret: no state; frames with a wrong tag
  would only be dropped.
- The byte layout of the SDCP header and its TLVs; their fields are in `Discovery`.
  The footer and the lengths they share with L2 frames are in `DataPath`.
- `spawn_background_tasks` of the status store: nothing calls it.
- The contents of the device information and of the process data layout, which the
  API only reads; timing metrics and the performance samples of the demo.
- A slave that restarts during discovery or operation: it begins again in `Init`
  and nothing it had is kept or promised.
- Real time: a timeout may expire at any moment, a cycle is up to `MaxJitter` ticks early or late.
- A single lost frame: the tolerance is a cycle and a half, so the code does not
  report it; `GapReported` starts at two. A wrap of the counter may add one cycle
  to what is reported, and gaps beyond half its range look like late frames. For
  cycle times above 682 ms the tolerance covers half the range and nothing is
  reported.
- Network set-up, logging and post-run analysis of the demo: input and output only.

## 6. Plan

Done: all the modules of section 2 and the proofs of section 4.

Left, in this order:

1. An abstract in-order channel that `L2Stream` implements, and the proof, whose
   step is `AppliedInOrder`.
2. `SlaveRuntime` as a refinement of the reduced slave that `DemoRun` uses.
3. The safety part of the liveness properties as theorems, where it says more than
   the properties proved: who can still be waiting, and for what.
