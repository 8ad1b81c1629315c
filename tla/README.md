# A verification project for SensESP

SensESP is a C++ framework for ESP32 sensor devices that report to a Signal K
server. A device produces values, queues them, keeps a websocket connection to
the server (finding it, asking it for access, checking its certificate), sends
the values as deltas, receives updates and PUT requests, and keeps its
configuration in flash. This directory holds TLA+ models of its core, the
checks made of them with TLC and the proofs made with TLAPS.

## 1. Inventory

Who runs what. Everything a user writes runs on the *event loop* (ReactESP, one
FreeRTOS task). Other tasks: the *transport task* of each websocket client
(inside `esp_websocket_client`, it runs the event handler and hence everything
that is received), a one-shot *connect worker* for the blocking HTTP requests of
an attempt, a one-shot *teardown task* that stops and frees a client, the
*HTTP server task* (configuration, log, commands), the *network event task*
and, when the user wishes, tasks that produce values.

| Component | State | Operations | Interacts with | What is hard |
|---|---|---|---|---|
| Websocket connection, `SKWSClient` | connection state, client handle and generation, teardown and job flags, backoff, credentials, their copy in flash | tick, `connect`, worker legs (`resolve`, `detect_ssl`, access request, poll, probe, `connect_ws`), event handler, `detach_teardown`, reaper | every task, the HTTP one included (settings page) | four tasks without a lock; addresses used again; spawns that fail; restarts |
| TOFU trust anchor | stashed candidate, committed anchor | verify callback, commit, reject, clear | worker and transport handshakes | which handshake a candidate came from |
| Delta queue, `SKDeltaQueue` and `send_delta` | bounded buffer, `meta_sent_` | append, `get_deltas`, send, oversize rule, `reset_meta_send` | producers, event loop, transport | a flag used outside its semaphore, failed sends, full queue |
| PUT requests, `SKRequest`, `SKPutRequest` | request map, request objects, timers, pending id | `send_request`, `handle_response`, timeout, `remove_request` | event loop, transport | timeout against answer, objects freed by the other task |
| Received updates, listeners | bounded list with a limit per kind, registries, two semaphores | `on_receive_updates`, `on_receive_put`, `process_received_updates` | transport, event loop | nested locks, eviction from the middle |
| Task-crossing values (`SafeQueue`, `TaskQueueProducer`, `SemaphoreValue`) | bounded queue | push, pop, tick | any task, event loop | dropped changes, late publication |
| Network state, WiFi watchdog | device connected, outage clock, arming | deferred network events, check, delayed restart | network event task, event loop | two interfaces, clock wrap |
| WiFi and Ethernet provisioning | network list, index | failover tick, scan | driver | retry against a late association |
| Persistent configuration | one file per object | load, save, HTTP PUT | HTTP task, worker, event loop | crash between remove and write, two writers |
| Log buffer | ring of lines with sequence numbers | append, poll | any task, HTTP task | eviction under a poller, restart |
| Status controller, LED | status | two event inputs | event loop | order of events |
| Smart switch, buttons, `ClickType` | click state, delayed event | press, release, timeout | event loop | a delayed event overtaken by a press |
| Stateful transforms | last values, ages, counters | `set`, timers | event loop | boundaries, counters, clock arithmetic |
| Interrupt-driven inputs | counters and levels shared with an interrupt handler | interrupt, tick | hardware, event loop | an interrupt between any two steps |
| Digest authentication | the last nonces and their counts | challenge, request | HTTP task, browsers | requests out of order, staleness, a full list |
| Web pages | request queue, edited card, spinner | load, abort, save, poll | HTTP task | aborts, lost answers, stale closures |
| Pure transforms, other sensors, user interface, HTTP plumbing, discovery, OTA, builders | little or none | | | formulas, hardware, wiring |

What makes them correct:

* **Connection.** At most one client exists; each is owned, and freed, exactly
  once; no handler runs for a freed one; an attempt finds the state and the
  credentials as it left them; late events of a detached client are dropped; a
  request href and a token never coexist, in memory or in flash; no anchor that
  an HTTP request saw is committed; attempts and teardowns end; a
  dead connection is noticed; the device tries again; a rejected token is
  replaced.
* **Delta queue.** The metadata of a connection are not lost, whatever fails;
  metadata too long to send do not block the queue for ever; the queue keeps
  the latest values; values arrive at most once and in order.
* **PUT requests.** One request outstanding per requester; one outcome per
  request; none stays outstanding for good.
* **Received updates.** Values and metadata do not evict each other; no listener
  goes back in time; a PUT is answered as its paths deserve; the tasks never
  wait for each other for ever.
* **Status and network.** The device restarts itself for an outage of the length
  set, and for nothing else; a network in range is joined in the end; the LED
  does not go on showing a connection that is gone, and its patterns stay in
  time however late it is ticked.
* **Configuration.** What was saved is what a restart loads, unless the save was
  cut off, failed or overlapped another.
* **Log.** A page that follows the log passes over no line without a notice.
* **Inputs and transforms.** No press counts twice, no pulse is lost; what is
  emitted is as fresh, as far apart and as true to the input as its parameters
  say.
* **Web.** Slots of the request queue do not leak; a card that shows no edit
  shows what the device uses, but for the cases named; a user with the right
  password is not asked for it without need.

`PROJECT.json` lists every component with its files, and under `hazards` what is
hard to test in this code, at its line, with the properties that would catch it.

## 2. Plan

Done, in this order: the connection, the deltas, the PUT requests and the
received updates, one module each, with their proofs; the network (state,
watchdog, failover, status); configuration and log; the parts that work by
themselves; the web pages that keep state of their own; the proofs of all these
parts and of their composition in `MCUnits`.

Abstract specifications: `LossyChannel`, which `DeltaQueue` implements (checked
and proved). For the others the promise is stated as a property of histories
(`lastSaved` of `ConfigStore`, `missed` of `LogBuffer`, `values` of `Streams`),
which is shorter than a second state machine.

Left: the two interfaces of a device with WiFi and Ethernet, once the code says
which of them the device's state follows; and what section 7 lists.

## 3. Modules

| Module | Models |
|---|---|
| `WsClient`, `WsClient_proofs` | `signalk_ws_client.{h,cpp}`: connection, authorization, client ownership, credentials; their settings page |
| `LossyChannel` | abstract: values that may be lost but arrive once and in order |
| `DeltaQueue`, `DeltaQueue_proofs` | `signalk_delta_queue.*`, `send_delta`, `signalk_ws_delta_size.h` |
| `RequestMap`, `RequestMap_proofs` | `signalk_put_request.*` |
| `ReceivedUpdates`, `ReceivedUpdates_proofs` | `on_receive_updates`, `enqueue_received_update`, `process_received_updates`, `on_receive_put` |
| `NetworkState` | `network_state.*`: events of the drivers, deferred to the event loop |
| `WiFiWatchdog` | `wifi_watchdog.*`, `wifi_watchdog_policy.h`, on top of `NetworkState` |
| `TaskQueue` | `task_queue_producer.h`: a value set in one task, observed in another |
| `StatusController` | `system_status_controller.h`, on top of `NetworkState` and `TaskQueue` |
| `Failover` | the list of networks of `wifi_provisioner.*` |
| `Network_proofs` | theorems about `WiFiWatchdog`, `StatusController` and `Failover` |
| `Button` | `press_repeater.*`, `click_type.*`, `smart_switch_controller.h`, wired together |
| `TimedTransforms` | `debounce.h`, `throttle.h`, `repeat.h`, `join.h`, `zip.h`, `expiring_value.h` |
| `Streams` | moving average, median, hysteresis, change filter, integrator, `time_counter.h`, angle correction, curve interpolator |
| `PinInputs` | `DigitalInputCounter` and `DigitalInputChange` with their interrupt handlers |
| `AsyncResponse` | `async_response_handler.h` |
| `ConfigStore` | `saveable.*`, the PUT of a configuration, the factory reset |
| `LogBuffer` | `log_buffer.*`, `GET /api/log`, the polling page `LogLines.tsx` |
| `StatusLed` | `led_blinker.h` and the patterns of `system_status_led.*` |
| `DigestNonces` | the nonces of `http_authenticator.*` |
| `RequestQueue` | `requestQueue.ts` under the effect of `ConfigCard.tsx` |
| `CardEdits` | the edited and saved card of `ConfigCard.tsx` with the inputs of `Form.tsx`, against the PUT handler |
| `NetworkScan` | `NetworkList.tsx` and the two handlers of a scan |
| `StoreAndLog_proofs` | theorems about `ConfigStore` and `LogBuffer` |
| `Units_proofs` | theorems about `PinInputs`, `AsyncResponse`, `RequestQueue`, `Button`, `TimedTransforms`, `CardEdits` and `Streams`, and the types of `NetworkScan` |
| `MCUnits_proofs` | theorems about `StatusLed` and `DigestNonces`, and about all the parts of `MCUnits` together |
| `MC...` | small instances for TLC |

In every module an action is one stretch of code during which no other task can
see a difference, named for the function it belongs to; a task's place in its
code is a `pc`. Operators named `Variant...` are plausible mistakes in the
operator that follows them. No specification uses them: each property has one
that breaks it, so that none holds by the shape of its model.

### WsClient

`client`, `generation`, `tearing`, `authJob`, `pendingTd`, `state`, `certError`,
`interval`, `pendingCa` are the fields of the same meaning (`client_`, `client_generation_`,
`teardown_in_progress_`, `auth_job_running_`, `pending_teardown_`,
`task_connection_state_`, `cert_error_`, `connect_interval_ms_`, the stashed TOFU
candidate). `cred` gathers
token, request href, TLS flag and anchor, `saved` the same in flash. `el`,
`worker` and `reapers` are the three kinds of task besides the transport, and
`cl` holds every websocket client by address: its phase, the generation it was
made with, the events it has yet to dispatch and its place in the handler.
`EventLoop`, `Worker`, `Handler` and `Reaper` are the tasks' steps; `Upgrade`,
`Lose`, `Reconnect`, `TaskEnds` are the websocket library, as the code uses it;
`NetworkChanges`, `TokenRevoked` and `Reboot` the environment.

The stash outlives what filled it. `Verify` is `tofu_verify_callback`: any
handshake may stash a leaf or a CA (`Pins`, what the server's chain offers), also
one whose upgrade then fails (`UpgradeError`) or whose leaf is rejected. The
client's own `Reconnect` clears nothing, so that a CA seen before it is `"old ca"`
from then on, and a later handshake leaves it there (`Stashable`, which is
`has_pending_ca()`); only `connect()`, `connect_ws` and a match with a pinned leaf clear it. `sslBuild`, chosen in the initial state out of `Builds`, is
`SENSESP_SSL_SUPPORT`.

Kept: every read, test and write of a shared field in its order, each failing
spawn or allocation, each status the server may give, both builds (with and
without TLS). Abstract: time (a backoff runs out at some moment, and the 1 s
grace of `reap_async` is a moment), the text of requests, the server's address
(known or not), the client id, certificates (an anchor is which handshake it
came from, and whether it is a leaf or a CA). `restart()` has no caller and is left out.

### DeltaQueue

`buffer` is the queue, oldest first (the code keeps it reversed and prints it
from the back), `metaSent` is `meta_sent_`, `sending` the event loop inside
`send_delta` with the batch it drained and the delta of each context. `Drain`,
`Group` (one value of the batch to its delta, as the loop of the code does),
`TestMeta` and `Build` are `get_deltas`, split where the semaphore is not held; `SendOk`, `SendFails` and
`DropOversize` are the three ends of a send. `connecting` is `on_connected` on the
transport task, split between the state and the reset of the metadata flag. The
connection is a `link` that comes up and goes down. JSON is a length: `MetaSize`
and `ValueSize`. A `std::map` orders the contexts of a batch by name; the model
allows any order but the device's own first. That a value which cannot be parsed (for want of
memory, or raw JSON of the user's that is none) is left out of its delta
(`signalk_delta_queue.cpp:127-130`) is not modelled: it is one more that may be
lost. `server`, what the server received
of each context, is a history.

`Channel` is `LossyChannel` with this history as what was received, and as what
pends of a context the values in the queue, in the drained batch and in the
delta. `InOrderOnce` says that the device is such a channel.

### RequestMap

`map`, `object`, `cleanup`, `timer` are the map, the heap objects, their
`timeout_cleanup` and the event behind it; `holder` is the mutex while the
transport task holds it across steps, `caller` and `response` are the places of
the two tasks. Critical sections with one use of the map
are one step. Request ids are UUIDs and never repeat. Reading a freed object
gives its old id or `Garbage`. The timer is ReactESP's: cancelling one that is
running already does nothing. The pointer to a timer is read twice where it is cancelled
(`signalk_put_request.cpp:90, 93`), which is one step here: no property tells the
outcomes apart. The values of requests are not modelled.

### ReceivedUpdates

`queue` is `received_updates_`, `locks` the semaphores of `SKListener` and of the
queue, `taken` how many of them `process_received_updates` has, `handling` the
place of the transport task in a message. Entries are numbered as they arrive. Listeners
are made during setup and stay. A full queue loses the oldest entry of the kind
that comes (`Oldest`, `Enqueue`). `arrived` is a history of the entries since the
last dispatch, `last` of the newest entry each listener was given.

### NetworkState, WiFiWatchdog, StatusController, Failover

`NetworkState` is the producer: `deferred` holds the emissions its callbacks
left to the event loop, `station` and `softAp` are what the driver would answer.
`apEvents` is the one callback that asks the driver, later than the event.

`WiFiWatchdog` observes it. `armed`, `down`, `downSince`, `timeout`, `restart`
are the fields of the policy and of the watchdog; `now` is `millis()` in seconds,
modulo `Clock`, and `late` how far the one-second poll is behind. `Poll` makes
the delayed event, `RestartFires` and `Restarts` are its two ends. `outage`, a
history variable, measures the outage as an observer of the producer would.

`StatusController` has two streams of old news: `deferred` of the network, and
the `queue` of connection states of `TaskQueue`. `TransportStores` and
`TransportQueues` are `set_connection_state` on the websocket's task, split
where the worker may come between. The client's own rules are those of
`WsClient`; here only the order of its states matters.

`Failover` is `init_wifi`, the 20 s event, the saved settings and the restart
they ask for. `sta`, `target` and `age` are the driver as the code's comments and calls use it: it
refuses another network while associating, and is left alone when given the
same. Networks in `Slow` need more than one period.

### ConfigStore, LogBuffer

`ConfigStore`: `disk` holds the three names a configuration has had, `config` the
object, `saving` the place of each task in `save()`, from the removal of the old
files to the last byte; a step of the file system is an action, and `Restart`
may fall between any two. A file cut off is `Broken`: `load()` refuses it and the
object keeps its default.

`LogBuffer`: the logging tasks (`LogLine`), the capture task, the HTTP handler
and the page. The page has one request out at a time; its answer may be lost or
late, and the device may restart under it. `missed` is the history of lines
passed over without a notice.

### The parts by themselves

`Button` counts time in readings of the pin; timers due in one period fire in
any order. `claimed` counts a double click for two. Its intervals can be set by
the user; `RepeatsAssumption` names what the defaults satisfy and `ClicksBacked`
needs: a held button is not repeated while its click report waits, nor twice
within the interval that makes a second press a double click. With intervals
that break it (a report after 6 periods, a repeat after 5 and every 2) TLC finds
one press counted twice: a limit of the configuration and no fault of the
defaults. `TimedTransforms` and
`Streams` feed one producer into many transforms at once, each compared with what
the history of the values says it should be; an `elapsedMillis` is an age in
periods. The values of `Streams` are whole numbers with sums a float holds exactly
(up to 2^24): what rounding makes of the running sum of a moving average, and that
a NaN never leaves it, is outside that premise. A `Join` with the default `max_age`
of 0, which emits every value however old the other is, is left out, and so is what it
does before one period has gone by. `PinInputs` lets an interrupt come between any two steps of the
event loop unless they are masked, and keeps one meanwhile. `AsyncResponse`
keeps every timer not removed and the one its `handle` knows of. Its observers run
inside its emissions (`calls`): one may send the next command, or deliver an
answer, before `activate()` has made its timer (`Arm`) or the timer's lambda has
cleared the handle (`EndTimeout`). `StatusLed` has a pattern
as durations and compares the fragment shown with the time since its start
(`age`), on a clock that wraps. A tick is several steps at one time: `LedTick`
reads the clock, and each round of the loop of `apply` is a step
(`PatternGoesOn`, `BlipGoesOn`) until the fragment of this time is found and
shown; `applying` is the place in `tick()`. `DigestNonces` is a browser with several
requests on their way, other clients and time: a nonce's text is its time of making,
so its age stands for it; what the server makes of that age is computed as the code
does, from a clock that wraps (`uptime`) and a time read back as a signed long, which
stops at the largest (`Timestamp`, `Seen`). `lookups` is the request inside `find_nonce`, at the place
of the list where the loop is: it stands still at the nonce it looks for, at an old
one, which it erases (`NonceErased`) before it goes on, and at the end. The server
has one task, so nothing comes between. `RequestQueue`, `CardEdits` and `NetworkScan` are web
pages: a step is what the browser runs without a break, and answers
may be lost, late or refused. In `CardEdits` a number input keeps what is typed to
itself (`field`) from `Focus` to `Blur`, which writes what it shows to the form
without an event for the card; Enter saves in between; what it shows is `Rounded`.

`MCNetwork` and `MCUnits` check several such parts in one run each, and
`MCTraffic` the three streams between device and server. Their variable `unit`
(`stream`), chosen in the initial state, says which part takes steps; the
others stand still. The parts share no state, so the run is the union of their
state spaces and not the product.

## 4. Runs

| Run | Question | Result |
|---|---|---|
| `ws_safety` | ownership, credentials, late events, with reboots, mDNS and a settings page; the inductive invariant | holds |
| `ws_liveness` | attempts, teardowns, dead connections, retries end well | holds |
| `ws_token` | is a rejected token replaced, in a build with TLS and in one without | holds |
| `ws_anchor` | does a pinned CA come from the handshake that succeeded | **violated** |
| `traffic` | deltas: metadata, overflow, oversize, refinement of `LossyChannel` for each context; requests: one request, one outcome, none for ever; updates: kinds, order, answers, locks | holds |
| `requests_timeout` | does the timeout concern unanswered requests only | **violated** |
| `requests_return` | does `send_request` return the id it sent | **violated** |
| `network` | when the watchdog restarts, when outages end, what the LED is told, which networks are joined | holds |
| `units` | every part by itself: clicks, transforms, pins, replies, LED and nonces (`TransformsSound`), files, log, web pages | holds |
| `streams_skips` | does a change filter hold back at most `max_skips` values in a row | **violated** |
| `nonces_stale` | is a nonce called stale only when it is old | **violated** |
| `pins_first` | is the first level of an input always sent | **violated** |

Bounds, and why they are enough.

* `ws_*`: two addresses, so that a second client can be built while the first
  is alive if the code lets it (the proofs cover every number), one for the
  liveness runs, which makes every client use the memory of the last;
  generations modulo 2, the hardest case since two detaches wrap. The backoff
  has one value (`MaxInterval = 1`): no property depends on its length, and the
  proofs cover every one. One save of the settings page (`MaxEdits = 1`) in the
  safety run; none in the liveness runs; the initial states of `ws_liveness` include
  what a page may have left. mDNS, which settles `ssl_enabled_` anew and keeps an old
  address, is on in `ws_safety`. What a handshake may stash (`Pins`) is a CA there,
  which survives a reconnection, a leaf in the liveness runs and both in `ws_anchor`;
  the proofs cover both. `ws_token` has the builds with TLS and without. The two
  addresses are interchangeable, so the safety run uses their symmetry. The network stays up there (`NetChanges = FALSE`): all it does is to let
  `connect()` begin an attempt, and a device that finds none is left as one whose
  worker cannot be created; the proofs and the other runs have a network that
  comes and goes. Its devices start without the pair of href and token that a page
  may have left (`SafetySpec`); the one page there can leave it later. Reboots are left out of the liveness runs: a device that
  restarts for ever gets nowhere.
* `traffic`: deltas have a queue of two, four values, so that it overflows while a
  batch is out; two contexts; a length limit of two that metadata with one value meet
  and metadata with two exceed; two connections, so that a delta of the first
  may meet the second. Requests have two requesters and three ids, so that one of them
  makes a second after its first. Updates have limits of two values and one metadata
  entry, and no message after five entries (`MaxReceived`), so that both kinds overflow
  while mixed; a path with two PUT listeners and one with none; PUTs of two paths in
  both orders. Values, ids and messages run out, hence no deadlock check. The three
  share no state: the run is the union of their state spaces.
* `network`: a clock of five values and timeouts up to two, so that it wraps in
  every outage and a deadline lies on either side of the wrap; a poll at most one
  second late; two deferred emissions, so that news is old when it is seen; a
  queue of two (ten in the code), so that it drops states; three slots with an
  empty one in each place that matters, one slow network and one not, one scan,
  one save.
* `units`: `Button` has four presses and a double-click interval below the long
  click; the stream transforms windows of three and four values with readings on
  both sides of every threshold; three pulses, so that one comes in each stretch
  of the counter's event; three commands; two savers, three configurations, three
  changes, restarts and factory resets without bound; a log of two lines in which four are
  written, with two sessions; an LED clock of 11, which shares
  no divisor with the patterns and so wraps at each of their phases, and ticks
  that may miss two fragments; three cards for one slot,
  with an abort, a retry and a reload each; two failures of a scan; forms of which one
  is not rounded (`typed`) and shows as another (`f1`); nonces that
  grow stale at 2 and are forgotten at 5, a list of two, three requests to a
  nonce, two at a time, a tolerance of two (`Oldest`, `MaxCount`, `Connections`;
  other clients make one request with each of theirs), and a clock of six (`ClockWrap`)
  whose largest long is two and which runs from one through the wrap to zero
  (`Horizon`), so that nonces are made on both sides of either. Parts whose bounds are
  used up stop, hence no deadlock check.

Fairness. In `WsClient`, tasks run (weak fairness of the event loop, the worker,
the reaper, the handler), the library ends every connection attempt with an
outcome and a stopped client's task, backoffs run out, and a teardown retried
at every tick finds memory again and again (strong fairness of the successful
retry: without it nothing but a restart can help the device). `TokenIsReplaced`
also assumes that the network stays and that server and memory are found
again and again (`Luck`); it is stated as a premise of the property, and its run
(`ws_token`) has a network that never goes (`NetChanges`), which keeps its
state space small. In
`MCTraffic` a timer that is due fires, and a task waiting for a mutex gets it in the
end: FreeRTOS hands a mutex to a waiter by priority with inheritance, and the
holders here always give it back. In `network` the event loop runs (its
emissions, the poll, the delayed restart, the 20 s event), time passes, a task
that stored a state queues it, and the driver completes an association with a
network that stays in range. In `units` a browser ends every fetch (`CallStep`)
and runs the timers and answers of an open page (`ScanStep`); failures are
bounded, for a device that refuses everything shows nothing.

## 5. Proofs

`WsClient_proofs` proves, for every set of addresses, generation width,
interval, build option and kind of certificate (assumptions `HandlesAssumption`,
`GenerationsAssumption`, `IntervalAssumption`, `BuildAssumption`, `PinsAssumption`,
`EditsAssumption`), every safety
property of `ws_safety`: `TypeCorrect`, `OneClient`, `OneOwner`,
`HandlersAlive`, `OneCredential`, `AnchorsFromWebSocket`, `AttemptsOwnState`
and `LateEvents`. None is inductive alone. `IInv` adds what the code relies on
without saying: which flags are up at which place of the event loop and the
worker (`Control`); that a worker in its legs, a detach and a teardown exclude
each other (`Exclusive`), which is what `auth_job_running_` and
`teardown_in_progress_` are for and gives every mutual-exclusion property; which
phase a client is in at each place of its owner (`Memory`); where a handler can
be (`Handling`); that the client in `client_` has the present generation
(`Gens`), which is why a late event fails its test; what an attempt's state is
(`Attempt`); and two about credentials (`Granted`, `Anchored`). Each is shown
to be preserved in a lemma of its own, one case per action; `AttemptsOwnState`
and `LateEvents` are action properties that follow from `IInv` in the state
they start from. TLC checks `IInv` itself in `ws_safety`.

`DeltaQueue_proofs` proves `TypeCorrect`, `MetadataNotLost`, `OversizePaid` and
`LatestWait` for any sizes, limits and contexts. The strengthening is that a
batch that carries metadata still has them on its first delta
(`FirstCarries`) and an accounting (`Paid`): deltas dropped with metadata,
plus one if the metadata are unmarked, plus one if they are at hand, are no more
than the times they were armed.

It also proves the refinement, `ChannelImplemented == DeltaSpec => InOrderOnce`, step
by step: a value produced is `Produce`, a delta sent is `Deliver` with the values
by which the server's history grew, and what an overflow, an oversize delta or a
failed send drops is `Lose`; the other steps stutter. The invariant behind it,
`OnTheWay`, puts the values that pend in one line: the delta of the context, the
drained batch, the queue, each part increasing (`Sorted`) and each below the next
(`Staged`), with nothing at hand before a drain (`Fresh`). `ServerInOrder` is what
a reader wants of it, that no value of a context arrives twice or after a later
one: it is proved of the channel's own steps, of which the device's are some.

`RequestMap_proofs` proves `TypeCorrect` (among the types: the map tracks live
objects only), `OneRequest` and `OneEnd` for any number of requesters and
requests. `OneOutcome` is not inductive: what makes it true is that the
transport task keeps a request in the map while it holds the mutex (`Locked`),
that a request not yet inserted has no history (`Fresh`), that one which ended is
in the map only until the task that ended it has erased it (`Ended`), and, for
`OneOutstanding`, that a tracked request is the one its requester knows of or is
about to (`Known`): this is why reading a freed id, which never equals a tracked
one, does no harm.

`ReceivedUpdates_proofs` proves, for every finite set of listeners and all
limits, every safety property `traffic` checks of it, and that there is no circular wait.
Its first invariant says who holds which
mutex at each place of the two tasks (`LockPlaces`: the transport task has at
most one, which is what excludes the deadlock) and what `on_receive_put` has
found of the paths it has passed (`Found`). The second is about the contents of
the queue: its entries are numbered upwards, no listener was given one that still
waits (`Numbered`), and each kind is within its limit (`Limited`). Since the
oldest entry of a kind is the one with the least number, what an eviction from
the middle takes is named without an induction over the sequence: what waits of
a kind are its latest entries, all of them or as many as the limit
(`KindsIndependent`, which is inductive with the two). `NeverOlder` follows, as an action property.

`Network_proofs` proves `RestartJustified` for every width of the clock,
every range of timeouts and every lateness of the poll the assumption
`ClockAssumption` allows (the clock is wider than the longest timeout and the
lateness together). The invariant `Measured` ties the modular clock to real time:
the policy is armed only by a link that was up, it is down only while the
network is reported down, and the modular difference of `now` and `downSince` is
never more than the outage lasted, however often the clock has wrapped.

It also proves what the liveness of `network` rests on, which the run checks with
it. `StatusIsTrue` is `CaughtUp` for every size of the queue: the state set last is
the newest that waits or, with nothing waiting, the output (`Newest`), which a full
queue that drops its oldest entry does not change (`StoredIs`), and the last news of
the network, deferred or emitted, is true (`NewsTrue`). `SlotsAreJoined` is
`AppliedIsJoined` for every list of slots; that the search of `reconnect_cb` ends at
a valid slot is `NextValidIs`.

`StoreAndLog_proofs` proves `ConfigSurvives` for any tasks, configurations and
number of changes. The strengthening `Quiet` says that where nothing is at risk
nobody is inside a save: the history variable `atRisk` is raised by the removal
of the old file, and only a save that ran alone to its end, or a restart, lowers
it.

It also proves `NoSilentGap` for every size and age limit. What makes
it true is that the buffer is a run of consecutive numbers (`Numbered`, kept by
appending, trimming and pruning: `PrunedNumbered`, `TrimmedNumbered`); that an
answer without a gap has every line from the cursor on (`AnswerWhole`); and that
every line before the cursor was read (`ReadWhole`).

`Units_proofs` proves, of the parts by themselves:

* `PulsesKept`: where every pulse is at each instruction of the counter's event
  (`Accounted`).
* `OneReply` (`OneReplyEach`), for every timeout and whatever observers do inside an
  emission: once `activate()` has returned, a pending command has a timer of its own
  that is as old as it is (`OwnTimer`), and there is no other unless a command was sent
  from the emission of a timeout (`OneTimer`), the exception the property names.
* `PinTypeOK`: the counts stay in their range by the same account (`PinInv`).
* `SlotsCounted` and `SlotTypeOK` for every finite set of cards: the waiters are distinct and wait
  (`Lined`), the count is the cardinality of those who hold a slot (`Counted`).
* `ButtonTypeOK` and `ClicksBacked`, for all periods `RepeatsAssumption` allows.
  What makes it true is an account of the presses (`Backed`): those claimed and
  those owed, to the reports that wait and to the click that is being counted
  (`Owed`), are no more than there were. It rests on the clocks: a report is gone,
  or the interval over, before a repeat could be taken for a second press
  (`NotSecond`).
* `TimedSound`: each timer against the age of its value (`Debouncing`, `Repeats`,
  `StopsInTime`, `ExpiresInTime`), with the age known up to a limit only. These
  are equalities of sums that no test of one timer shows: the next repetition
  comes before the value can be too old by more than one interval.
* `CleanCardTrue` (`CleanCardsAreTrue`), for all forms and every idempotent rounding: a
  save that is under way marks the card, and what the card shows is what was sent, to
  the digits shown, or one of the five exceptions has happened since (`Saving`). A visit
  to a number input changes the form and not what is shown (`VisitShowsTheSame`), which
  is why rounding alone does no harm.
* `StreamsSound`, for every window, limit, curve and sequence of whole numbers (the
  premise of `Streams` on sums). The
  ring buffer of the moving average holds the last values, the first standing for
  those there are too few of (`RingHolds`), and its running sum is theirs
  (`WindowSum`); the time counter's duration is the sum of the pauses after a value
  that was on, whether it has been stored or not (`TimeKept`); the change filter has
  passed enough for what it held back (`PassedInTime`); the interpolated point lies
  on the line through two neighbours, whichever case of
  `Interpolate` the value falls in (`CurvesKept`, `LineFits`); `Fmod` with the
  sign of C is corrected into the turn (`AnglesKept`).

The sums of `Streams` are folds over finite sets. What a fold computes is proved
from its definition, for sets of any size: `IterExists` shows that the recursive
function exists, `SumUnfolds` and `SumRemoves` that it adds each element once in
whatever order, `SumSame` that it depends on the values there alone. The library's induction
theorems, which take an operator as a parameter, cannot be used here; these
lemmas argue by the least counterexample instead (`LeastNat`, from the
well-foundedness of `<`, and `LeastSet`).

`MCUnits_proofs` proves what is left of the parts, and then of all of them:

* `LedSound`, for all patterns and every delay (`LedKeepsTime`). `LedMoves` says how far behind each
  animation may be at each place of a tick: not at all if it was applied or if no
  tick runs, else by no more than the time since the last tick. It needs that the
  starts of the fragments divide a pattern (`FragmentsDivide`, from the sums of
  `Units_proofs`) and what may be added to and taken from a clock that wraps
  (`TimeWraps`), which is where `LedAssumption` comes in: a pattern and a gap
  together are shorter than a wrap.
* `NoncesServe`, for all ages, limits, tolerances, widths of the clock and any number of
  requests (`NoncesAreGood`), of the nonces made while `millis()` fits a signed long
  (`Made(n.age) <= LongMax`; `nonces_stale` is what happens to the others). For those the
  age the server computes is the true one, across a wrap (`SeenIs`), and what it takes for
  old on its way through the list is old or was made late (`SeenOld`). The list is sorted by age
  (`ListInOrder`). A nonce given once that no request was told of is on it, at most
  as many places behind the front as nonces were given since (`KnownIn`); its count
  is ahead of a request by no more than the requests the browser made since
  (`Near`), which is what the tolerance is compared with. The loop of `find_nonce` skips the
  nonce after one it erases: that one is old too, for the list is sorted, so nothing
  that still serves is passed over (`LookupsGoOn`).
* `TypeOK` (`PartsTypeCorrect`), `TransformsSound` (`TransformsAreSound`) and the
  other safety properties of `units` (`PartsKeepPromises`) of the specification TLC
  runs. `PartsInv` is the conjunction of the invariants of the parts: a step of
  `MCUnits` is a step of one part and leaves the variables of the others alone
  (`PartsMove`).

`AnchorsFromWebSocket` says what the code does ensure of the stash: what an HTTP leg
stashed is never pinned. It rests on `Anchored`, by which such a candidate is gone
before there is a client, whose handshakes may leave theirs, and no page shows one.
That a CA is of the very handshake that succeeded is not so (`ws_anchor`).
With the settings page, `OneCredential` rests on `Granted`, which says that no page
shows both a request href and a token as long as none has disturbed an attempt.

Only model-checked:

* everything about liveness, and ENABLED, which this prover does not reach;
* the liveness parts of `PagesServed`, `CardsEnd` and `SpinnerStops` (its safety
  parts, `SlotsCounted` and `CleanCardTrue`, are proved);
* `NoStaleConnected`, and `ConnectsInTheEnd` in `NetworkServed` (the safety parts of
  that, `CaughtUp` and `AppliedIsJoined`, are proved).

So every invariant and every action property that a passing run checks has a
theorem; what is left to TLC are the temporal ones.

## 6. Findings

* `ws_anchor`: "Only the WebSocket handshake -- the one whose success reaches
  on_connected and proves the server holds the leaf's private key -- may populate the
  anchor that gets committed" (`signalk_ws_client.cpp:1411-1414`). A CA stashed by a
  websocket handshake whose upgrade then failed is not cleared by the client's own
  reconnection, not replaced by the next handshake (`has_pending_ca()`, line 236),
  and committed when that one succeeds (line 468).
* `requests_timeout`: the lambda of `send_request` logs, marks and later reads
  its request without asking, under the mutex, whether it is still there; the
  transport task may have handled and deleted it while the timer was starting
  (`signalk_put_request.cpp:28-36`).
* `requests_return`: `send_request` reads the id it returns after `sendTXT`, when
  the answer may already have come and the object be gone
  (`signalk_put_request.cpp:51-53`).
* `pins_first`: `DigitalInputChange` gives `last_output_` the value opposite to
  the pin, so that the first tick sends the level (comment at
  `digital_input.h:257`). An edge between the constructor and the first tick
  makes `output_` equal to it: the tick sends nothing (`digital_input.h:264`),
  until the pin changes again.
* `streams_skips`: `ChangeFilter` holds back `max_skips + 1` values in a row
  (`change_filter.cpp:19`), one more than its header (`change_filter.h:17-19, 27-29`)
  and the text of its page (`change_filter.cpp:49`) say. `NothingLost`, which
  bounds how much of its input a filter holds back in all, uses the code's number and
  says so.
* `nonces_stale`: `find_nonce` reads the time in a nonce with `String::toInt()`
  (`http_authenticator.cpp:193-195`), which stops at 2^31-1. After 24.9 days of uptime,
  until `millis()` wraps, every new nonce is stale as soon as it is used.

`OneOutcome` and `OneOutstanding` hold nonetheless in the model: what is read
from the freed object is never the id of another request.

Seen while modelling, named in the properties as exceptions, contradicted by no
doc of the repository:

* A slot of the network list edited in place is applied without a disconnect,
  since `reconnect_cb` compares indices (`wifi_provisioner.cpp:245`): a driver
  that is associating with the old network refuses it until the restart the page
  asks for (`~edited` in `ConnectsInTheEnd`).
* The first answer that a nonce is stale erases it: another request that is
  under way with the same nonce is refused, not called stale, and a browser may
  then ask for the password again (`~n.told` in `NoncesServe`).
* A command sent by an observer of a timeout loses the handle of its timer, since the
  lambda clears it after the emission (`async_response_handler.h:59-61`): nothing removes
  that timer, and it ends a later command early (`retried` in `OneReply`).
* A card whose save was refused is marked as clean (`refused` in
  `CleanCardTrue`), and so is one that was edited during its save (`overtaken`).
  Enter in a number input saves the form without what was typed there and marks the
  card as clean (`entered`; `Form.tsx:242-250` writes to it on blur only). A save whose
  connection broke may be handled after a later one (`crossed`). A card does not learn
  of what others change (`elsewhere`).
* A mere visit to a number input rounds its value in the form, unmarked: the next save
  of another edit sends the rounded one.
* The interval that looks after a failed scan works because its closure holds
  the first value of `isScanning` (`SpinnerStops`).

## 7. Not modelled

* Text: JSON, certificates and PEM, logging, HTTP headers, pages, and every
  formula of one floating-point value (linear, threshold, frequency, the
  analog and sensor conversions). `RepeatConstantRate` has a `set` whose
  signature overrides nothing and no user in the repository. A curve with a
  single sample is left out, and so are NaN and the drift of a sum in floating point
  (`moving_average.cpp:28`) and a `Join` without a limit (`join.h:20`).
* Hardware and libraries: drivers, the PCNT counter (its own comment names the
  window it leaves), the debounced counter, mDNS, OTA, the HTTP server, file
  systems below their calls. The models assume what `esp_websocket_client`,
  ReactESP and the WiFi driver do as the code in `src/` uses them: a stopped
  client's task is joined by `stop()`, events are dispatched in order on the
  client's own task, timers run on the event loop, a driver that is associating
  refuses another network.
* Startup wiring (builders, application object): it runs before any other task.
  Listeners are made during setup; one made at run time would change the registry
  without the semaphore (`signalk_listener.cpp`).
* Data races inside one call: `from_json`, and a vector or `String` replaced
  under a reader, are one step here. Their outcomes in C++ are undefined and no
  property could hold of them.
* The two interfaces: one link stands for both (hazard at `network_state.cpp:50`).
* `clear()` of a saved object, called only before a format; `restart()` of the
  connection, which has no caller; log lines lost to a full capture queue or for
  want of memory, which get no number by design; session ids that repeat; fades
  and colours of LED patterns and `BaseBlinker`, which has no subclass.
* Of the web pages: the system page's cards and the WiFi settings, which are
  edited like `CardEdits`; routing, layout, forms. The generated assets
  (`frontend_files.h`, `js_jsoneditor.h`, `css_bootstrap.h`) are a third of all
  lines of the implementation and have no behaviour of their own.
