# Verification of the EEBUS bridge and its Home Assistant integration

TLA+ models of `homeassistant-eebus`: the Go add-on `eebus_bridge` and the Python integration
`custom_components/eebus`. TLC checks small instances of each model, and TLAPS proves the main
safety properties for every value of the constants. `PROJECT.json` maps every definition to the lines
it models and lists the runs, the hazards, the findings and the theorems.

Paths below are short: `store.go` is `src/eebus_bridge/src/internal/store/store.go`, `manager.go`,
`handler.go`, `control.go`, `usecases.go` and `ski.go` are in `internal/eebus/`, `server.go` in
`internal/httpapi/`, `config.go` in `internal/config/`, and the Python files in `src/custom_components/eebus/`.

## 1. Inventory

### 1.1 The system

    grid box, inverter, ...      SHIP/SPINE (ship-go, spine-go, eebus-go)
            |                            |
            |  callbacks, one goroutine each        calls
            v                            ^
       handler.go, control.go, usecases.go  (Manager, mutex m.mu)
            |  Store.Update               ^  Controller interface
            v                             |
       store.go  (State, mutex, one channel per WebSocket client)
            |  Snapshot, Subscribe        |
            v                             |
       server.go  (REST: one goroutine per request; WebSocket: one per client)
            |  GET /api/state, /api/ws    ^  POST /api/...
            v                             |
       api.py, coordinator.py  (one asyncio task per entry for the WebSocket, polling)
            |                             ^
            v                             |
       entities (switch, number, sensor, binary_sensor), services

The bridge has no central loop. Library callbacks, HTTP requests and WebSocket handlers are
goroutines that meet in two mutexes, the manager's and the Store's. No critical section spans two
steps: the code reads under one lock, releases it, calls the library, and writes under the other.
Almost everything that can go wrong comes from that.

### 1.2 Components

| Component | State | Operations | What makes it correct |
|---|---|---|---|
| Store (`store.go`) | `State`, `subscribers`, `nextSub`, a channel of capacity 1 per client | `Update`, `Snapshot`, `Subscribe`, unsubscribe | no client misses the last state or goes back; `Update` waits for nobody; no operation panics |
| WebSocket endpoint (`server.go:276`) | its channel, a ticker, a reader goroutine | receive and send, leave | leaves its channel behind properly, however the client goes away |
| Connections and trust (`manager.go:115-183, 238-266`, `handler.go`) | `m.conns`; the library's set of registered remotes | `Trust`, `Forget`, six callbacks that change the map, `AllowWaitingForTrust`, `syncConnections` | only trusted remotes pair; `Forget` revokes; what is shown connected is |
| Start-up (`main.go:28-66`, `manager.go:60-131, 185-218`) | `cert.pem`, `key.pem`, `local_ski.txt` | load or create the certificate, set up, register remotes, write the SKI, die | the SKI devices trust never changes; a start always finds or makes a usable certificate |
| End of the process (`main.go:59-76`, `server.go:85-97`) | the server, the main goroutine, the EEBUS service | start, signal, drain, shut down, exit | the service is shut down last and not under a request; the process does end |
| Energy Guard (`control.go:21-175`) | `egEntity`, `InverterControl` in the Store | limit, target, activate; entity discovery; reports of the inverter | the inverter does what was asked, the Store says what it does; staging never activates |
| Controllable System (`usecases.go:42-163`, `control.go:177-239`) | the data points in the library, `LPC`/`LPP` in the Store | approve writes, refresh, set failsafe and nominal maximum | the grid box's last limit is in force, and the Store shows it |
| Monitoring (`usecases.go:165-260`) | `MPC`, `Battery`, `Inverter` in the Store | one callback per value | what is shown ends with the last value and never goes back |
| REST (`server.go`) | none of its own | routing, token, decoding, operation, answer | the answer says what happened to the operation |
| Configuration (`config.go`), SKI (`ski.go`) | the loaded `Config` | read, parse, normalise, validate | the bridge starts on sensible options only, and every spelling of an SKI means the same remote |
| Logger (`logger.go`) | none | compare a level, print | - |
| Coordinator and client (`coordinator.py`, `api.py`, `__init__.py`) | `data`, `last_update_success`, the WebSocket task, its stop event | poll, push, connect, back off, set up, unload | Home Assistant shows the bridge's latest state, or unavailable |
| Entities (`entity.py`, `switch.py`, `number.py`, `sensor.py`, `binary_sensor.py`) | none of their own | command and refresh, availability | a command is followed by a refresh |
| Config flow, packaging | none | one form; build | - |

### 1.3 How they interact, and what is hard

* **Store and its callers.** `Update` mutates and copies the list of channels under the lock, and
  publishes after releasing it (`store.go:155-174`). Publications of different goroutines therefore
  interleave with each other, with readers, and with clients that leave and close their channel.
* **Manager and library.** `Trust` and `Forget` first call the library, then change `m.conns`, then
  copy it, then write the Store: four steps with callbacks in between.
* **Manager and inverter.** A limit is sent, recorded, and answered later; the answer is only logged,
  and the change the inverter reports runs a callback that writes the same fields.
* **Manager and grid box.** A write asks for approval, approval changes a data point, the change
  raises an event, and the event makes `refreshLPC` read four values by four calls before it writes
  the Store once. Approvals and refreshes overlap.
* **Monitoring.** Values are read from the library inside the Store's mutator, in goroutines that overtake
  each other between their event and the lock; several devices share the fields.
* **Requests and the end.** A request can be anywhere between its token and its answer when its client gives
  up or the process is told to stop; a WebSocket has two goroutines that wait for each other's end.
* **Process and disk.** The process can be killed inside `os.WriteFile`; three files are written one
  after the other and one of the errors is ignored.
* **Integration and bridge.** A poll answered earlier can arrive after a later push, pushes can come
  out of order, sessions break, the bridge restarts, and the entry is unloaded while all that happens.

`PROJECT.json` lists every hazard at its line, with the properties that cover it or the reason why
none does yet.

## 2. The modules

Every module has one action per operation or per step between two points where other goroutines can
run. Operators that a comment calls a variant are changed forms of the operator they precede; they are
not part of `Next` and serve to show that each property depends on the code.

| Module | Component | Kind |
|---|---|---|
| `Store` | Store and the reading side of the WebSocket endpoint | model |
| `Watch` | what a WebSocket client is promised | abstract specification |
| `WatchedStore`, `MCStore` | `Store` as an implementation of `Watch`, and its instance | refinement, instance |
| `Connections` | connections and trust, over restarts | model |
| `Boot` | start-up over many runs of the process | model |
| `Options` | the options and the spellings of SKIs | operators |
| `Startup`, `MCStartup` | `Boot` composed with `Options` and pairing requests | model, instance |
| `Api`, `MCApi` | the API server, its requests and WebSockets, and the end of the process | model, instance |
| `EnergyGuard`, `MCEnergyGuard` | Energy Guard | model, instance |
| `ControllableSystem` | Controllable System | model |
| `Monitoring`, `MCMonitoring` | the monitoring callbacks | model, instance |
| `Integration` | coordinator, client and config entry against a bridge that behaves as `Store` | model |
| `StoreProofs`, `StartupProofs` (also of `Boot` and `Options`), `ConnectionsProofs`, `EnergyGuardProofs`, `ControllableSystemProofs`, `MonitoringProofs`, `ApiProofs`, `IntegrationProofs` | theorems | proofs |

### Store

`State` is the number of mutations so far (`version`), for the properties only ask which of two
snapshots is older. `UpdateLocked` is the part of `Update` under the mutex. `TrySend` is the outer
select, `Drain` and `Resend` the two inner ones; each is one step, and a writer goes through its copied channels
in any order, as a Go map fixes none. `Subscribe` seeds the channel under the lock. `Receive` and
`Unsubscribe` are the WebSocket handler. A send on a closed channel panics: in an HTTP handler
`net/http` recovers it, anywhere else it ends the process (`Alive`). `burstBase` is a history variable,
the version before the present run of overlapping `Update`s.

`Watch` is what that means for a client. Overlapping updates form a burst, and `bases` are the states after
which one began. Within a burst a client may see states in any order and miss any; it never goes back to an
earlier burst (`Before`), and as long as it stays it does not stay behind the last one (`Progress`). With
updates one at a time every state is a burst of its own, so that a client sees a strictly increasing selection
that ends with the latest. `WatchedStore` adds `bases` as a history of `burstBase` and maps the rest directly; a send
on a closed channel is a `Fault`, after which nothing more is promised.

### Connections

`m.conns` is three sets: the SKIs with an entry (`known`), and of these the connected and the trusted.
`Trust`/`MarkTrusted` and `Forget`/`MarkForgotten` are the two halves of the requests; `Callback` is
`upsertConn` as each of the six callbacks uses it; `Copy` and `Publish` are the two halves of
`syncConnections`, which ends every one of them. `Connect`, `Disconnect`, `AutoTrustRemoved` and
`Announce` are the library: it connects to registered remotes, lets those pair that
`AllowWaitingForTrust` admits, and calls back later, for one SKI in the order of the changes. `Restart` is a new
process, perhaps with the other value of `auto_accept_trust`: nothing of all this is on disk. Names, brands and
models are left out, and so are callbacks that only log. Every change of the map has a number (`rev`); as history each
copy keeps the number it was taken at (`listRev`), and of the copies written to the Store the last and the newest are kept
(`publishedRev`, `newest`), for they need not be the same.

### Boot

A certificate and its key are one number. Each `os.WriteFile` is two steps, so that a file can be left
torn; `Die` can happen in any state and stands for a kill, a SIGTERM and the end after `log.Fatalf`,
after which the add-on is started again. `Setup` is the rest of `NewManager` and `Start`.

### Options and Startup

`Options` is `Load`, `normalise`, `validate`, `sanitise` and the functions of `ski.go` as operators on texts. A
text is a sequence of characters that stand for their class: lower- and upper-case hexadecimal digits, other
letters, separators, white space. What a replacer or a filter keeps of a text is `At`, which selects by positions:
it is `SelectSeq` (`MCStartup` has TLC compare the two), written without recursion so that theorems can be proved
about it. `Digits`, `Spelled` and `Blank` say independently what a user means by a
text. `Startup` extends `Boot`: each launch reads some options file (`Load`), and either ends at once or goes on
as `Boot`'s `Launch`; `Begin` is `Boot`'s `Setup` with the remotes `Manager.Start` registers; a serving process answers
`Pair` requests; `End` is `Boot`'s `Die`. All other steps are `Boot`'s own (`OnFiles`), and the theorem
`ImplementsBoot` says that `Boot`'s results hold here.

### Api

`Launch`, `Notify`, `Signal`, `ShutdownReturns`, `StopService` and `Exit` are the main goroutine; `Bind` and `ServeReturns`
the goroutine of `api.Start`, which can end the process by `log.Fatalf`; `GraceEnds` the five seconds. A
request goes through `Receive`, `Authorise`, `Decode`, `Operate`, and may be given up by its client at any time;
its body may be malformed or never end. A WebSocket is `Dial`ed, its reader and its handler end one after the
other (`ReaderEnds`, `HandlerReturns`), and its client may close or vanish. `net/http` waits for requests and not for
hijacked connections (`WaitedFor`). The token is a sequence of characters, for a header trims white space and
a query reads a plus sign as a space (`InHeader`, `InQuery`).

### Monitoring

A value is the number of the change that made it. A callback begins for a raised event (`Begin`), takes the
Store's lock (`Enter`), asks the library (`Read`), and copies the value unless that was an error (`Write`). `Report`
and `Leave` are the devices: several may have the same use case, and then share its fields.

### EnergyGuard

One direction at a time; `Production` says which (the code of the two differs in the sign only). A
request stages (`RequestTarget`), looks at the snapshot (`Peek`), reads the entity under the mutex (`Lookup`), writes to the
wire or fails (`Write`) and records (`Record`). A report of the inverter changes the library's copy (`Arrive`),
and a callback reads it (`ReadUpdate`) and records it (`RecordUpdate`). The inverter takes a limit over or rejects
it (`DeviceReceives`), and may end one by itself (`DeviceExpires`). Durations are left out.

### ControllableSystem

A value is the number of the change that set it. `LimitApprovalRequired`, `ConfigApprovalRequired`,
`Approve` and `DataUpdate` are `onCsLPC`; `Read` and `Publish` are `refreshLPC`, one read at a time;
`SetFailsafe`, `SetNominalMax`, `SetValue`, `SetFails` and `RefreshAfterSet` are the requests. `GridWrite`,
`TimeOut` and `Heartbeat` are the grid box and the library. `HeartbeatOK` is left out: only time falsifies it.
The history counts the changes of the data (`applied`), and remembers how far the count was when each refresh began (`began`),
when the one that wrote the Store last did (`shownBegan`), and the latest of all that wrote it (`newest`); which changes
were made by requests that then failed (`abandoned`); and the first of the limits that last waited together
(`limitBase`) and whether one of these came to its time-out (`lapsed`). A goroutine may be among the `Callbacks` and
the `Handlers` at once: one that has returned leaves its place to whatever comes next.

### Integration

States of the bridge are numbers. Polls are of two kinds, by the timer and on request, and each is
sent, answered and completed in separate steps, so that a push can overtake its answer. `Connect`,
`ConnectFails`, `Deliver`, `Break`, `Disturb` and `WakeUp` are the loop `listen`; `Setup` and `Unload`
are the config entry's. Of the bridge, only what `Store` shows is used: a new session is seeded with the current
state, and later pushes may be skipped or be older than the latest.

### What is assumed of the outside

These assumptions stand in the comments of the modules and are marked external in `PROJECT.json`:

* ship-go calls `handler.go` for one SKI in the order of the changes it reports, and connects only to
  registered remotes or those `AllowWaitingForTrust` admits.
* eebus-go answers a pending write once. Approving a write that is no longer pending does nothing.
  Setting a value locally raises no event, while a grid box's approved write raises one.
* An inverter's messages arrive in order, and it reports every change of its limit once.
* `net/http` recovers a panic in a handler; any other panic ends the process.
* `os.WriteFile` is not atomic, and a completed write survives the process.
* spine-go changes its copy of a monitored value before it raises the event, and forgets the values of a device that
  leaves.
* `Shutdown` of `net/http` waits for requests in progress and not for hijacked connections, and makes `ListenAndServe`
  return `ErrServerClosed`; a signal before `signal.Notify` kills the process.
* The DataUpdateCoordinator polls while entities listen, drops a requested refresh when data is pushed, and
  retries a failed setup.

## 3. Runs

TLC finishes each run in at most three minutes with two workers. Deadlock is not checked where the system may really stop
(all updates made, no request outstanding); `Boot` and `Startup` can always be started or killed, and devices can
always leave in `Monitoring`, so there it is checked.

| Run | Question | Bounds, and why they are enough |
|---|---|---|
| `store_concurrent` | Does a lone `Update`, or a run of overlapping ones, reach every client (`BurstBounded`)? Does `Update` return without any reader's help (`UpdateReturns`)? Is the Store a `Watch` (`ImplementsWatch`, a refinement with liveness)? | three goroutines: two drain and refill one slot while a third takes or fills it; one client, as channels do not interact; four updates: two bursts of two, or one of four |
| `store_closed` | violated, finding 1 | one update and one client that leaves |
| `connections_trust` | Who is admitted (`OnlyGrantedAllowed`)? Does the map, or the Store, show a connection that is gone (`NoGhostConnection`)? Does every change reach the Store, and stay there unless an older copy is written after it (`StaleOnlyIfOvertaken`)? | a configured and an unknown remote, one operator and one callback, four requests, restarts and library events: a trust, a connect, a disconnect or a forget, and one more; both values of auto-accept |
| `connections_forget` | violated, finding 2 | as above |
| `installation` | Which options start the bridge (`StartsIfSensible`), which remotes do they and the requests name (`SpellingIrrelevant`, `RequestsNameRemotes`)? Is the SKI of all ready starts the same, loadable, and the one in `local_ski.txt`? | SKIs of two digits, in all texts of up to four characters of four classes and up to two of four more; ports around both ends of their range; two requests, so that one undoes another; two certificates, one lost half-way and its successor |
| `boot_torn` | violated, finding 3 | four certificates |
| `eg_commands` | Does a request that met no other do what it says, whichever of record and report comes first (`LoneRequestFulfilled`)? Is a limit ever active unasked (`UnaskedNeverActive`)? Are signs right (`SignsSeparated`)? | two requests in two goroutines, one callback, one entity, one expiry, a value of either sign |
| `eg_removed` | violated, finding 4 | three requests: an activation to undo, a target and the removal it races with |
| `cs_limits` | Is every change read by a refresh that began after it, and does the Store show the data unless an overtaken refresh or a failed request came last (`StaleOnlyIfOvertaken`)? Is the limit in force one of the last that waited, in whatever order they were approved (`LimitInForceIsRecent`)? Does every waiting write have a call or a callback to come (`NoWriteStranded`), and is it answered (`WritesAnswered`), when two callbacks find the same writes? Does a heartbeat repair what a race left (`HeartbeatsHeal`)? | two goroutines: both may be callbacks, or one a callback and the other a request; two changes: an approval or a setting inside the other's refresh, two limits that wait together and that each callback may approve, or find gone, in either order, a request that fails half-way; the safety part is proved for any number |
| `monitoring_values` | Does what is shown end with the last value (`SettledIsCurrent`), and never go back (`NeverOlder`)? | two devices and two callbacks, a value both of whose devices report, one that nothing else writes, three changes; callbacks are symmetric |
| `api_lifecycle` | Is the service shut down last (`StopsInOrder`)? Are answers true (`AnswersAreTrue`)? Does the process end (`ShutdownEnds`), and what a client left behind (`GoneIsReleased`)? | two requests of any kind and a WebSocket in every stage; no token, and tokens that header and query treat differently |
| `integration_sync` | Does Home Assistant end up with the latest state (`EventuallyCurrent`), or unavailable (`EventuallyUnavailable`), with the WebSocket open again (`EventuallyOpen`)? Does `listen` run exactly while the entry is loaded, however it was reloaded, and does no setup wait for nothing (`ListensWhileLoaded`)? | three states after the first, a lost message, any number of reloads; a restart takes one of the states |

Constants that only bound the state space are `MaxSubs`, `MaxUpdates`, `MaxEvents`, `MaxCerts`, `MaxRequests`,
`MaxOwnChanges`, `MaxChanges` and `MaxGlitches`; each is a guard of the actions it counts. `SkiLen`, `SerialLen` and `MaxPort`
are the code's 40, 24 and 65535, small in the instance. Under these bounds
"in the end" in the liveness properties also means "once the changes stop".

### Fairness

* `WriterFairness` (Store): a goroutine inside `Update` goes on, as the Go scheduler runs every runnable
  goroutine. `UpdateReturns` is checked with this alone, so without any reader. `ReaderFairness`: a
  handler whose channel holds a snapshot takes it, because its loop blocks in nothing but a write with a
  deadline of 10 s; only the second half of `ImplementsWatch` assumes it. Neither obliges anybody to call `Update`.
* `Api`: the main goroutine and the two of a WebSocket go on when they can, and a ping is written every 30 s, so that a
  vanished client is noticed. Nobody is obliged to send a request, to end its body, or to send the signal; that the
  five seconds pass is assumed in `ShutdownEnds` only, for its first half.
* `Scheduling` (ControllableSystem): goroutines with something to do go on. The three kinds of library
  calls have strong fairness: the library starts a goroutine for each, while the model has a
  few slots (`Callbacks`, one of which may also serve requests) that are free again and again. The grid box,
  time-outs and heartbeats are not obliged;
  `HeartbeatsHeal` assumes its heartbeats itself.
* `Fairness` (Integration): the timer polls while the entry is loaded, a request is answered or fails (15 s),
  the event loop runs what is ready, and the WebSocket's heartbeat (30 s) notices a dead peer. The bridge,
  the user and Home Assistant's retry of a setup are not obliged; the properties assume a bridge that stays up, or down.

## 4. Findings

1. **`Update` can panic** (`store_closed`). A client that leaves between the copy of the channels and the send closes its
   channel under the sender. In a library callback that ends the bridge.
2. **`Forget` can be undone** (`connections_forget`). `RemoteServiceConnected` sets `Trusted`; the call for a
   connection made just before comes after `Forget` cleared the entry, and the remote may pair again.
3. **A kill during the first start can be permanent** (`boot_torn`). Both files exist, one is torn or they do not match,
   no later start can load them, and none replaces them. What holds, and is proved, is that an SKI once
   announced is never lost this way.
4. **A removed limit can come back** (`eg_removed`). `SetEGConsumptionTarget` looks at a snapshot that says a limit is active and
   commands the new value as active, although the limit was removed in between.

The models contain some more departures from what a comment or the documentation says, which no run is about:

* A client can be left with an older state than the latest, but only with one of the same burst, until the next
  update: `store.go:158-161` calls the drop safe because a newer snapshot follows. `BurstBounded` and `Watch` state, and a
  proof shows, what does hold; the integration's polls repair it (`integration_sync`).
* A limit the inverter rejects stays recorded as active (`control.go:165-175` only logs), while `store.go:94-96` says that
  *Active* tracks whether the command is applied. Of two overlapping commands the one sent first may be
  recorded last. `LoneRequestFulfilled` is therefore about requests that overlap no other and meet no mishap.
* `syncConnections` copies the map under the manager's lock and writes the Store after releasing it (`manager.go:239-254`). Of two
  that overlap, the one with the older copy may write last, and then a remote that is gone is shown connected, or one that is
  there disconnected, until the next change; `manager.go:238` says that it writes the current map.
  `StaleOnlyIfOvertaken` of `Connections` says exactly when that happens and what holds all the same, and `NoGhostConnection`
  what it means for what is shown.
* The inverter's entity that commands go to, and the monitored values, are those of whatever device has the use case
  (`control.go:23-27`, `usecases.go:237-257`); `DOCS.md:72` calls `inverter_ski` the target. What a device that left reported
  stays shown.
* A refresh that began before a change may write the Store after one that read it (`usecases.go:99-118`), and a request that
  fails at its second value leaves the first one unread (`control.go:184-196`). `StaleOnlyIfOvertaken` of
  `ControllableSystem` names exactly these two; the grid box's heartbeats repair both (`HeartbeatsHeal`).
* Of limits that wait together the last approved is in force, not the last written (`usecases.go:79-84`).
* Trust that `auto_accept_trust` gave is gone after the restart that turns the option off (`manager.go:86, 115-123`), which
  `DOCS.md:40-41` advises as the way to pair.
* Host names that differ only in what `sanitise` drops or cuts yield the same default serial (`config.go:115-123`).
* A token with a plus sign works in the header and not in the query of the WebSocket (`api.py:153`).

## 5. Proofs

Each proof module has an inductive invariant, in most `IInv`, a lemma per action, a lemma for `[Next]_vars`, and
one theorem per property. The proofs use the named assumptions on the constants and nothing else;
no bound is used as a bound. Every invariant the passing runs check is stated by a theorem.

| Theorem | For all | Argument |
|---|---|---|
| `StoreProofs!BurstReachesEveryone` | writers, clients, updates | every snapshot under way is from the burst (`FreshInv`), what refills a drained slot is too (`RefillInv`), so a client without news is still on some writer's list (`ReachedInv`) |
| `StoreProofs!RefinesWatch` | the same | a client that has received something of a burst finds nothing from before it in its channel (`OrderInv`), since all that writers still hold is of the present burst (`FreshInv`, `BasesInv`); each step then maps to one of `Watch` or to a stutter |
| `StartupProofs!OneIdentity`, `AnnouncedSurvives` | certificates, kills, failures | nothing was announced while a certificate is being saved, for an announced one would have been loaded (`SavingInv`); past loading, the process holds what is on disk (`HeldInv`) |
| `StartupProofs!ImplementsBoot`, `IdentityKept` | options, requests | every step of `Startup` is one of `Boot` or leaves its state alone, so that `Boot`'s theorems carry over |
| `StartupProofs!TextsMeant` | texts, lengths of an SKI | the positions a text keeps are numbered by their rank (`RankNumbers`), trimming moves them all by the same distance (`AtShifts`), so that the normal form of a text with nothing else than digits and separators between its ends is its digits (`NormalIsDigits`); and a valid normal form leaves room for nothing else |
| `StartupProofs!StartsOnSensibleOptions`, `RegistersDigits`, `LastRequestDecides` | options, requests, ports | a process holds the normal form of the options last read (`OutcomeInv`), no request is answered before it serves (`AnswersInv`), and an accepted one changes what is registered for its digits only (`PairAnswer`) |
| `ApiProofs!EndsInOrder` | requests, WebSockets, tokens | what the main goroutine has passed is done, and from the end of the draining nothing is in progress unless the time is over (`EndInv`) |
| `ApiProofs!AnswersHold` | the same | an operation is the last act of its handler, and an answer too (`AnswerInv`) |
| `MonitoringProofs!SettledShown`, `NothingOlder` | devices, values, callbacks | who has read holds the lock, so that what it read is not older than what is shown; a value not yet shown still has an event or a callback on its way |
| `ConnectionsProofs!OnlyGranted` | remotes, operators, callbacks | nothing held or under way for an ungranted remote can lead to trust (`TrustInv`) |
| `ConnectionsProofs!NoGhost` | the same | the last word on the connection of a remote without one, in its entry or among its calls still to come, is that it is gone (`GhostInv`); the Store shows the map, if its last copy is the newest (`MapInv`) |
| `ConnectionsProofs!ChangesArePublished` | the same | a copy taken at the present number is the map, and until one is written a goroutine has still to copy it or to write it (`Fresh`, `MapInv`); a goroutine's copy is newer than the burst's base, because it changed the map within the burst before (`BurstInv`) |
| `EnergyGuardProofs!UnaskedStaysInactive` | entities, requests, values, both directions | unless wanted, no limit is active anywhere from a request to the inverter and back (`UnaskedInv`); a target is re-applied only if the Store shows one |
| `EnergyGuardProofs!LoneFulfilled` | entities, values, callbacks | until the only request is on the wire nothing moves (`UnsentInv`); from there its limit is all that does, to the inverter, back, and into callbacks, so that the record and the reports write the same in either order (`SentInv`) |
| `EnergyGuardProofs!SignsKept` | values of either sign | a written limit is made by `LimitOf`, a recorded one by `Recorded` |
| `ControllableSystemProofs!ChangesAreRead` | callbacks, requests, changes | a refresh that began after the last change reads what the library holds (`CopyInv`); a change that no refresh has brought to the Store has one running that began after it, an event or a request that will begin one, or a request that may still fail (`DueInv`) |
| `ControllableSystemProofs!RecentLimitInForce` | the same | all limits that wait are of the last run, and when none does one of that run was put in force, unless one lapsed (`LimitInv`) |
| `ControllableSystemProofs!NothingStranded` | the same | inductive with the types: a callback that takes the writes of its kind has yet to approve them, and a new write raises a call of its kind |
| `IntegrationProofs!ListensExactlyWhileLoaded`, `TypeCorrect` | changes, lost messages | without a coordinator nothing is asked, and a setup has no poll but its first (`PollInv`), so that what ends one is that poll; an answered poll has brought a state (`AnswerInv`) |
| `TypeCorrect` in each, `FilesKeepTypes` in `StartupProofs` | the same | the type invariant is a conjunct of `IInv`; in `Connections` and `EnergyGuard` it also says that only known remotes are connected, and that writes go to discovered entities |

The type invariants alone are not inductive: that a writer's target is a channel of its list, or that a write
has an entity, needs the invariants of the goroutines' places.

Two techniques recur. Sets and operators that the provers would expand where they should not, such as the positions
up to one (`UpTo`), get a name. And facts about sequences are stated about sets of positions, for which the library's theorems
on cardinalities take the place of an induction.

**Model-checked only:** what is liveness, which the prover does not handle under fairness: `UpdateReturns`, the second half of
`ImplementsWatch`, `WritesAnswered`, `HeartbeatsHeal`, `ShutdownEnds`, `GoneIsReleased` and the three of `Integration`. `Sanitise` and the
default serial occur in no property.

## 6. Not modelled

* The services of the integration (`__init__.py:74-125`): their registration over several entries, and calls that go
  through the bridges one by one and stop at the first error.
* Logging, the config flow and packaging: no state, a form, and build files.
* Durations (`DurationS`, `ExpiresAt`) and `HeartbeatOK`: they depend on the time of day and on what the
  library returns for a running duration. `DurationS` is shared by the two directions of the Energy Guard,
  which are modelled one at a time.
* The texts of `publishServiceInfo`, and names, brands and models of remotes.
* Options that neither `normalise` nor `validate` looks at, and the log level.
* Which field an entity shows.

## 7. Plan

Done, in this order, the most important behaviour first: `Store` with `Watch` and its proofs; `Connections`, `Boot`,
`EnergyGuard`, `ControllableSystem`, each with proofs; `Integration`; `Monitoring` with proofs; `Options`, composed with
`Boot` into `Startup`; `Api` with proofs; restarts in `Connections`; the refinement of `Watch`, `LoneRequestFulfilled`,
`Integration` and all texts proved.

Next, the model:

1. Both directions of the Energy Guard at once, with the `egEntity` and `DurationS` they share, together with
   `Connections`: the target entity against the connection of its device.
2. The services of the integration over several entries.

Next, the proofs: the safety part of what the liveness properties rest on, where it says something of its own, such as that a
WebSocket's client never is without one of its two goroutines in `Api`; and theorems about the additions above.
