# Verification of RASTREAMENTO-21-GO

TLA+ models of the vehicle-tracking platform in `src/`, TLC runs that check them
on small instances, and TLAPS proofs of the most important results for every
instance. `PROJECT.json` lists the components, runs, findings, hazards and
theorems, and says for each definition which lines of the code it stands for.

## 1. The system

A company installs GPS trackers in its associates' cars. A NestJS backend keeps
stock, devices and vehicles in Postgres (Prisma), talks to a Traccar server over
HTTP and one WebSocket, to the SGA/Hinova registry over HTTP, and serves a
Next.js panel, a technicians' web app and the associates' mobile app. Each
process is single-threaded: handlers interleave only at `await`s. Several
requests, timers and socket messages are in flight at any time, and nothing but
Postgres constraints and transactions orders what they do to the tables.

| Component | State it keeps | Operations | Talks to | What is hard | What makes it correct | Model |
|---|---|---|---|---|---|---|
| **Tracker lifecycle** (`stock`, `devices`, `vehicles`, `traccar-reconcile`) | `stock_items`, `devices`, `vehicles`; ids in Traccar | associate, uninstall, remove, assign, unassign, import, create, link, unlink, reconcile | Traccar, SGA, gateway | checks before awaits, Traccar failing after the commit, four rows for one tracker | one tracker per car, stock agrees with the field, map shows the tracker that is in the car | `TrackerLifecycle` implements `TrackerCustody` |
| **Real-time gateway** (`traccar.gateway`, `device-registry`) | maps tracker → tenant, car, associate; debounce windows; batches of one second | refresh, notice, two-minute timer, messages in, batches out | Postgres, Traccar's socket, panels, apps | overlapping queries, coalesced notices, lost links, restart | maps follow the table, a batch reaches the room | `DeviceMapping`, `LivePositions` |
| **Panel** (`tracking-context`, `tracking-polling`, `use-traccar-socket`) | list, positions, ignition, loads in flight, throttle timer, hidden flag | load, poll, event, batch, hide, show, reconnect | backend by HTTP and socket | answers out of order, two roads for one position, lost events, hidden tab | the list ends up being the table, a car is never left at an older place | `VehicleList`, `LivePositions` |
| **Shared cache** (`common/cache`) | entries, builds in flight | obter, invalidar, limpar, eviction, time limit | its callers' queries | build overtaken by an invalidation, late answer, failure | no stale answer, every request ends | `SharedCache` |
| **Alerts** (`alerts`) | per-car flags in memory, `alerts` | processPosition, cron rounds, assume, resolve, reopen | gateway, push | flags read before and set after awaits, overlapping rounds, refused writes | one alert per episode, none lost | `OfflineAlerts`, `CutAlerts` |
| **Pendings and routes** (`installation-pendings`, `routes`) | queue, routes, stops, the flag that a sync runs | sync, create, cancel, mark done | lifecycle, SGA | an install between the count and the write, who closes the route | an installed car is not visited, what is finished stays so | `FieldQueue` |
| **Mirror of the SGA** (`sga-mirror`) | `sga_vehicles`, scan, lock | scan, sweep, alignment of types | Hinova | pages of a list that changes, empty pages, failures, a sync refused before it starts a scan | the sweep takes only what left, the mirror comes right | `SgaMirror` |
| **Boletos and push** | bills, PDFs, phones | robot's sync, first visit, push | CRM, Expo | two syncs at once, death between push and stamp, a push taken and not confirmed | told once for each cause, and told | `BoletoSync` |
| **Location shares, ownership transfer** | links, owner of the car | create, revoke, expire, public page, transfer | public page | count and create apart, page across a sale | bounded, answers for the owner | `LocationShares` |
| **BLE TAGs, Find My worker** | tags, sightings | plan, fetch, post, store | Apple | any order, repeats, late posts | stored once, last contact is the latest | `TagSightings` |
| **Reverse geocoding** | addresses, queue, gate, penalties | resolve, queue, fall back | own geocoder, Nominatim | many waiters at one gate, 429 | an interval apart, queue served | `ReverseGeocode` |
| Position history, Traccar client | history, session | persist, HTTP calls | Traccar | replays, expired session | no bad fix in the history | only the gate and the fleet's list, in `LivePositions` |
| Bulk link, stock items unknown to Traccar | spreadsheets, stock | one associate per line, adoption | lifecycle, cache | compensation of a failed line | no item lost | – |
| Associate and panel authentication | one-time codes, sessions | request, verify, reset | e-mail, WhatsApp | attempts, expiry | a code works once | – |
| Appointments, SMS commands, history requests | orders, commands, requests | create, confirm, retry | outside services | retries | final states are final | – |
| Financial, consultants, geofences, maintenance, scoring, tenants, users, audit, chips, technicians, assistant, e-mail, health, mobile screens, deployment | rows | single-row updates, reads | – | little | tenant filter on every query | – |

Who calls whom, for the modelled part: the stock and device endpoints commit in
Postgres, then call Traccar (install), take the car out of the queue and out of the
routes, and tell `DeviceRegistryService`, which tells the gateway. The gateway
refreshes its maps and rings `vehicles:changed`; the panel reloads its list. The
gateway hands each approved message to the batches, to the alerts and to the history.
The pending sync reads the actives of the SGA, writes its queue, and then hands them
to the mirror. The stock
map, the fleet of the panel and the TAG lists are built through `CacheCompartilhado`.

## 2. Modules

| Module | Instance | What it is |
|---|---|---|
| `TrackerCustody` | | abstract promise: a tracker is in hand or in one car, a car holds one tracker, no direct move from car to car |
| `TrackerLifecycle` | `MCTrackerLifecycle` | the endpoints that move a tracker, the Traccar calls and the reconciliation |
| `DeviceMapping`, `VehicleList`, `SharedCache`, `LivePositions` | `MCPanel` | what stands between the tables, Traccar and what a panel shows |
| `FieldQueue` | `MCFieldQueue` | the queue of cars that wait for a tracker and the technicians' routes |
| `OfflineAlerts`, `CutAlerts` | `MCAlerts` | silent trackers; power cuts and the operators |
| `BoletoSync`, `LocationShares`, `TagSightings` | `MCAssociates` | what an associate is told and shown |
| `SgaMirror`, `ReverseGeocode` | `MCOutside` | the two services outside that are read slowly |
| `TrackerLifecycleProofs`, `FieldQueueProofs`, `VehicleListProofs`, `LivePositionsProofs` | | the theorems of one module |
| `PanelProofs`, `AlertsProofs`, `AssociatesProofs`, `OutsideProofs` | | the theorems of the modules an `MC` module puts together, and of the composition |

An `MC` module of several components chooses in its initial state which one the
behaviour is about (`memory`, `watched`, `screen`, `service`) and freezes the others:
they share no state, and a product of them would only multiply the states. A property
that names one of them in an implication is vacuous in the others' behaviours only.

### TrackerLifecycle
* `item`, `device`, `vehicle` are the rows of the three tables, with the columns
  the properties tell apart. An IMEI names the tracker, its stock item, its
  Device row and its Traccar device, because the code looks all four up by it. A
  plate stands for the car and the owner the SGA returns for it. `None` is SQL
  NULL; a `unique_id` that is no IMEI (`RETIRADO-<id>`, `HINOVA-<code>`) is
  `None`; `plate = None` is a row not written yet.
* `job[p]` is a request between two awaits: where it stands and what it has read
  and carries. So a value read before an await is used as it was read.
* A Prisma `$transaction` is one action. The exception is `associate`: its search
  for the car (`AssociateFind`) is an action before its commit, because under
  READ COMMITTED another request may commit in between; after that the row lock
  on the car and the UNIQUE indexes order the rest. The write of `linkVehicle`,
  which takes no transaction, is not interleaved between the two reads of the
  commit.
* `associate` raises when the car has another tracker or the tracker another
  car, or when an index refuses the row: `AssociateAbort`. The SGA lookup, the
  contact and the tenant check before it change nothing; a lookup that fails is
  a request that never began.
* `sweep` is the list the reconciliation has read and not worked through.
* One company. Not in the module: `vehicles.update`, block and unblock, chips,
  TAG items, the compensation of the bulk link, the transfer of ownership.

### DeviceMapping
* `owner` is what the query of `refreshDeviceMapping` would find; `mapping` is the
  three maps, which are cleared and filled together. `window` and `waiting` are
  `janelaRefreshAberta` and `refreshAgendado`.
* A query is sent, reads, and is answered or fails, each in a step of its own;
  several can be in flight. `untold` and `unread` follow a change from its commit
  to its notice and to the first query that reads it; they are not in the code.
* `NoticeNeverMade` is an install whose lookup of the pending installation, after
  the commit, raises: the notice below it is not reached.

### VehicleList
* `version` numbers the changes of the table; a load carries the version it read,
  and `late` says that a load that started after it is already on the screen,
  which is what `criarSequencia` compares sequence numbers for.
* Time is abstracted: a poll may be due at any moment (never two at once), the
  throttle timer fires at some point. A load of several pages is one read. One
  panel, of a role other than CLIENT (which joins no room).

### SharedCache
* An entry may expire at any moment, and any other entry may be the victim of the
  cap: the age of entries is abstracted.
* `data`, `owed` and `known` describe the data behind the cache, which the code
  does not see: the versions, the keys changed and not invalidated yet, and the
  version at the last invalidation. `reader[r].since` is `known` when `r` asked.
* A build that exceeded its time goes on (`lost`), as `comTimeout` cancels nothing.

### LivePositions
* One car. A message is the number Traccar gave it (its `serverTime`) and its kind:
  what the quality gate and `acumularAtributos` make of it. `batch` and `keys` are
  `lotePorTenant` and `loteAtributosPorTenant`; the timer of one second sends them as
  two frames, which the panel's coalescer joins in `lot` before `handleLote` writes
  them.
* `load` is the first load, which replaces the map, and the poll, which
  `mesclarPosicoes` merges. An answer is a snapshot that may be long on its way; the
  list the backend shares for two seconds makes it no older than that.
* `lost` collects, for the properties, the messages that the socket will not bring any
  more: said while the link to Traccar was down (a new link repeats the current one),
  sent to an empty room, in a frame when the socket broke, in memory when the backend
  restarted, or wiped from the map by a first load.
* The default build, which polls every 8 s, with the tab visible.

### FieldQueue
* A car is its plate. `sync` carries what the sync has read between its statements;
  `build[r]` is `createRoute` before the route is written, with its barriers; `tail[c]`
  is what an installation does after its commit: the queue, the stops, the count of
  what is left and the closing of the route.
* A statement may fail, a scan of the SGA may come back short, the backend may restart;
  the flag that a sync runs is in memory.
* `slipped`, `missed`, `adrift` and `overtaken` name, for the properties, the windows
  the code leaves open, car by car and route by route, so that everything outside them
  is checked.

### OfflineAlerts and CutAlerts
* A round takes Traccar's list, reads the alerts, and writes one alert after another,
  with the next round possibly under way. Both ways of keeping alerts apart are checked
  (`byEpisode`, fixed at the start as the environment variable is). Time is a clock.
* A reading of a cut passes its flag, the lookup of a recent alert, the write, and the
  flag again, each at an await; the operators' requests read the alert and write it
  without repeating the check.

### BoletoSync, LocationShares, TagSightings
* A sync goes bill by bill: upsert, look for the PDF, store it, note its size, push,
  stamp; then it reads what is dead, deletes the PDFs, deletes the rows and stamps the
  visit. Two may be in flight, and an update of a row the other deleted throws.
* A push has three ends: taken and confirmed, taken with an answer that is late, lost or
  unreadable (`SyncMissesAnswer`: the sync sees a failure), or not taken. `delivered` and
  `excused` are not in the code: the bills a phone was told of, and those of them with a
  cause to be told of again that has arisen since.
* Creating a link, answering the public page and changing the owner each read the car,
  wait, and write or answer. Expiry is a step the clock may take at any time.
* The worker posts what Apple holds one by one; a post that exceeds its 30 s goes on in
  the backend while the worker posts the next. A sighting is its time.

### SgaMirror and ReverseGeocode
* The SGA lists the cars of a situation by code and is read at offsets, one page per
  statement, while cars change situation. `unseen` follows the cars a page may have
  stepped over.
* The scan is started by the sync of the pendings, or once after the start of the backend.
  The sync reads the actives (`ReadsActives`), and by then knows which of them wait for a
  tracker (`asked`, of whose contracts and associates `wanted` stands) and which came on
  two pages (`twice`). Then it writes its queue and hands the list over (`HandsOver`), or
  stops without any fault (`Refuses`): the queue would fall by more than 70%, or a car
  would have two lines, which the unique index refuses. Either of the two lists may be cut
  short by an empty page, and any statement may fail. `FieldQueue` has the queue itself.
* Not in it: a line the table would refuse for its value (an amount that is no number)
  keeps the sync back in the same way. The guard counts lines; a car that came twice is
  counted once, as its second line stops the sync anyway.
* A caller of the geocoder looks in the cache, tries the company's own service, and
  waits for the gate's slot. Ticks stand for `INTERVALO_MS` and the penalties; a timer
  of the gate fires when it is due. The loop that starts the worker up to its first
  wait is a step of its own. Restarts, which forget slot and penalties, are not
  modelled.

## 3. Runs

| Run | Result | States | What it asks |
|---|---|---|---|
| `lifecycle_core` | holds | 387k | two concurrent requests plus the reconciliation: types, `FieldMatchesStock`, implementation of `TrackerCustody` |
| `lifecycle_sequential` | holds | 96k | one request at a time, up to eight: no car drawn from a tracker that left it, no car's record turned into another's, no reservation of an installed tracker |
| `lifecycle_settled` | holds | 35k | all endpoints, Traccar answering: the car is drawn from its tracker |
| `lifecycle_rescue` | holds | 41k | outages during installs: the tracker gets its Traccar id in the end |
| `lifecycle_number_kept` | violated | | finding 1 |
| `lifecycle_deleted_row` | violated | | finding 2 |
| `lifecycle_late_reconcile` | violated | | finding 3 |
| `panel` | holds | 299k | no announced change is dropped (`ToldIsComing`); a quiet panel shows the table (`SettledListIsCurrent`) and no older place than the socket could bring (`SettledPanelIsNewest`); no stale answer of the cache (`AnswerIsNotStale`), every request ends; the three memories come right in the end (`MemoriesConverge`) |
| `field_queue` | holds | 781k | an installed car leaves the queue and is not visited, the last stop closes its route, what is finished stays so, the stop of a dead contract ends |
| `alerts` | holds | 735k | alerts of one car stay apart and every silence is told of (`AlertsStayApart`, `SilentIsTold`); a raised flag means a told cut, no second alarm |
| `associates` | holds | 556k | `ToldOnce`, `PdfIsOffered`, `VisitShowsTheList`, `BillIsTold`; `ActiveLinksAreBounded`, `AnswersForTheOwner`; `LatestIsKept`, `SightingsArrive` |
| `outside` | holds | 307k | `SweepSparesTheListed`, `UndisturbedScanIsExact`, `MirrorComesRight`; `NominatimIsSpared`, `QueueIsServed` |

The properties of one run are those that hold under the same endpoints. Where a
property of the lifecycle fails with more concurrency or with more endpoints, the
failing case is a run of its own (a finding) and the passing run says how far it does
hold: `PlottedWhereInstalled` holds one request at a time and fails with the
reconciliation in flight; `CarKeepsItsRecord` holds without unlink-vehicle and fails
with it. In the other modules an exception is part of the property, named by a history
variable and no wider than the window it stands for.

### Bounds
* Lifecycle: two trackers, two cars, two plates, one or two technicians: a
  conflict needs two of a kind, and no operation touches more than two trackers
  or two cars (the one it found and the deleted one that holds the number). There
  are as many rows as plates, so an install never lacks one. `MaxStarts` (3 to 8)
  lets a tracker go through install, retrieval and install with a request to
  spare; two requests in flight are the smallest race, and five in all are enough
  for two installs and two retrievals to cross. `MaxOutages` is 0 to 2.
* `panel`. Owner maps: one tracker (trackers do not interact: a query reads them all),
  two owners, two queries in flight, four changes, one failure, one restart. List: two
  changes, three loads (the first, a poll and an event), one fault, one hidden tab.
  Cache: two keys over a cap of one entry, so that eviction happens; two readers and
  two builds, so that a late build meets a new one; `MaxFailures` is not less than
  `MaxReads`, so the bound never forbids a build its time limit. Positions: two
  messages, the fewest of which one is older, of every kind, and one mishap; the safety
  half was also checked once with three messages and two mishaps (9.3 million states).
* `field_queue`: two cars on one route, so that one stop is the last and one is not;
  one change of what the SGA lists, two installations or retrievals, one fault.
* `alerts`: one car (a round treats cars one by one), two overlapping rounds, a clock up
  to 7 over a threshold and a window of 2: enough for two silences, each with its alert;
  two readings, two operators and two alerts; one refused write.
* `associates`: one bill (the steps of a sync are per bill; the deletions are compared
  with the whole list) that the CRM lists, drops and lists again, two syncs, two faults;
  a limit of one active link with two creators, two owners and two sales; two sightings,
  two posts, two turns of what Apple knows and two troubles.
* `outside`: two cars, two situations, pages of one car, so that a car that leaves moves
  the other over a page's edge (a queue of one line that empties is the fall of more than
  70%); two changes from outside (`MaxMoves` counts situations, contracts, trackers and
  types edited by hand together), one fault; at first all are active and the one that is
  no motorcycle waits for a tracker. Two points, one
  screen, one batch and the worker at the gate; interval and penalty of two ticks, a
  queue of one, two refusals.
* Symmetry is used only where no liveness is checked. `CHECK_DEADLOCK FALSE` is set
  wherever bounded requests come to an end; `field_queue`, whose sync comes back for
  ever, is checked for deadlock.

### Fairness
* A request or handler that has begun runs on: the event loop resumes it and Prisma
  answers or throws. The number of failures is bounded.
* `@Interval`, `@Cron` and `setTimeout` timers keep firing: reconciliation, owner maps,
  batches, polls, the sync of the queue, the robot of the bills, the worker of the TAGs
  (every half hour) and the ticks of the geocoder.
* An outage ends; the gateway's link and the panel's socket come back, as both are
  tried again for ever; the operator looks at the tab again.
* A build of the cache ends, fails or exceeds its time: `comTimeout` guarantees it. A
  call to a geocoder is answered or exceeds its own limit.
* No new request of a person is assumed ever to be made, and the first load of a panel
  may never be answered.

`ToldIsComing` is stated while nothing has failed: a query that fails is repeated
only by the two-minute timer, which `MappingConverges` covers. `MirrorComesRight` says
that the mirror and the types come right in the end and for good, or that from some point
on one or the other of two guards always holds (`KeptBack`): the SGA lists less than 30% of what the
mirror has, or fewer of its cars wait for a tracker than 30% of the queue. Neither is a
fault, so no fairness would end them; without either exception the property fails.

## 4. Findings

Each is a run whose counterexample is a short legal history.

1. **unlink-vehicle leaves the car's number** (`devices.service.ts:416`). The later
   uninstall skips the release, and the next install rewrites the old car's record
   with another plate, which lines 283-287 of the same file set out to prevent.
2. **A deleted device installed again stays deleted** (`stock.service.ts:1254`). The
   car is occupied by a row that the retrieval cannot find.
3. **The reconciliation writes a car it read before calling Traccar**
   (`traccar-reconcile.service.ts:83`). A retrieval in between leaves the empty car
   drawn from the retrieved tracker.

Also seen while modelling. They have no run of their own; where a property holds only
outside such a case, its statement says so.

* A reinstall during an outage is never reconciled (`traccar-reconcile.service.ts:50`):
  the device kept its Traccar id, so it is not looked for, and the car has none.
* Two refreshes of the owner maps are not ordered (`traccar.gateway.ts:263`): the older
  answer applied last undoes a change for up to two minutes. A transfer of ownership
  does not tell the gateway at all (`ownership-transfer.service.ts:171`).
* Two installs of one tracker that cross the availability check
  (`stock.service.ts:1003`) can overwrite a car's record; `assign` can reserve an item
  installed after its check (`stock.service.ts:1596`); an error in the lookup after the
  commit (`stock.service.ts:1395`) answers the technician with an error although the
  tracker is installed.
* A route whose last barrier has read (`routes.service.ts:165-166`) is written with a
  stop for a car installed in between, and that installation marks no stop.
* A car that changes situation while the SGA is read moves another one over a page's
  edge, and the sweep takes that one away until the next scan, though
  `sga-mirror.service.ts:259-260` says only those who left the SGA go.
* `push.service.ts:75` says one notice per bill for ever, but a push that Expo took and
  whose answer comes after 15 s, is lost or cannot be read (lines 126-145) is not stamped,
  and the next round sends it again, as often as that happens.
* A queue that has legitimately fallen by more than 70% (many trackers fitted, contracts
  changed) is refused by every sync (`installation-pendings.service.ts:455-462`), which
  throws before line 514: until it grows again the mirror, which has nothing to do with
  the guard, is not scanned either. So does a car that two pages brought, until the next
  sync.
* Callers already at the gate go on calling Nominatim during a penalty, whose comment
  says calls stop.
* TAGs: a post that exceeded its 30 s overlaps the next one, and the last contact can go
  back, which `ble-tags.service.ts:911-913` excludes; a request that dies between the
  creation and the update leaves the last contact behind for good, because the retry
  finds the row and returns early (line 889).
* `position-quality.ts:12-13` says a rejected position never reaches the map, but the
  answers of `/traccar/positions` pass no gate (the plan of 2026-10-13 in
  `docs/superpowers/plans` notes it), so a poll shows it. The first load replaces
  positions the socket brought meanwhile, until the next poll; a merge that ties takes
  the answer's position and with it drops the attributes a later packet had added.

## 5. Proofs

Proved for every value of the constants: any fleet, number of requests, queries,
readers, rounds, operators, links, callers, and any bound. Only named assumptions on
the constants are used, such as `NoneAssumption`, `SlotsAssumption` or
`TimesAssumption`; TLC evaluates them in the runs.

* `TrackerLifecycleProofs`. `TypeTheorem`: `TypeOK` is inductive; one step per
  endpoint. `CustodyTheorem`: without link-vehicle, `TrackerLifecycle` implements
  `TrackerCustody`. The invariant `CustodyInv` adds that no request stands at the
  device write of link-vehicle and that a tracker without a Device row is in no car
  (a created row would otherwise jump to its car). Every step is then shown to move
  at most one tracker, out of its car or from hand into a free one (`OneMove`). The
  freedom of the car comes from `CarFree` at the commit, which the transaction and the
  UNIQUE index provide; a check made before an await is not used anywhere. With
  link-vehicle the promise is false: it moves a tracker directly. `FieldTheorem`: over
  the endpoints that move the stock item with the device (all but create-device, link
  and unlink), `FieldMatchesStock`; `FieldInv` adds that no request stands inside one of
  the three others.

  With one request at a time: `ShelfInv` joins that what a request noted before an await
  is still so (`NoteHolds`), that a car holds the number of the tracker in it or of none
  (`NumberGivenBack`), `PlottedWhereInstalled` and `ReservedOnShelf`. None of them is
  inductive alone: the retrieval clears the car it read, so the note has to be true, and
  an install finds a car by a number, so the number has to be given back. From it
  `PlottedTheorem`, `ReservedTheorem` and the action property `RecordTheorem`, over the
  stock, uninstall and vehicle removal endpoints. `SettledTheorem` is over every endpoint
  but the reconciliation, with Traccar answering: `SettledInv` says that a tracker known
  to Traccar is the one its car is drawn from, or the request that put it there is about
  to plot it (`DrawnInv`), which needs that a car holds one tracker and is written.
  The hypotheses are those under which the code keeps the promise: a late reconciliation
  breaks `PlottedWhereInstalled` and unlink-vehicle `CarKeepsItsRecord` (findings 3 and
  1); a retrieval that crosses the install's last write breaks the first, a second install
  that crosses the install's commit the second, and an `assign` that crosses it
  `ReservedOnShelf`; a reinstall during an outage breaks `SettledIsPlotted` (section 4).
* `PanelProofs`, owner maps. `MapTypeOK /\ ToldIsComing` is inductive. The case that matters is
  `WindowEnds`: a refresh that is due is sent, in the step in which it stops being due.
* `PanelProofs`, cache. `FreshInv` is the conjunction of `TypeOK`, `KnownIsOld` (an
  invalidation is not ahead of the data), `FlyingReadsEnough` (the build registered for
  a key has read, or will read, at least what the last invalidation knew),
  `WaitersAreOwed` (so has the build a request waits for, with respect to when it
  asked), `KeptIsNotStale` and `AnswerIsNotStale`. Neither of the last two is inductive
  alone: an entry is fresh because the build that made it was registered, and
  `invalidar` unregisters.
* `VehicleListProofs`. A screen that is not the table has news on its way: a sign of the
  change (an event, a timer, a reload that is due) or a load that brings the table as it
  is. An answer makes the loads sent before it late, so this is inductive only with the
  place of the load: behind every old answer that would still be shown there is a sign or
  a newer load (`NewsInv`). `SettledListTheorem` follows.
* `LivePositionsProofs`. `BroughtInv`: a message that was not lost is at one of the
  stages between the gateway and the map, or what is shown is as new. `handleLote` writes
  its positions over a newer place, so this needs `OrderInv`: what was said after a
  position on its way is at the same stage or an earlier one, and comes after it.
  `SettledPanelTheorem` follows.
* `FieldQueueProofs`. `QueueInv` adds that the sync, between its filter and its write,
  holds an installed car only if it was installed meanwhile; `VisitInv` and `CloseInv`
  that a route about to be written has stops, and leads to an installed car only if the
  installation has yet to mark its stops or the last barrier missed it; `Unwritten` that
  a route has neither status nor stops before it is written. `HoldInv` says that
  whoever holds a cancelled route is known to, and (`SyncFacts`) that the sync is about
  to cancel a done stop only if its car crossed it. `QueueTheorem`, `VisitTheorem`,
  `CloseTheorem` and the action property `FinishedTheorem` follow; `SpareTheorem`, that
  no sync takes more than 70% of the queue away, is asked by no run.
* `AlertsProofs`, silence. `RoundInv` says of each car a round is about to tell of that it
  was silent when the round looked and that no alert of it was recent, unless it was
  told of since; `TellInv` (`KnownInv` and `DoneInv`) that the last alert was about the
  silence that goes on, and that each silent car a round has passed by was told of. From
  them `ApartTheorem` and `ToldTheorem`.
* `AlertsProofs`, cuts. `FlagInv`: a reading about to raise the flag follows an alert, but for
  the crossed reading and the refused write that the history variables name. `LookInv`:
  a reading about to write an alert has seen no recent unresolved one, and none came
  since unless noted. `HandInv`: an operator's request holds alerts its step is allowed
  on, unless another had them in hand. `FlagTheorem`, `NoSecondTheorem` and
  `ClosedTheorem` (proved and not run) follow.
* `AssociatesProofs`, bills. A sync knows of the others only what the rows say, so the
  invariant is about what a sync holds. `HandInv`: the line in hand is of a row that is
  there, unless noted as gone. `ToldInv`: a bill the phone was told of and which nothing
  excuses says so in its row or is about to, and nobody else holds it as one not told of;
  so `ToldOnceTheorem`, the action property that a bill is pushed again only for a cause
  that has arisen since the last push: an answer missed, a sync dead before the stamp,
  another that had the bill in hand, a deleted row. `AloneInv`, `SweptInv` and
  `ListInv` are about a sync that ran alone: what it has gone through of its list is
  there, and what it deletes is not. `PdfTheorem` and the action property `VisitTheorem`
  follow.
* `AssociatesProofs`, links. `BoundTheorem`: the active links and the requests that have
  counted stay below the limit plus the number of requests, which is inductive with the
  types: counting and creating apart costs one link for each request but one.
  `AnswerTheorem`, the action property of the public page, rests on `WaitingIsTrue`: a
  page that waits has in hand what is true, unless something turned meanwhile.
* `AssociatesProofs`, sightings. `StoredInv` and `LoneInv` say what a post knows between
  its reads and its writes while no two meet: what it read of the TAG is so, and a
  sighting newer than the last contact is in the hands of the post that stored it.
  `LatestTheorem` follows.
* `OutsideProofs`, mirror. All is said of the cars that nothing disturbed during the scan.
  `ReadInv` and `ScanInv`: such a car was read, or written, as it is, or it comes on a
  page ahead; once the reading is over the list is the SGA's, and it stays so through the
  wait until the queue is written and the list is handed over. The step that matters is the end of a situation: a page not full means that
  no listed car lies beyond it, which is counted (`Before`), for any page size. The sweep
  and the exact scan (`SweepTheorem`, `ExactTheorem`) are action properties.
* `OutsideProofs`, geocoder. `GeoInv` joins the types, `GateInv` (two waiters at the gate
  hold slots an interval apart, the next slot is behind them all, and the first is an
  interval after the last call) and `PenaltyInv`
  (who is at the gate during a penalty was there when it began). `SparedTheorem` is the
  action property about calls.

The runs check the components of an `MC` module in one specification. `PanelComposes`,
`AlertsCompose`, `AssociatesCompose` and `OutsideCompose` show that each of its behaviours
is one of every component's specification, so what is proved of a component holds of what
is checked; from them the types of the compositions (`PanelTypesTheorem` and the like).

So every invariant of a passing run is a theorem, and so is every property about single
steps. Only model-checked are the eight liveness properties, which rest on fairness and
are out of the prover's reach: `NewInstallGetsAnId`, `MemoriesConverge`,
`EveryRequestEnds`, `DeadStopEnds`, `BillIsTold`, `SightingsArrive`, `MirrorComesRight`
and `QueueIsServed`. Induction over data is out of reach too; where an argument counts
(the pages of the mirror, the frames of the socket) the proof takes the least number with
a property instead. The findings are counterexamples and have no theorem. Proved and not
run: `KeptIsNotStale`, `ClosedWithResolution`, `SyncSparesTheQueue`, and the type
invariant of the queue.

## 6. Not modelled

* Outside services (Traccar, SGA, CRM, Expo, Apple, Nominatim) are modelled as the code
  uses them: they answer, fail, or answer late. A bulk link is the install of
  `TrackerLifecycle` line by line, with a compensating delete that is not modelled.
* Authentication, appointments, SMS commands, history requests: a row is read, compared
  and written with nothing in the background acting on it. The concurrency that is left
  is two requests of one person.
* Reports, scoring, search, analytics, dashboards: computations without state.
* The isolation of tenants is a filter of every query; no model has two tenants.
* The rest of the alert detectors (speed, harsh driving, geofences, battery) decides by
  numbers of one reading; those that keep a flag have the steps of `CutAlerts`.
* The history of positions: one row per message worth it, with a unique index that makes
  a repeat harmless; which messages are worth it is a matter of times and speeds.
* Screens, formatting, e-mail, deployment, migrations.

The map covers a small part of the repository's lines, because most of them are screens,
reports and single-row endpoints of this list; `PROJECT.json` says of each component
what is in and what is left out.
