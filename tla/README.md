# Courier verification

TLA+ models of the Courier mesh, the part of this repository that runs on phones
and tablets at an event: every device seals signed scouting records into its own
store, and stores are brought together over Bluetooth, sockets or files, with no
server and no network. Around it stand the bridge that seals scanned forms, the native
Bluetooth plugins, the command line, and the ledger that fetches official results. The
models say what each promises; TLC checks them on small instances, and TLAPS proves every safety
property of the runs but the codec's for every mesh, id space, queue, roster and limit.

Paths below are relative to `src/packages/`.

## 1. The system

### Parts, state and operations

| Part | Code | State it keeps | Operations |
|---|---|---|---|
| Record store | `courier-core/src/store.ts`, `record.ts` | map from record id to envelope; ids sorted | `admit`, `currentForObservation`, `currentRecords`, `conflicts`, `envelopesFor` |
| Envelopes, keys | `courier-core/src/envelope.ts`, `keys.ts` | none | `sealEnvelope`, `openEnvelope` |
| Digests | `courier-core/src/digest.ts` | none (computed from the sorted ids) | `rangeDigest`, `childDigests`, `idsWithPrefix` |
| Anti-entropy session | `courier-core/src/anti-entropy.ts` | `#pending`, counters | `start`, `receive` |
| Session driver | `courier-transport/src/session.ts` | rounds, bytes, how it ends | `syncOverLink` |
| Links | `courier-transport/src/link.ts` | two frame queues, closed or not | `send`, `receive`, `close` |
| Bundles | `courier-transport/src/bundle.ts` | a file | `writeBundle`, `readBundle`, `peekBundle`, `mergeBundle` |
| GATT framing and link | `courier-ble/src/framing.ts`, `gatt.ts` | next frame id; partial frame | `split`, `push`; `send`, `receive`, `close` |
| Plugin transport | `courier-capacitor/src/transport.ts` | queue of 32 packets, drain flags | `write`, `#drain`, `signalReady`, `signalDisconnect`, `close` |
| Hub | `courier-capacitor/src/hub.ts` | peer -> transport, held packets | `open`, event listeners, `stop` |
| Native plugin, central | `CourierGattClient.kt`, `CourierCentral.swift` | per peer: pending promise, GATT object or `CBPeripheral`, phase, retries, timers; one write slot each, owed wake-ups | `connect`, `disconnect`, `write`, scan, stack callbacks, Bluetooth off |
| Native plugin, peripheral | `CourierGattServer.kt`, `CourierPeripheral.swift` | server and service, starts that wait, the wish to advertise, subscribed centrals and their handles | `startAdvertising`, `stopAdvertising`, `write`, stack callbacks, Bluetooth off |
| Pairing | `courier-pairing/src/` | registry of keys; a ceremony under way | request, grant, accept, compare; add, revoke |
| Command line | `courier-cli/src/` | workspace directory: `device.key`, `mesh.cbor`, `registry.cbor`, `store.courier`, `pending-admission.cbor` | one command per run |
| Form bridge | `courier-bridge/src/` | the active profiles; the suppressor's set of payloads seen in this session | `ingestScan`, `ingestBatch`, `detectProfile` |
| Ledger client | `ledger/src/http.ts` | conditional cache per URL; `#nextAllowedAt` | `get` |
| Ledger data | `ledger/src/tba.ts`, `first.ts`, `reconcile.ts` | none | normalise, reconcile; pack |
| Encodings | `courier-core/src/cbor.ts`, `matchkey.ts` | none | `encode`, `decode`, `packMatch` |
| Decode, season pack, analytics | `courier-decode`, `season-pack`, `analytics` | none after construction | pure functions |

### How they interact

The application seals a record and `admit`s it. For a peer in range it asks the
hub for a link; the hub registers a `PluginGattTransport`, awaits the native
`connect()` and wraps the transport in a `GattLink`. `syncOverLink` runs an
`AntiEntropySession` over that link: it sends `start()`, then the ends alternate,
each feeding what it receives to the session, which reads and grows the device's
store and returns the next message. A frame sent on a GattLink is split into
packets; each goes into the transport's queue, over the Capacitor bridge (an
asynchronous call with an answer), into the platform's single write slot, over the
air, back up as a `packet` event through the hub to the peer's transport, and into
the reassembler. `readyToWrite` and `disconnected` events travel the same way.

Several sessions of one device share its store. JavaScript runs one task at a
time, but everything it awaits (the bridge, the radio, the clock) interleaves
with it, and on Android the native callbacks run on binder threads beside the
plugin's own.

### What is hard

* A session computes a digest, an id list and the records it leads to in three
  handlers, while other sessions and the user grow the store under it.
* Record ids travel cut to eight bytes. Two records may share a cut id, in one
  store or split over the two.
* Transfers are chunked: the turn has to come back to whoever has chunks left.
* Links die, go silent or stall at any step, at one end first.
* Corrections and their originals arrive in any order, or not at all.
* The packet queue, the drain that runs while more is queued, the native slot and
  its owed wake-up are four places where a wake-up can be lost.
* A workspace command is several file writes, what it loads depends on the registry of the
  moment, and what it writes on the event of the moment. A ceremony spans two devices, and
  several may be under way.
* A native `connect()` is a chain of callbacks on two or three threads, raced by its
  timeout, its retry of status 133, `disconnect()` and Bluetooth going off; what was
  posted or requested for an attempt that was given up still comes.
* `startAdvertising()` waits for a service that is registered asynchronously.
* Two `get()`s of one HTTP client share a throttle and a cache across their awaits.
* The official sources fill in over time and are sometimes wrong, and number the matches of
  three levels their own way.
* `disconnected` and `packet` events carry a peer, not a connection; the answer to
  `connect()` and the events of the connection before it are in one queue.

`PROJECT.json` lists these as hazards, each at its line with its properties.

## 2. Modules

| Module | Models | Kind |
|---|---|---|
| `AntiEntropy` | the set arithmetic of one `receive()`: digests, id lists, difference, admission | operators |
| `SyncSession` | stores, links and drivers: `syncOverLink` over any mesh | state machine |
| `GrowOnlyLog` | what sync promises: stores only grow, and only by copying | abstract specification |
| `RecordStore` | which of a scout's records count, whatever the order of arrival | state machine over pure views |
| `GattFraming` | `split` and `Reassembler.push` | operators |
| `BleLink` | one direction of a Bluetooth link, from `GattLink.send` to the far reassembler | state machine |
| `FrameLink` | what such a link promises | abstract specification |
| `BleHub` | opening, closing and losing links; held packets | state machine |
| `Workspace` | the command line's files and commands, pairing, registries, bundles | state machine |
| `AndroidCentral`, `IosCentral` | the native life of a connection, from `connect()` to its end | state machines |
| `PeerConnection` | what `definitions.ts` promises of `connect()` and `disconnected` | abstract specification |
| `AndroidPeripheral`, `IosPeripheral` | advertising, the service, the centrals | state machines |
| `Advertisement` | what `definitions.ts` promises of `startAdvertising()` and `stopAdvertising()` | abstract specification |
| `ScanBridge` | scanned payloads: profile, suppressor, sealing, the store | state machine |
| `FormBridge` | `ScanBridge` under names of its own, beside the store's view | instance |
| `CborLeaf` | heads, the values that hold no others, and the order of keys, written and read | operators |
| `Cbor` | the deterministic encoder and the strict decoder: arrays and maps over `CborLeaf` | operators |
| `PoliteClient` | the ledger's HTTP client with several callers | state machine |
| `OfficialResults` | two official sources filling in, normalised and reconciled | state machine over pure functions |
| `MC*` | small instances for TLC | |
| `AntiEntropyProofs`, `SyncSessionProofs`, `WorkspaceProofs`, `RecordStoreProofs`, `LedgerProofs`, `BleLinkProofs`, `BleHubProofs`, `NativePluginProofs` | lemmas and theorems | proofs |

`MCRecordStore`, `MCLedger` and `MCNativePlugin` hold several machines that share no state. A
variable chosen at the start (`part`, `role`) says which of them moves, so one run explores
each by itself and never their product.

### `AntiEntropy` and `SyncSession`

An envelope is a record id and the key it is signed under: the id does not cover
the signature, so one record may exist in two envelopes. What the protocol sees of
an id is `Hash[id]`, its first eight bytes as nibbles; `Hash` is a parameter, so
collisions are a choice of the instance. The XOR of a range is modelled by the set
itself (distinct sets are taken to have distinct XORs; the code says the same of
its 256-bit XOR). `LEAF_THRESHOLD`, `MAX_DEPTH` and `MAX_RECORDS_PER_MESSAGE` are
the constants of the code with small values.

`Receive(p)` is the whole handler: absorb the records, compare digests of the grown store, split or list what
differs, compare lists as bags, fall back to the whole leaf when nothing explains the difference, queue what
is wanted and what the peer lacks, release one chunk, and decide between an answer, handing the turn back and
completion. The order in which queued records leave is left open (any part of the right size), which is more
than the code does and costs nothing. Three things of the code are cut: the counters of the report; the byte
limit, which appears only as `RefuseFrame` (any frame may be the one over it); and the decoder, whose refusals
are the same action.

The driver is `syncOverLink` step by step: `Send`, `SendClosed`, `SendStalled`, `SendFails` (any other error
of a send, a protocol error), `Receive`, `RefuseFrame`, `ReceiveClosed`, `Timeout`. Every exit goes through
`Finish`, as every exit of the code closes the link. `Drop` and `GoSilent` are the radio: frames in the air
may be lost with it, frames that have arrived may still be read (`receive()` drains its queue before it
reports the close). `Seal` is everything that reaches the store by another way.

### `RecordStore`

Records are immutable and ids are hashes, so a record may point only at one that
exists, and ids compare in an order unrelated to time: ids are numbers taken in any
order. `Observe` is `makeRecord` with its defaults, `Correct` is `supersede`,
`PointElsewhere` is what `validateRecord` lets through although no function of the
repository writes it: a pointer at another scout's or another robot's record. `Admit`
delivers any sealed record in any order. The views are translated operator by operator.

### `BleLink`

JavaScript is single-threaded, so a task is one step: a function from the record `js`
to the next (`Pump`, `Drain`, `Settle`, `Answered`, `Resume` compose as the code's calls
do, promise continuations included). Bridge calls, answers and events are messages. The
native slot is `writeInFlight` with `readyOwed`; on iOS (`Threads = "queue"`) a refused
write and the completion are one step each, on Android (`"binder"`) two
(`SlotTaken`/`NoteOwed`, `WriteCompleted`/`SlotFreed`). The far end is `Push`.
Packets are reduced to frame id, sequence number, final flag, and a body that says which
frame and part it really is, which the receiver cannot see. `CrossesOnce` compares two histories: the
packets the stack took (`taken`), followed by those that still wait in the transport or in `send()`, are
the packets of the frames handed to `send()` so far, each once and in order.

### `BleHub`

`transports` and `buffers` are the hub's maps; `calls` and `events` the two directions
of the bridge, each in order. Native connections are numbered so that a packet can be
traced to its connection. Whether reopening is slower than what the bridge still
carries of a peer is the constant `Calm`: the passing run assumes it (the properties
below are false without it, see the findings), the other run does not.

### `Workspace`

One workspace per device: `home` is the event in `mesh.cbor`, then the registry, the store,
the staged admission, and in `flash` the last bundle exported. A command is one step unless
its order of writes shows: `accept` writes the registry (`Accept`) and then the mesh
(`JoinMesh`), `confirm` writes the registry (`Confirm`) and then discards the staged key
(`Discard`), and `Crash` may come in between. What key agreement gives is the guard `Opens`: only
the device that asked opens a grant. The confirmation code of a grant is its place in the order of
grants, so two grants never share one. `Load`, `Unloadable`, `Persist` and `Bundle` are
`store()`, the count it keeps of what it could not verify, `writeStore` with its refusal, and
`writeBundle` with its filter by event; a command that refuses changes no file and is no
step. `opened` and `admitted` are histories the properties speak of. `LoseRegistry` and
`RestoreRegistry` are what the comments of `workspace.ts` describe, a flash-drive copy that missed
a file. `Revoke` is the registry's method: the command line does not offer it yet.

### `AndroidCentral`, `IosCentral` and `PeerConnection`

`js` is what the hub knows of a peer: idle, asking, or holding a connection. On Android a
`ClientPeer` is numbered when `connect()` makes it and `Gatt` objects when the stack hands them
out, because the code tells them apart by identity: `connections` is its map by address,
`client` the fields of the object, `tasks` what was posted to the main thread. A read of a field
and its use after a post, an unlock or a callback are separate steps wherever another thread may
run in between (`Dial`/`OpenGatt`/`StoreGatt`, `Timeout`/`TimeoutFinishes`, `looked`). `stage` is the
stack's side of each connection. iOS runs everything on one queue, so a handler is a step; what
remains is the delay between `cancelPeripheralConnection` and the callback that reports it, and the attempt's
token and timer. `stage` is "cancelled" in that delay and "redialling" when a `connect()` came in it, so the end
of an attempt that timed out may arrive inside the next one, whose waiting promise it then rejects; `owed` is
the set of callbacks the stack still owes a connection, also when another `connect()` came on top of it.

The contract: a promise settles, once; what was handed out is alive until its end was asked for or told.
"Alive" is the mapping's burden: a connection the hub holds maps to "up" only while the plugin has it
registered and ready and the stack has it up; any other state maps to a value outside the contract (`Seen` for
one peer, `Connections` for all). So a lost connection that nobody reports, a promise resolved with a
connection closed in the meantime, or a `disconnected` that hits the wrong attempt all break the refinement.

`patient` separates two kinds of behaviour, and three of the contracts are claimed for the patient ones. On an
Android central it means that no callback runs inside a task of the main thread and Bluetooth does not go off
between `connect()` and the task it posts; on the Android peripheral, that starts and stops come when every
earlier start is settled, and no callback runs inside a start or inside `close()`; on an iOS central, that
`connect()` comes when the end of the connection before it was told, that the callbacks a cancelled connection
still owed are dropped, and that a repeated discovery of a connection in use does not fail. The impatient
behaviours lift this (on Android centrals for up to `MaxHurried` connections). Nothing in `hub.ts` makes the
application patient, and there the code does break its contract: see `AndroidTimeout.cfg`,
`AndroidStop.cfg`, `AndroidClose.cfg` and `IosReopen.cfg` below. Claimed of all
behaviours are the whole of the iOS peripheral, and on Android that nobody unheard of speaks.

### `AndroidPeripheral`, `IosPeripheral` and `Advertisement`

Starts are numbered and each has a promise. On Android the server's service is added asynchronously, a start
waits in `pendingStart` with a timer, and `halfway` is a start between its check of `serviceReady` and leaving
itself to be begun. On iOS the wish (`desiredLabel`) outlives start, rejection and outage. A central is
tracked when it connects, told to the hub when it subscribes and told off when it goes; iOS mints a handle for
each subscription. On Android `close()` lists the tracked centrals and clears the table in two steps (`Close`,
`CloseClears`, with `listed` between them) unless the behaviour is patient, and callbacks run whether or not
the server is there.

`Phase` is what the contract sees of the device: off, asked, on, or resting where the wish outlives the radio;
and of a stop that comes during a start, *withdrawn* while the stack has been handed nothing, so that the
start settles off the air, and *late* when it is already starting. The iOS `stopAdvertising()` looks at
`isAdvertising` only (`CourierPeripheral.swift:147`), so a late stop is not heard: the device goes on the air
and stays there until the next stop, start or outage. The contract allows exactly this exception, and starts
and stops of an iPhone are unrestricted; `IosStop.cfg` shows the exception against the comment that denies it.

### `ScanBridge` and `FormBridge`

A payload is a model value, and `Reading` says what each profile it fits reads in it: match, team,
scout and event, each possibly malformed, foreign or absent. `detectProfile`, the checks of
`ingestScan` in their order, the suppressor and the store written at the end of a batch are the code's;
`Crash` loses the batch, `Edit` changes the profiles between batches. `FormBridge` instantiates it under
names that do not meet those of `RecordStore`, and states its one assumption: a payload can be read by
the profile of the app that wrote it.

### `CborLeaf` and `Cbor`

The encoder (shortest heads, sorted keys, NFC, refusals) and the decoder with each of its refusals, on a
scale: a head holds 4 direct arguments instead of 24 and a byte 96 values instead of 256, so that every width
of head is reached by small numbers. A text is a sequence of characters, one replaced by NFC. `CborLeaf` has
what needs no recursion (heads, numbers, byte strings, texts, constants, the order of keys) and can be proved
about; `Cbor` puts arrays and maps on top.

### `PoliteClient`

An action is the code from one await to the next: `Begin` to the throttle or the cached answer,
`TurnComes` to `fetch`, `NotModified`/`Received`/`Failed` after it. Time is what is left until each
instant, and `Tick` does not run past a sleeper that is due. `since` (per caller, the time since its last
request) and `asked` (the version at its start) are histories.

### `OfficialResults`

Each source lists a match and later its result; it may be wrong `MaxMistakes` times, and FIRST may list a row
twice. `TbaEntries`, `FirstEntries` and `Reconcile` are the normalisers and `reconcileSnapshots` over packed
match ids, at every stage of the event. The event itself is a constant, `Played`, with what `EventAssumption`
says of it: both sources know a match's level, TBA's number of a qualification match is its own, no two
qualification matches share one, and scores are numbers. A row whose number `packMatch` refuses is skipped by
the normalisers, as in the code.

## 3. Runs

Each run finishes within three minutes on two workers. Bounds are named constants.

| Run | Instance | Shows |
|---|---|---|
| `sync_collisions` | 2 devices, 3 ids of which 2 collide, 2 keys (one unknown to one device), a record sealed during a session on each side, 1 fault | types, `StoresVerified`, `SendsOnlyWhatItHolds`, `OneSpeaker`, `NothingOwedAtComplete`, `CompleteMeansCaughtUp`, and the refinement of `GrowOnlyLog` |
| `sync_converges` | 2 devices, 3 ids of which 2 collide, 1 fault, fairness | `Converges`, `SessionsEnd` |
| `record_store` | view: 3 records, 2 scouts, 2 robots, revisions to 2; codec: every input of up to 5 bytes over 9 byte values, about 1500 values; bridge: 5 codes, 3 profiles, 3 records, 2 edits | `EveryScoutSpeaksOnce`, `OnlyOwnRecordsMoveAVoice`, `CorrectionsStick`, `NoSilentChoice`; `Canonical`, `ReadAsWritten`; `RefusedCanComeBack`, `NeverMisrouted` |
| `ble_android` | 3 frames (one too long to take), 2 frame ids, queue of 2, 1 refusal by an idle stack, 2 faults, binder threads | types, `CrossesOnce`, refinement of `FrameLink` |
| `ble_ios` | 3 frames of 1, 3 and 2 packets, the same queue, 1 refusal, 1 fault, one serial queue, fairness | `WakeUpIsComing`, `FramesArrive` |
| `ble_android_wake` | binder threads, no faults | violation of `WakeUpIsComing` (finding 1) |
| `hub_opens` | 2 peers (one dialled, one calling), 2 opens, 2 connections each, buffer of 1, 3 packets, fairness | `OpenLinkListens`, `NoHoles`, `DeadLinksClose`, `OpenSettles` |
| `hub_reopen` | 1 peer, 2 opens | violation of `OpenLinkListens` (finding 2) |
| `workspace` | 3 devices of one event, 2 grants, 1 record, 1 mishap (a revocation or a lost registry) | `KeepsRecords`, `RevocationSticks`, `AdmittedIsCompared`, `NobodyTrustedUncompared`, `PairedIsMutual` |
| `workspace_moves` | 2 devices, 2 events, 1 grant | violation of `KeepsRecords` (finding 3) |
| `ledger` | client: 2 callers of one document, 2 attempts, 2 versions, an interval of 2; results: a practice, a qualification and a playoff match of one number, 2 mistakes; fairness | `PacedPerCaller`, `CurrentWhenAsked`, `EveryGetSettles`; `NothingSilent`, `NeverCrossed` |
| `native_plugin` | 2 peers, 3 connections, 2 attempts each, 1 central, 3 starts, 2 handles, 1 outage, patient and, on Android, not; fairness | refinement of `PeerConnection` and of `Advertisement` on both platforms, `KnowsItsPeers`, `InterfacesReturned` |

### Why the bounds are enough

* Three ids are the least that hold a collision and a bystander; a chunk of one makes
  every transfer of two or more a chunked one; `MAX_DEPTH` 2 with two nibbles and a leaf
  of 1 or 2 gives descents, listings and listings forced by depth. `MaxRounds` (24 in the code) is 4
  where safety is checked and 5 where convergence is: a long transfer is cut off at the limit, a
  short one completes, and both happen in each run. `Converges` needs the fifth round: see the
  remark under the findings.
* One fault per behaviour reaches every ending at either end in every phase. Sessions
  repeat without bound, so what one broken session leaves behind is met by the next.
* Two frame ids and three frames: the third frame bears the id of the first, so a
  partial frame can meet its namesake. A queue of two against frames of three and four
  packets makes `send()` wait inside a frame. Two faults can lose the tail of one frame
  and the head of another.
* Two opens and two connections per peer let a link, its buffer and its events meet
  those of the connection before; a buffer of one overflows at the second packet.
* Two grants among three devices let one ceremony replace another at the same admitting device,
  cross with one in the other direction, or pass a key on by a roster. One record is enough to be
  lost; that a store holding several loses none is proved.
* Two callers are the least that share a throttle and a cache; two attempts give one retry, and a
  document that changes once separates the version a caller knew from the one it gets.
* Three connections over two peers let an attempt that was given up meet its own retry and, in
  the map, another peer; three starts let one be replaced while it waits and a third meet what the
  second left behind. One outage interrupts every phase of each. On iOS an attempt that timed out, its
  retry and the late end of the first need two connections of one peer.
* Matches of one number at each level are those whose packed ids could collide; two mistakes let
  one source be wrong twice or both once.
* An input of five bytes holds a map of one entry with a two-byte head, two entries of direct heads,
  or nesting one past the limit; whole values beyond that come from the encoder (`Values`).
* The bridge needs two codes of one scan and robot, one code that another app's profile misreads, one
  of another event and one that is refused for its match; two edits remove and restore a profile.
* Three records suffice for a chain of two corrections with its middle missing, and
  for a rival entry beside a correction.

### Fairness

`SyncSession`: a driver that can step does (the event loop runs; a receive timer fires on a *silent* link),
and two ends that are free meet again (the gossip schedule of the application). Faults, `SendStalled`,
`SendFails`, `RefuseFrame`, the premature `Timeout` of a late answer and `Seal` are never required. On a live
link a timeout is a fault, so `SessionsEnd` is not satisfied by the timer rescuing a lost turn. `BleLink`: the
event loop, the plugin and the stack run. The stall timer, the loss of the connection and the closing of the
session are not assumed: `FramesArrive` does not lean on them. `BleHub`: the event loop and the plugin run,
and an attempt to connect ends one way or the other (`armTimeout` on Android). `PoliteClient`: the clock
ticks, a sleeper that is due wakes and a fetch settles; the clock is the injected one and punctual.
`AndroidCentral`: the main thread runs what was posted and what is due, and a connection that is dialled
succeeds or fails. `AndroidPeripheral`: threads go on (`StartWaits`, `CloseClears`), the armed timer fires,
and the stack answers a start it took. `IosCentral` and `IosPeripheral`: due timers run, and a cancelled
connection reports its end; nothing else is asked of Core Bluetooth, whose connect has no timeout and which
may never answer an advertisement. `Workspace`, `RecordStore`, `ScanBridge` and `OfficialResults` have no
liveness properties: commands, scans and deliveries happen when somebody acts.

## 4. What is proved

For every finite id space, every set of keys, every `Hash`, every mesh of devices and links in which no link
joins a device to itself, all limits (rounds and records of a message positive) and any number of faults:

| Theorem (`SyncSessionProofs`) | Says |
|---|---|
| `TypeCorrect`, `TypesHold` | `Spec => []TypeOK` (with `RoundsToSpeak`, which it needs) |
| `StoresAreSound` | the inductive invariant of the stores |
| `StoresAlwaysVerified` | `Spec => []StoresVerified` |
| `NeverSendsWhatItLacks` | `Spec => []SendsOnlyWhatItHolds` |
| `SyncIsAGrowOnlyLog` | `Spec => ImplementsGrowOnlyLog`, the refinement |
| `OneTurn` | the turn is a token, `OneToken` |
| `LiveLinksAreWorked` | `Spec => []BothAtWork`: a live link has no end that has stopped |
| `OneSpeakerAlways` | `Spec => []OneSpeaker` |
| `NobodyIsEverStranded` | `Spec => []NobodyIsStranded` |
| `SessionsAlwaysRunDown` | `Spec => SessionsRunDown` |
| `MoreAlwaysHonest` | `Spec => []MoreIsHonest` |
| `NothingOwed` | `Spec => []NothingOwedAtComplete` |
| `CompleteIsCaughtUp` | `Spec => []CompleteMeansCaughtUp` |

The argument, in the order of the modules:

1. `AntiEntropyProofs` states what the operators return: a reply is a message, a chunk is a
   part of what is owed and takes something when there is something, admission keeps what is
   held, adds only what was received and verified, and keeps one envelope per record.
   Counts are sizes of finite sets, which is where `IdAssumption` and `HashAssumption` enter.
2. `TypeOK` is not inductive: `Send` adds one to `rounds`. `RoundsToSpeak` (a port that is not
   idle has rounds left) closes it.
3. `StoreInv`, the conjunction of `StoresVerified` and `SendsOnlyWhatItHolds`, is inductive relative
   to the types: what a port sends is taken from its store, and no store ever shrinks. The refinement
   of `GrowOnlyLog` follows from it: what arrives was held by the sender, so a store grows by copying.
4. `OneSpeaker` says nothing of links that are down, so it is not inductive.
   `OneToken` counts the port about to speak and the frames on the way as tokens: never more
   than one on a link, and exactly one while both ends run on a live link. Only `StartSession`
   makes a token, `Send` and `Receive` pass it on, everything else may only lose it together
   with the link or an end. `BothAtWork` adds that a live link has both its ends at work, since every
   exit of a driver goes through `Finish`, which closes the link.
5. `NothingOwedAtComplete` needs that a message without `more` has nothing queued behind it
   (`MoreIsHonest`), which needs the token: with the only token in hand, the peer's queue cannot
   have changed since it spoke.
6. `CompleteMeansCaughtUp` compares the end of a session with its beginning, with a descent of any
   depth in between. `CatchingUp` needs no induction on that depth: while the turn is with a port, every
   envelope that is due is held by both ends, queued at one of them, or *pursued* by what is said
   (`Pursues`: a digest or a list in the message covers its prefix and shows the difference, or the message
   wants or carries it). `Receive` hands the pursuit on, from a prefix to a longer one, to a list or to a
   queue, and a session is complete only when nothing is said or queued. "Due" leaves out what the property
   leaves out: ids that collide, and keys one end does not know.
7. `SessionsEnd` is out of reach (see below), but what it rests on is not. `SessionsRunDown`: each step of a
   driver spends one of at most `2 * MaxRounds + 1`, and no step of anyone gives any back while the session
   runs. `NobodyIsStranded`: while a session runs on a link that is up or closed, one of its ends has a step to
   take that waits for no timer, which follows from the token and `BothAtWork`. What is left to TLC is that
   steps which can be taken are taken.

`AntiEntropyProofs`, for every finite id space, every `Hash`, and all limits:

| Theorem (`AntiEntropyProofs`) | Says |
|---|---|
| `EqualStoresSayNothing` | the opening message of a store is answered by an equal store with nothing |
| `DifferenceIsFollowed` | the digest of a range two stores differ in is answered by its list, or by the digest of a longer prefix they still differ in, within `MAX_DEPTH` |
| `ListsMoveSomething` | the list of a range two stores differ in makes some id cross that an end lacks, whatever truncated ids collide |
| `ExactlyTheDifference` | where no two ids share a truncated id, what is asked for and given over a list is what the other end lacks, and no id more |

These are what an exchange is worth, apart from the sessions that carry it: `DifferenceIsFollowed` descends to
a list, and `ListsMoveSomething` is the fallback of `anti-entropy.ts:406` at work. They speak of ids that both
ends could admit; an envelope its receiver rejects is the subject of `SyncStrandedByRejection.cfg`.

`WorkspaceProofs`, for any number of devices, grants, records and mishaps:

| Theorem (`WorkspaceProofs`) | Says |
|---|---|
| `TypeCorrect` | `Spec => []TypeOK` |
| `RevocationAlwaysSticks` | `Spec => RevocationSticks` |
| `AdmittedAlwaysCompared` | `Spec => []AdmittedIsCompared` |
| `NobodyEverTrustedUncompared` | `Spec => []NobodyTrustedUncompared` |
| `PairingAlwaysMutual` | `Spec => []PairedIsMutual` |
| `RecordsAlwaysKept` | `Spec => KeepsRecords`, if there is only one event |

`CeremonyInv` ties histories and staged keys to the grants they came from; grants are only
appended (`NothingTakenBack`). `TrustInv` adds the places where a key waits to be trusted, the rosters
under way and lost registries. `MutualInv` adds that the admitting device stands in its own
roster. `BackupInv` says a backup holds nothing its store does not, which is why exporting again
is safe. The hypothesis of one event is needed: `workspace_moves` is the counterexample without it.

`RecordStoreProofs`, for any number of devices, scouts, robots, bodies and ids:

| Theorem (`RecordStoreProofs`) | Says |
|---|---|
| `TypeCorrect` | `Spec => []TypeOK` |
| `EveryScoutHeardOnce` | `Spec => []EveryScoutSpeaksOnce` |
| `VoiceIsOnesOwn` | `Spec => OnlyOwnRecordsMoveAVoice` |
| `CorrectionsAlwaysStick` | `Spec => []CorrectionsStick` |
| `NoChoiceIsSilent` | `Spec => []NoSilentChoice` |
| `RefusalsAreForgotten` | `Bridge!Spec => []RefusedCanComeBack` |
| `FiledUnderItsOwn` | `Bridge!Spec => NeverMisrouted` |
| `HeadsHaveOneForm`, `HeadsReadBack` | a head that is read is the one `Writer.head` writes, and is read back wherever it stands |
| `LeavesHaveOneForm`, `LeavesReadBack` | the same of numbers, byte strings, texts and constants |
| `BytesAreOrdered`, `KeysComeOnce`, `KeysHaveOneOrder` | keys are ordered totally, so a map that is read lists each key once, in one order |

The view is defined by `Latest`, a choice that means something only where a latest record exists.
`ViewInv` supplies it: `Pointers` says that a pointer of a scout at its own record of the same robot
raises the revision (which `validateRecord` asks for by itself only as "at least 1"), and `HaveLast` that
every nonempty set of one store's records has a last element under the order of the code. The
second is where finiteness would come in; it is carried along as part of the invariant instead, one
sealed record at a time, because an induction on finite sets is beyond the prover. From `Pointers` the
corrections of a record, in any number of steps, are later than it (`CorrectionIsLater`: the set of records that
are not contains all that is ever superseded), and `VoiceIsLatest` says who speaks.

The bridge's two are inductive as they stand, or follow step by step: the suppressor remembers a payload only
in the step that seals it, and `detectProfile` answers only when exactly one active profile fits (`OneFits`),
which is the app's own while that is active.

The encoding is proved for any number of inline arguments from 4 (`InlineAssumption`: the head must have room
for the constants), inputs of any length and items at any place in them. A number of twice the width is its
upper and its lower half, so the four widths follow from one lemma about two digits. `Before` compares at
the first place where two byte strings differ, which exists because a set of naturals has a least element; and
since neighbours ascend, so do any two keys, by a descent to the least pair that would not.
NFC is assumed to be done once (`ComposedAssumption`). Texts that begin with the mark are left
out, as they must be: `CborMark.cfg` is the counterexample.

`LedgerProofs`, for any number of callers, documents, attempts and waits, and for any event that satisfies
`EventAssumption`, with any number of mistakes and duplicate rows:

| Theorem (`LedgerProofs`) | Says |
|---|---|
| `RequestsArePaced` | `Spec => PacedPerCaller` |
| `FetchedIsCurrent` | `Spec => CurrentWhenAsked` |
| `CallsAlwaysRunDown` | `Spec => CallsRunDown` |
| `NoCallIsEverStranded` | `Spec => []NoCallIsStranded` |
| `NothingIsSilenced` | `MCSpec => []NothingSilent` |
| `NothingIsCrossed` | `MCSpec => []NeverCrossed` |

`Pace` relates what a sleeper still waits to the time since its last request; without it "an interval apart"
is not inductive, since another caller may move `#nextAllowedAt` in between. `Vouched` says that what a caller
holds for a 304 is what it sent as a validator, so that an answer of "not modified" vouches for it and not for
what the cache holds by then. `CallsRunDown` and `NoCallIsStranded` are to `EveryGetSettles` what their
namesakes are to `SessionsEnd`: each step of a call spends some of what its attempts allow (`StepsLeft`),
nothing another caller, the clock or the server does gives any back, and a call under way has a next step,
after no more than an interval if it waits for its turn (`NoneAssumption`: an answer of the server is not
`None`). For the results, `packMatch` is unpacked first: by the arithmetic of its three fields a packed id
gives level and number back, so two qualification matches never share one (`OneMatchPerId`). Then each source
has at most one entry of an id, and `reconcileSnapshots` is taken apart into what it merges, passes on and
reports: what merging drops is quoted in a conflict of that id. `NeverCrossed` adds `Honest`, that until a
mistake is counted every row tells its match as it was.

`BleLinkProofs`, for any frames and sizes, any number of frame ids, any queue and any number of refusals:

| Theorem (`BleLinkProofs`) | Says |
|---|---|
| `QueueKeepsItsBound` | `Spec => []TypeOK` |
| `PacketsCrossOnce` | `Spec => []CrossesOnce` |
| `NoWakeUpIsLost` | `Spec => []WakeUpIsComing`, if `Threads = "queue"` |
| `LinkImplementsFrameLink` | `Spec => ImplementsFrameLink`, if `MaxFaults <= FRAME_IDS` |

A task is a composition of functions on `js`, so each of `Pump`, `Drain`, `Settle`, `Answered` and `Resume`
has a lemma on what it keeps of the sender (`WellFormed`), of the stream of packets and of whoever attends to
the queue, and the actions are put together from those. `Streamed` is the stream: what was taken and what
waits, with frame ids that repeat only `FRAME_IDS` frames apart. `Wakeful` says that a packet that waits is
attended to, by a drain at work, one that will look again, or a wake-up under way; it fails for binder
threads, which is finding 1. `Whole` says that the reassembler holds the beginning of one frame, and that
since its last packet no more packets went by than were lost. That is why the refinement needs a bound on the
losses: the receiver knows a frame by its id alone, and with a whole round of ids lost in between it takes the
tail of a later frame for the rest of the one it began. The bound is tight: frames of two packets each, one
frame id and two faults violate `ImplementsFrameLink` in TLC. Ids are 16 bits in the code (`framing.ts:90`),
so it would take 65,536 lost packets without the session ending, which its timeouts do not allow.

`BleHubProofs`, for any number of peers, opens, connections and packets, and any buffer:

| Theorem (`BleHubProofs`) | Says |
|---|---|
| `TypeCorrect` | `Spec => []TypeOK` |
| `NothingMissingInBetween` | `Spec => []NoHoles` |
| `LinksListen` | `Spec => []OpenLinkListens`, if `Calm` |
| `OpensAreAnsweredOnce` | `Spec => []AnsweredOnce` |
| `EndsAreComing` | `Spec => []EndIsComing`, if `Calm` |

`Stream` ties four places together: what the hub has of a peer (in its transport, or in the buffer), what is
on the way in the one queue of events, and the last packet the plugin sent are one run of packets, cut only
where a connection ended. It holds at any pace. `InTurn` is the protocol between hub and plugin: of a peer,
either nothing is asked, or a `connect()` is on its way, in the making or answered, or a `disconnect()` is on
its way, and never two of these. That needs `Calm`; `hub_reopen` is the counterexample without it.
`AnsweredOnce` says that of an `open()` that waits exactly one of its call, its dialling and its answer is
under way, and of any other nothing; it holds at any pace, because a transport is a new one for every `open()`
and the native side carries it along. `EndIsComing` says that a link is open only while its connection is
ready or the event of its end is on its way. They are the safety halves of `OpenSettles` and `DeadLinksClose`.

`NativePluginProofs`, for any number of peers, centrals, attempts, starts, handles and outages:

| Theorem (`NativePluginProofs`) | Says |
|---|---|
| `CentralsAreKnown`, `HandlesAreKnown`, `PeersAreKnown` | `KnowsItsPeers`, on Android, on iOS, and of the run |
| `AndroidKeepsContract`, `IosKeepsContract` | each central implements `PeerConnection!Safety` |
| `AndroidAdvertises`, `IosAdvertises` | each peripheral implements `Advertisement!Safety` |
| `PromisesKept` | all four contracts' safety holds of the run's specification |
| `InterfacesAreReturned` | `Spec => []OpenAreOwned /\ InterfacesReturned` |
| `HeldIsAliveToThePatient` | `Spec => [](patient => HeldIsAlive)` |

`Safety` is a contract without its fairness: `Init /\ [][Next]_v`. What the hub was told has to be tied to
what the stack has, and that is each invariant. On Android (`Connecting`): a peer the hub asked for or holds
is the one registered in `connections`, and a registered client is either waiting or ready with its interface
up; one that is not registered has no interface, no promise and nothing posted; a retry has given its
interface back; an interface the stack has open is its client's. On iOS (`IosHolds`): the hub asks exactly
while an attempt's token pends, what it holds is ready, listed and up, and what is up is listed. On the
peripherals: an advertisement that is starting on Android has a start that waits for it (`Awaited`), and on
iOS the stack has a start in hand only while the service is published, and what is on the air leaves nobody
waiting (`IosWished`). `InterfacesReturned` asks that an open interface is owned or goes back in the end; to
the patient it is owned at every moment (`OpenAreOwned`), so nothing is left to fairness. The contracts of the
two centrals and of the Android peripheral are claimed for the patient behaviours, as in the run, and so is
the half of `KnowsItsPeers` that says the end of every central is told on Android (`EndsAreTold`);
`IosAdvertises`, `HandlesAreKnown` and the other half of `KnowsItsPeers` hold of all. Assumed are
`PatienceAssumption`, `AttemptsAssumption`, `ConnectsAssumption` and `NoneAssumption`, all of which TLC
evaluates (`None` is not a number, a pair, a peer or a label).

The strengthenings of `SyncSession` (`CatchingUp` included) and those of `BleLink`, `BleHub` and
`AndroidCentral` were first checked by TLC as invariants, and so were the safety halves named above, on the
instances of `sync_collisions`, `ledger`, `hub_opens` and `hub_reopen` (the last for `AnsweredOnce` only).
They are no properties of those runs, since the liveness properties they come from are.

**Left to TLC.** Liveness and everything that rests on fairness (`Converges`, `SessionsEnd`, `FramesArrive`,
`DeadLinksClose`, `OpenSettles`, `EveryGetSettles`, the fair halves of `KeepsContract` and `Advertises`) is
out of the prover's reach. So is `Cbor`, whose encoder and decoder are recursive: what is proved of the values
that hold no others extends to arrays and maps by an induction over data, so `Canonical` and `ReadAsWritten`
of nested values are checked on all inputs up to the bound. The types of the native modules are stated there
and are no run's property: the proofs carry the part they need.

## 5. Findings

1. **Android can lose a wake-up** (`ble_android_wake`). `CourierGattClient.send` loses the
   compare-and-set and only then sets `readyOwed`; the completion callback may run in between. The
   packet waits until the link stalls. `CourierGattServer.send` has the same order. iOS does not: its
   calls and callbacks share a queue (`ble_ios`).
2. **A late `disconnected` kills the next link** (`hub_reopen`). Close and reopen a peer at once:
   the old connection's event finds the new transport by peer id, and `open()` resolves to a link
   that hears nothing.
3. **Moving to another event loses the records of the old one** (`workspace_moves`). `accept` puts the
   new event into `mesh.cbor`; the next `ingest` or `import`, even one that says "Nothing was merged",
   rewrites the store through `writeBundle`, which keeps only the new event's records
   (`bundle.ts:79`). The refusal of `writeStore` counts only records that could not be verified, against
   "quarantine, never silently drop" (`workspace.ts:218`).

### Further configurations

Ten more configurations, one of them with two properties, end in a counterexample. They are kept beside the
runs to show another disagreement between a comment and the code; each is run by `tlc -config <cfg> <module>`.

| Configuration | Module | Violates | What it shows |
|---|---|---|---|
| `SyncStall.cfg` | `MCSyncSession` | `StallIsSilence` | A stall after the opening send is reported as a hang-up: `session.ts:208` returns `peer-hung-up` for every failed send inside the loop, where `link.ts:59` and `session.ts:150` describe a stall as the send-side twin of `peer-silent`. |
| `SyncStrandedByRejection.cfg` | `MCSyncSession` | `Converges` | A record the peer cannot verify is asked for and rejected in every session, so the leaf's lists always "explain" the difference, the fallback of `anti-entropy.ts:406` never fires, and a split collision beside it stays hidden. |
| `AndroidTimeout.cfg` | `MCNativePlugin` | `HeldIsAlive` | The connect timer checks `peer.ready` on the main thread and then calls `finish`; the binder thread may resolve `connect()` in between. `finish` closes the connection the hub was just handed and tells nobody, against "Taken exactly once, by whichever of success/failure/timeout wins" (`CourierGattClient.kt:138`). |
| `AndroidStop.cfg` with `PROPERTY StartsSettle` in place of its invariant | `MCNativePlugin` | `StartsSettle` | A start finds the service not ready; `onServiceAdded` runs on the binder thread and finds nobody waiting; the start then leaves itself waiting, and its timer does nothing because the service is ready. The promise never settles, against "exactly once" (`CourierGattServer.kt:211`). |
| `AndroidStop.cfg` | `MCNativePlugin` | `StoppedStaysSilent` | `stopAdvertising()` ("Idempotent by design", `CourierBlePlugin.kt:517`) looks only at a running advertisement (`CourierGattServer.kt:350`): a start that still waits for its service goes on the air after it. |
| `IosStop.cfg` | `MCNativePlugin` | `IosStoppedStaysSilent` | On iOS `stopAdvertising()` during a start stops nothing: `isAdvertising` is still false, the stack goes on starting, and the device is on the air though nobody wishes it, and stays so after every start was settled; against "Stopping advertising means 'stop being discoverable'" (`CourierPeripheral.swift:154`). |
| `IosReopen.cfg` | `MCNativePlugin` | `IosHeldIsAlive` | `disconnect()` leaves `ready` set until Core Bluetooth reports the end (`CourierCentral.swift:205`). A `connect()` in between finds the peer ready and resolves at once with the connection that is being cancelled, against "Already up: hand back the MTU rather than tearing down a working link" (`CourierCentral.swift:173`). |
| `AndroidClose.cfg` | `MCNativePlugin` | `EndsAreTold` | `close()` lists the tracked centrals and then clears the table (`CourierGattServer.kt:539`). A subscription on a binder thread in between is told to the hub and cleared, and its end is never told: "the difference between a sync that ends and a sync that hangs" (`CourierBlePlugin.kt:231`). |
| `PoliteBurst.cfg` | `MCLedger` | `Serialised` | Two concurrent `get()`s read the same `#nextAllowedAt` and wake together, against "Serialised per client, which is per source" (`http.ts:163`). What does hold is `PacedPerCaller`. |
| `CborMark.cfg` | `MCRecordStore` | `Canonical` | `TextDecoder` drops a leading U+FEFF, so a text that starts with one is read as a shorter one and encodes differently: "Decoding then re-encoding must be the identity" (`courier-core/test/conformance.test.ts:74`). A record with such a field is sealed and then refused by `openEnvelope`. |
| `ScanAgain.cfg` | `MCRecordStore` | `RescanKeepsAnswer` | The bridge seals everything at revision 0 and ties go by id, so an old code scanned again in a later session may become the current answer, against "not a wrong answer" (`ingest.ts:90`). The store does report the conflict. |

`record_store` excludes the mark (`Mark` is no letter of its instance), `ledger` claims only the pace
of a caller, and `native_plugin` claims what the six of `MCNativePlugin` deny for the patient behaviours only,
or with the exception named.

Also seen, without a run of its own:

* A correction of a correction is reported by `conflicts()` as a conflict with the original while the
  one in between is missing, against `store.ts:40` ("Not a supersession").
* A store file of no bytes, which a stop inside the write may leave, reads as an empty store and
  not as a damaged one (`workspace.ts:232`).
* Once a key whose records are held is revoked, `store()` no longer loads them and `writeStore`
  refuses for ever, although `registry.ts` says that records already admitted stay.
* `confirm` of a key that was revoked before answers "accepted from now on" and leaves it revoked.
* A device that is missing from its own registry and has an empty store seals scans that
  its store refuses: `ingest` reports them as sealed, keeps nothing and exits 0.
* Playoff matches are "reported as unreconcilable rather than matched up hopefully" (`reconcile.ts`), but
  FIRST's n-th playoff match packs to the id of the first match of set n, so it meets TBA's there by number
  alone, and the others stand beside TBA's as matches of their own. `NothingSilent` and `NeverCrossed` speak of
  qualification matches.
* With `MaxRounds = 4`, `Converges` fails in the instance of `sync_converges`. Where a split collision
  makes both ends queue a whole leaf, the limit may cut the session off before the one record that
  matters, and the next session queues the same leaf again. In the code a session sends at most 24
  messages of 32 records and a listed leaf may hold more than that (`LEAF_THRESHOLD`), and the queue is
  in the order of ids every time, so a colliding record that sorts late in such a leaf is never sent.

## 6. Not modelled, and why

* SHA-256 and signatures: an id is an injective name, a signature the question whether a device knows
  the key. TLC and the prover have nothing to say of either. CBOR is modelled on a scale, without floats
  (the encoder refuses them).
* Android's scan (`CourierGattClient.kt:158`), permissions of either platform, and iOS state restoration and the
  wait for a manager's first state: they decide whether there is a peer to connect to, and what they hand on is
  the input of the modelled part. The iOS scan is modelled because `connect()` depends on its table.
* A crash of the app inside the native plugins: their state goes with the process, and Init is what
  follows.
* A workspace file torn inside one write. A short `registry.cbor` or `mesh.cbor` is refused by the
  decoder; an empty store is not (see the findings).
* Teams, rankings, bulk download, the choice of an event and the venue pack of the ledger, and its command
  line: one JSON shape mapped to another, one-shot file writes.
* Analytics: floating-point statistics, out of TLC's reach. Reports, season pack, decode: pure
  functions of finished data, with no order of events to get wrong.

Two limits of what is modelled should be kept in mind. `BleHub` keeps its own abstract connection, of which
`KeepsContract` is the promise on the native side, but the two are not composed into one state machine.
And the environment of the native modules (which callbacks a stack may issue, in which order) is
taken from what the code prepares for, not from the platforms' source. In particular:

* A start repeated while the iOS stack is starting gets one answer with the first, and discoveries of one
  connection that are at the same point are answered as one.
* iOS notifications are turned on or off only in answer to the request of a discovery. Turned off later by
  themselves they would leave `ready` as it is (`CourierCentral.swift:599`); nothing in the code asks for it.
* The sweep of `closeAll` on an Android central is one step, so a `connect()` on the plugin's thread between
  its listing and its clearing of the table (`CourierGattClient.kt:444`) is left out, as is, for the patient,
  an outage before a posted `openGatt`, which then still dials.

## 7. Plan

Done, in this order: `AntiEntropy`, `SyncSession`, `GrowOnlyLog` and their proofs; `RecordStore`;
`GattFraming`, `BleLink`, `FrameLink`; `BleHub`; `Workspace` and its proofs; `PoliteClient` and its proofs;
the four native modules with their contracts; `OfficialResults`; `CborLeaf` and `Cbor`; `ScanBridge`; the
proofs of `RecordStore` and of the peripherals; then of `BleHub` and `BleLink` with its refinement of
`FrameLink`, of `CompleteMeansCaughtUp`, of the results and the bridge, of the safety half of the four native
contracts; and last of the safety halves of `SessionsEnd`, `EveryGetSettles`, `OpenSettles` and
`DeadLinksClose`, of what an exchange is worth, of the returned interfaces, and of `CborLeaf`.

Open:

1. The schema registry of `courier-decode` and the season pack's query as operators against a reference
   definition.
2. `BleHub` over `PeerConnection` in place of its own connection: the contract is proved of both platforms
   now, so the hub could be checked and proved against it.
3. A bound on losses for `LinkImplementsFrameLink` derived from the session's timeouts in place of `MaxFaults`.
4. The types of the native modules as theorems.

## 8. Running

    tlc -workers 2 -config SyncCollisions.cfg MCSyncSession
    tlapm AntiEntropyProofs.tla
    tlapm SyncSessionProofs.tla
    tlapm WorkspaceProofs.tla
    tlapm RecordStoreProofs.tla
    tlapm LedgerProofs.tla
    tlapm BleLinkProofs.tla
    tlapm BleHubProofs.tla
    tlapm NativePluginProofs.tla

The cfg of each run, its module, its properties and the seeded defects that show each property can
fail are listed in `PROJECT.json`; the defects are the operators whose comments begin "Seeded defect".
