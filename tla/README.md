# TLA+ models of VoIP_Server

VoIP_Server is a SIP private branch exchange: a back-to-back user agent in Go
on top of the `diago` and `sipgo` libraries. Phones register with it, every
call goes through it, and it adds holding, parking, transfer, hunt groups,
conferences, paging, presence, messages and trunks. Each INVITE is served by a
goroutine of its own and the goroutines meet in shared maps, counters and
dialogs; this directory models those meetings.

## 1. Inventory

| Part (source) | State | Operations | Meets | What makes it correct |
|---|---|---|---|---|
| Call manager (`internal/call/manager.go`) | atomic count of slots, sessions by dialog, legs per extension | TryAcquire, Release | called by every INVITE handler | limits hold; counts agree with sessions; every call gives its slot back |
| Bridging (`internal/call/bridge.go`) | legs of a call, PCM bridge | Connect, Join, waits, REFER handler, CompleteTransfer, BridgeParked | phones, registry, park lot | a leg that ends takes its peer with it; nobody is left on a dead line |
| Registry (`internal/call/registry.go`) | calls by dialog, latest call by caller; flags and legs of an ActiveCall | Register, Unregister, Find, SetConsult, SetTransferReady, StealHeldLeg | bridging and star codes; fields are partly read without a lock | index and records agree |
| Park lot (`internal/call/park.go`, `internal/pbx/features.go`) | parked leg per slot | Park, Retrieve, Release | bridging still waits on parked legs | the right party is parked, stays parked and is never forgotten |
| INVITE routing (`internal/pbx/server.go`, `features.go`) | none of its own | handleInvite and its handlers | all of the above | order of interception: transfer, consult link, trunk, star code, dial plan |
| Conference (`internal/conference/conference.go`) | seats, reservations, sessions, hold music, mixer | HandleJoin, collectPIN, leave, media update | phones, mixer | capacity, PIN gate, music or mixer as the number of people asks for |
| Hunt groups (`internal/hunt/hunt.go`) | dialling goroutines, channel of one answered leg | sequential, simultaneous | bridging (Join) | one winner, losers released, ringing stops |
| Hold (`internal/call/hold_control.go`, `hold_*.go`) | hold flags, pending hold, timing windows, players | enter, leave, abort, reassert, watchdog | re-INVITEs of both legs, bridging | the bridge is back after every hold; music only to the held party |
| Registrar (`internal/registrar`) | bindings with expiry, digest nonces | REGISTER, expiry, OPTIONS refresh | presence, messages, every dial | live bindings are found, dead ones are not |
| Presence (`internal/presence`) | subscriptions | SUBSCRIBE, NOTIFY, expiry | registrar, calls, DND | a change that watchers must hear of is told |
| Messages (`internal/message`) | offline queue | MESSAGE, delivery on registration | registrar, store | each message is delivered, none is lost |
| Trunks (`internal/trunk`) | one keepalive goroutine per trunk | reconcile, register, OPTIONS | configuration changes | one goroutine per enabled trunk, none for the others |
| Paging (`internal/paging`) | legs of a page | Page | registrar, mixer | all members are released |
| Router (`internal/router`) | none | RouteDial | | dial plan |
| Backup (`internal/backup`, `internal/web/backup.go`) | archive; files and database it replaces | export, restore | store, configuration, every other request | what a restore leaves behind |
| Store (`internal/store`) | SQLite tables, the open handle | single statements and one transaction | web requests, messages, hunt, paging | groups, members and routes belong together |
| Configuration (`internal/config`, `internal/pbx/server.go`) | `config.toml`, extension files, the tables in memory | load, validate, reload, save an extension | web, do-not-disturb code, trunks | memory and files follow each other |
| Web administration (`internal/web`) | none of its own but sessions | one goroutine per request | store, configuration, backup | requests that overlap do not spoil each other |
| Media, NAT, start-up | samples, addresses | | | not protocol logic |

What is hard here: goroutines that wait on the same dialogs and each react to
their end; fields read before a dial and used after it; check and update in
different critical sections; phones that hang up at any moment; timeouts that
race answers; web requests whose steps no lock holds together. `PROJECT.json`
lists these hazards line by line, with the properties that watch them.

## 2. Modules

| Module | Models | Role |
|---|---|---|
| `CallAdmission` | what admission promises: a set of at most so many holders, changed atomically | abstract specification |
| `CallManager` | `manager.go`, one action per critical section or atomic operation | implements `CallAdmission` |
| `CallControl` | Connect, registry, park, retrieve, star-code transfer, REFER | largest model |
| `Conference` | one conference room | |
| `Hunt` | one hunt | |
| `HoldControl` | `hold_*.go`: the hold of one bridged call | |
| `Registrar` | bindings of one extension, digest nonces | component |
| `Presence`, `Messages` | subscriptions; relay and offline queue | components on top of `Registrar` |
| `Registration` | the three together, as `pbx.New` wires them | composition |
| `TrunkKeepalive` | both trunk supervisors and their goroutines | component |
| `Store` | the tables that several requests work on, the database handle | component |
| `Administration` | web requests, extension files, configuration, backup and restore, over `TrunkKeepalive` and `Store` | composition |
| `CallManagerProofs`, `CallControlProofs`, `ConferenceProofs`, `HuntProofs`, `HoldProofs`, `RegistrationProofs`, `AdministrationProofs`, `GroupProofs` | theorems about the module of that name; `GroupProofs` is about `Store` under `Administration` | theorems |
| `MC*` with `*.cfg` | | small instances for TLC |

Conventions. `pc` is where a goroutine stands. A region between Lock and Unlock
is one step, and two regions in a row are two steps. A dialog is in one of the
states none, early, up, ended by the phone (`byPhone`), ended by the server
(`byServer`), or `abandoned`: answered, and closed on the server's side without
a BYE, or with one that nobody repeats because its context is done. A phone
whose dialog is `Open`, live or abandoned, still has the call. Definitions with
a name such as `Release_leaksSlot` are deliberately wrong variants of the
definition that follows them; they show that a property notices such a mistake
and are used by no specification.

### CallManager

`TryAcquire` is five steps: the check of the caller's limit, the check of the
callee's, `Load`, `CompareAndSwap` and `Record`. Counts are natural numbers
with 0 for a missing map entry. The empty user of a From header, which is
counted and never discounted, is kept (`NoUser`). `InboundTrunk` calls take no
slot, as in the code. The refinement mapping of `ImplementsAdmission` takes the
goroutines past a successful swap as holders.

### CallControl

An INVITE `i` has the legs `In(i)`, `Out(i)` and `ReferLeg(i)`. `pc[i]` follows
the handler: the look-ups before the dial plan (`route`, `link`, `setConsult`),
each a step of its own because each takes the registry's lock anew; a call from
a trunk (`inbound`), which takes no slot and goes on record under the number the
trunk dialled, no extension's; an ordinary call (`dialing`, `bridge`, `wait`,
`teardown`), a park (`steal`, `store`, `dropParker`), a retrieve (`rAcquire`,
`rBridge`, `rWait`), arming a transfer (`arm`, `armHold`) or completing one
(`xAcquire` to `xWait`); `rpc[i]` follows a REFER handler of the call. Registry,
ActiveCall fields and the park lot are variables of their own. Reads and writes
that the code makes without a lock are separate steps: the leg `StealHeldLeg`
reads and the field it then clears, and the legs `CompleteTransfer` reads before
and after the dial. `joined` is a history variable: the dialled legs that have
been bridged to somebody. It tells a leg that talked to someone from one whose
bridge never started, for which the code sends no BYE.

Left out or merged: answering the caller and registering the call is one step
with the callee's answer; whether the call limit per extension refuses is a free
choice (`CallManager` models it); a phone does not dial its own number; one
REFER per call; a hangup always ends the dialog; video, headers, tones and
byte counters are dropped. Redial and call return are dials of a stored number.

### Conference

One room, with hold music installed or without (`tracks`, fixed from the start).
`Mixable` are the callers whose codec the mixer
can transcode. `wrong` and `late` are collectPIN's attempts and deadline.
`Admit` and `Reconcile`, `Leave` and `LeaveReconcile`, `MediaUpdate` and
`Refresh` are pairs of lock regions of one goroutine; the reconciles of several
goroutines interleave freely.

### Hunt

One hunt of either strategy over members `1..N`. A dialler goroutine dials,
and offers an answered leg to a channel of capacity one, or hangs up. An answer
may cross the cancel of its context, and a loser hung up under a cancelled
context may keep the call (`Abandon`). `Answer`, `StartBridge` and `TalkEnds` are
`BridgePair.Join`; when Join fails (`JoinFails`) the winner's leg is closed without
a BYE.

### HoldControl

One call with the legs `in` and `out`. `dir` is the negotiated direction of a
leg, `ac` the fields of the `ActiveCall` that `holdMu` guards, `media` what is
being played and to whom. `entry` is the one goroutine inside `enter()`, with its
dial tone half (`tone`) and its music half (`moh`), which run side by side; `go`
holds the others: a media update callback, a hold waiting to be entered, leave,
reassert, restart of the bridge, the repair after an aborted entry, restarts of
the music, the watchdog. `live` is the context under which everything plays.
A re-INVITE of a phone may come at any moment, one at a time per leg, since its
callback runs before the 200 OK. The callback takes `holdMu` several times and is
as many steps: the flags are read and a path is chosen (`onMediaUpdate`), an entry
is aborted (`abortHoldEntry`) or stuck state forgotten (`ForgetStuckHold`),
`bridgeIsReady` is asked (`HoldOrDefer`) and only then the hold recorded
(`recordPendingHold`). What a re-INVITE of the server comes to is a free choice:
the direction the leg then has and whether the phone answered. Any answered
re-INVITE, of the phone or of the server, makes an override that was worked out
before it stale.
A panic outside of the playback goroutines, which recover, ends the server
(`Panic`).

Left out: `HoldRemoteWithMOH` (a hold for the star codes, which `CallControl` has
as one step), saving and restoring codecs, sample loops. The two-second churn
window and the one-second waits are free choices. `bridgeStop` stands for the
stop function being stored, not for audio that flows.

### Registrar, Presence, Messages, Registration

One extension, because bindings of different extensions never meet. `job` follows
a goroutine through a REGISTER: nonce found (`authorized`), nonce renewed
(`register`), binding changed (`changed`), watchers notified, queued messages
delivered. The expiry collector `GC` takes the same way from `changed` on, since
`onBindingChange` runs in the goroutine that changed the binding. A binding is
`live`, `expired` (dead for `IsRegistered`, not yet collected) or `none`. A nonce
has a timer that runs (`armed`) or one that has fired and waits for the lock
(`fired`); `touchNonce` cannot call the latter back.

`seen` is the state a subscription was last told, taken when the code reads it.
`row` is the message's row of `offline_messages`, `accepted` what phones took.
Listing, relays and marks may fail, and a phone may take a message whose answer
comes too late. A NOTIFY is sent in the step that reads its state: the send
changes nothing that the model keeps, and its order is nobody's promise.

Left out: digest arithmetic, requests that are refused without a change, CSeq,
the busy state of a phone, the body of a NOTIFY.

### TrunkKeepalive, Store, Administration

`TrunkKeepalive`: a supervisor reads the configuration (`cfgSnapshot`), then takes
its lock and compares (`reconcile`); a goroutine `task` checks, calls, waits. A
tick that finds nothing to do is a stuttering step.

`Store`: a statement or a transaction is one step, since the pool has one
connection. Groups carry a birth number that the code does not have, to tell two
groups with the same id apart.

`Administration`: a request is a record of a plan; `job` follows its goroutine
statement by statement and file by file. A file is truncated before it is
written, and between the two `config.toml` reads as a configuration without
trunks and an extension file as an error. The write may fail and leave it so, and
`os.Remove` may fail. The four extension tables can be one map, so that a
do-not-disturb code may reach the others as well; a table that a reload has still
to hand out is not followed. A restore closes the database, writes
each file, may fail at each, and reopens in both cases: the old handle is closed
again (`ReopenClose`), a new one opened (`Reopen`, whose migration may fail), and
either may fail and leave the database closed (`ReopenFails`). `alone` is a history
variable: the request that no other has overlapped.

Left out: users, sessions, conferences, phone book and call log (single
statements on single rows), packing and checksums of an archive, music and phone
book files beyond the chance that they fail to be written. A crash in the middle
of a restore is not modelled: nothing in the code recovers from one.

## 3. Runs

| Run | Instance | Shows |
|---|---|---|
| `calls` | 3 INVITEs, 2 extensions, limit 2 | all properties of the manager, and the refinement |
| `extension_limit` | the same | counterexample, finding 1 |
| `control` | 3 INVITEs, 2 extensions, 2 slots, transfer, park, retrieve, calls from a trunk | safety of call control |
| `releases` | 2 INVITEs, 1 slot, park and REFER | release of peers under fairness |
| `park` | as `control`, no trunk | counterexample, finding 2 |
| `transfer` | as `control`, no trunk | counterexample, finding 3 |
| `conference` | 3 callers, one of them not mixable, with and without hold music, 2 seats, 2 PIN attempts | all properties of the room |
| `hunt` | 3 members | all properties of a hunt |
| `hunt_simultaneous` | 2 members | counterexample, finding 4 |
| `hold` | one call, 3 re-INVITEs (sendrecv or recvonly) of either phone, or 2 of the caller's and 1 of the callee's, 2 goroutines besides the entry, 1 watchdog round | safety and liveness of holds |
| `registration` | 1 address, 1 REGISTER at a time, 1 nonce, 1 watcher, 1 message | registrar, presence and messages together, with liveness |
| `administration` | 12 plans of 3 to 5 requests, 1 trunk, 3 goroutine records, 2 numbers, 2 ids per table | groups, restore and trunks under overlapping requests |

Why these bounds are enough to be interesting. Three INVITEs are one more than
the slots or seats, so that somebody is refused while others race, and they are
what a park and a retrieve (call, star code, retrieve) or a transfer (call, star
code, target) needs. Two extensions give caller and callee; a third party is
whoever dials next. In `releases` fairness makes the state graph large, so it
has two INVITEs and no trunk: a call and a REFER or park of it; pairs made by a
retrieve or a transfer are watched by the same `PairEnds` and are covered for
safety only. Three members make two losers of a simultaneous hunt, of which one
finds the channel full.

Three re-INVITEs of one phone are a hold, its release and a second hold, so that
a leave of the first can store its bridge in the second; two and one put the
other phone's hold or release in between. Two goroutines besides the entry let a
leave or a restart meet a callback. In `registration` liveness makes the graph
large; the races it is about need one REGISTER, the collector, the keepalive and
a MESSAGE, which one of each gives, and the proofs hold for any number. In
`administration` a plan is a set of requests that can disturb each other, in
every order and overlap: two configuration changes and two reloads; creates,
updates and deletes of groups; a backup and one or two restores among them.
Three goroutine records are one more than the two supervisors can need for a
trunk, and two ids suffice for a delete followed by a create.

Deadlock is not checked where behaviours end: when the finite set of INVITEs,
re-INVITEs or requests is used up. It is checked in `registration`, whose phones
and timers never stop.

Fairness. `WF` on what the server does by itself, per goroutine: the Go
scheduler runs runnable goroutines, every dial and every digit read has a
timeout, and clocks run. Phones owe nothing: nobody has to dial, answer, enter a
PIN or hang up. In `Registration`, whose liveness property is about a phone that
stays, that phone answers challenges and registers again before its binding ends
(`SF` on `Refresh`, since a binding lasts at most `register_max_expiry`), and it
and the database do not refuse a stored message for ever (`SF` on `Lists`, `Relays`
and `Marks`); weak fairness would not do, because expiry disables these steps again
and again. In `Administration` tickers, loops and cancelled sessions go on;
nothing is assumed of requests, and a registration that is not cancelled may last
for ever.

Symmetry: `control`, `park` and `transfer` permute INVITEs and extensions; they
check no liveness property.

### Properties

- `WithinSystemLimit`, `CountersMatchSessions`, `ImplementsAdmission`,
  `EveryInviteDecided`: the manager.
- `NothingLeftBehind`: when a handler returns, its registry entries, slot and
  caller's dialog are gone. The leg it dialled is gone too, from the phone as well
  if it was ever bridged, unless it is parked or a park, retrieve or transfer holds
  it. It does not say that no dialog is orphaned, which is false (disagreement 5):
  it says that the orphans are never-bridged legs only.
- `IndexAgrees`: the caller index never dangles.
- `SlotHoldsPeer`, `RetrievedPartyReleased`: park and retrieve.
- `PeerReleased` (REQ-CALL-4), `ReferredPairReleased`: symmetric teardown; the
  latter when the transferred party or the target hangs up (see disagreement 6 for
  the referrer).
- `SeatsAccounted`, `OnlyParticipantsOnAir`, `NoMusicInMixer` (REQ-CONF-1),
  `MediaMatchesRoom` (REQ-CONF-2, 3, 5), `HoldStartsNoMusic` (REQ-CONF-5),
  `LastOneHearsMusic` (REQ-CONF-4), `ReservationEnds`: the room; what is heard is
  stated for rooms with hold music installed.
- `OneAtATime`, `EveryLegOwned`, `CallerGoneEnds`, `RingingStops`,
  `MemberGoneEnds`: the hunt. `EveryLegOwned` says that a phone with the call is
  watched by the joined call, a dialler or the handler that reads the channel, or
  is one of three leftovers of the code: the winner of a Join that failed, one leg
  in a channel nobody reads any more, a loser hung up under the cancelled context.
  The winner of a joined call is never left over.
- `MusicOnlyInHold`, `AudioComesBack` (REQ-HOLD-3), `EntryEnds`: the hold.
  `AudioComesBack` starts where a phone's re-INVITE finds both legs sendrecv and
  nobody holding; see the observations for what it does not promise.
- `NonceHasTimer`, `GoneIsReported`, `NoMessageLost`, `QueuedMessageArrives`
  (README.md, offline messages): registration.
- `OneKeepalive`, `QuietWhenOff`: the trunks. `NoInheritedMembers`: the store.
  `RestoreCompletes`: the database is closed only while a restore is at work or
  after one that could not open it again, and a restore that reports success and
  was not overlapped has put everything back.

### Where code and documentation disagree

1. **Per-extension limit.** Check and count are in different critical sections;
   two INVITEs at once exceed `max_simultaneous_calls` (REQ-PBX-2).
2. **Park.** Dropping the parker's leg wakes `waitDialogPair` of the call, which
   hangs up the parked leg: the slot holds a dead leg (OPERATIONS.md, park flow).
3. **Star-code transfer.** The callee's leg is taken as the held party whoever
   dialled the code, and hanging up the caller's leg wakes the call's wait, which
   hangs up the callee's too (REQ-XFER-3).
4. **Simultaneous hunt.** `cancel()` precedes `Join` under the cancelled context,
   whose wait ends at once and hangs up both legs (comment on waitBridgedLegs).

The four above are runs. Three more were met while modelling: the models contain
them, and the properties above are worded so as not to deny them.

5. **Orphaned dialogs.** "No orphaned dialogs or bridges" (REQUIREMENTS.md:45-47,
   REQ-CALL-4), but an answered leg is closed without a BYE, and its phone keeps
   the call, when the bridge of Connect does not start (`bridge.go:160-163` with
   the deferred close at 119-123), when Join fails (`hunt.go:159-161`), and when
   the bridge of a REFER's or transfer's target does not start. When the caller
   cannot be answered because it has gone, the callee's BYE goes out under the
   context that ended with it (`bridge.go:140`); the losers of a simultaneous hunt
   get theirs under the cancelled context (`hunt.go:147`), and one leg can stay in
   the channel with none.
6. **Referrer.** After a REFER the held party "MUST be bridged to the transfer
   target" (REQUIREMENTS.md:82-87, REQ-XFER-2), and
   `transfer_integration_test.go:153-154` fails a held party that is "dropped
   instead of being transferred". The call's wait still watches the referrer's leg:
   when the referrer hangs up, as phones do after a transfer, held party and target
   are hung up too (`ReferEnds`, `WaitEnds`). The test never hangs the referrer up.
7. **Trunk calls and the limit.** `max_calls` "caps total concurrent calls across
   the PBX" (REQUIREMENTS.md:165-166, REQ-PBX-2), but calls from a trunk take no slot
   (`InboundTrunk`, `Inbound`); `WithinSystemLimit` speaks of slots only.

### Observations

Met while modelling; the models contain these behaviours, and no property above
denies them.

Holds. `startHeldPartyMOH` reads `holdMediaRoot` without the lock and derives a
context from it later: when `leave()` comes between, `context.WithCancel(nil)`
panics (`hold_control.go:423-431`), and `recoverHoldPlayback` guards only the
playback goroutines, not this call. A late unhold of the music fallback
(`hold_dialtone.go:313`) after `leave()` gave up waiting makes the legs ready
without anybody starting a bridge: the call stays silent until the next
re-INVITE. `leave()` stores a bridge without looking again whether a new hold
has begun (`hold_control.go:1339-1364`). A hold that finds the bridge not ready
is recorded some time after it asked (`hold_control.go:848`): when
`markBridgeReady` comes between, nobody enters it. A hold that arrives during
`holdEntering` is dropped, and a release in the first two seconds of an entry is
taken for noise.

Registration. Two goroutines may notify one subscription, so an older state can
carry the higher CSeq, and a refreshing SUBSCRIBE starts CSeq again. An OPTIONS
that revives an expired binding is told to nobody. Two deliveries at once, or a
mark that fails, send a stored message twice. A nonce timer that has fired may
delete a nonce that was renewed a moment ago; the phone is challenged again.

Administration. `active` keeps a goroutine that has returned by itself: a trunk
switched off and on again between two ticks is not called any more
(`keepalive.go:116`). An extension file that is being saved makes a concurrent
reload fail, the error is ignored and the tables become nil; a do-not-disturb code
then writes into a nil map (`web/server.go:275`, `dnd.go:22`; place `panic`). A
save that fails leaves a truncated file, which makes every later reload fail. Two
reloads may leave the four extension tables different. `setDND` changes memory
although the save failed, and a web save can undo it. A restore that fails
half-way leaves a mixture, and one that was left with an empty database reopens
it without a web user. Creating a group with a number that exists replaces the
members of the existing one. A member save that is under way across a restore can
leave rows for an id that is given out later (excluded by `ever`). A trunk route
may name a group that is deleted at that moment. A `config.toml` truncated by a
restore reads as a valid configuration without trunks. Finally,
`config.example.toml:14` says that `trunk_keepalive_seconds` 0 disables the
keepalive, while `setDefaults` turns 0 into 30.

## 4. Proofs

The theorems hold for every value of the constants allowed by the named
assumptions: finite sets of calls and callers, null values outside the sets they
are told apart from, at least one hunt member, and plans whose requests have the
form the web server's handlers give them (`PlansAssumption`). Every state
invariant that a passing run checks is also a theorem. None of them is inductive
alone; what had to be added, and was model-checked on the run's instance before
it was proved, is the substance of each proof.

- `CallManagerProofs`. The limit is not inductive alone: a goroutine between
  `Load` and the swap must have seen a value below the limit (`SwapBelowLimit`),
  the counter must equal the goroutines past the swap (`SlotCount`), sessions
  must be recorded exactly by those in a call (`OnRecord`), and the counts must
  be the recorded legs (`LegCount`). From these: `Typing`, `SystemLimit`,
  `Accounting` and, step by step, `Refinement` of `CallAdmission`.
- `CallControlProofs`. `Typing`, `Index`, `SlotPeer`, `RetrievedReleased`, `Clean`.
  `CInv` says what a goroutine has in its hands at each point (`Locals`), that the
  registry and the slots taken are exactly those of the goroutines that still give
  them back (`Books`), that an ActiveCall loses its callee's leg to a park only
  (`Fields`), that whoever parks has a part in the call and takes the other's leg
  (`Parkers`), and what has become of legs (`Kept`, `LegsOver`, `Retrieved`). The
  heart is `Claims`: a callee's leg that is up although its call is over, or that
  a park has taken, is in a slot of the lot, in the hands of a goroutine that
  parks or retrieves it, or about to be put there. Each unlocked read in the
  code is a step in which this could be lost: the leg `StealHeldLeg` reads and
  then clears, the drop of the parker's leg that wakes the call, a retrieve
  that is refused. `Joined` adds the history of bridges: a leg that was bridged is
  never abandoned, and is gone by the time its call is torn down; legs are
  abandoned only from places where their INVITE has not been bridged.
- `ConferenceProofs`. `Typing`, `Capacity`, `Privacy`, `MusicOff`, `Media`, `Hold`.
  `MediaMatchesRoom` speaks of settled states only; its strengthening says what
  the last reconcile left behind for as long as nobody has changed the room since,
  and that somebody who has changed it still has a reconcile to do.
- `HuntProofs`. `Typing`, `Ownership`, `InOrder`. The strengthening says that a
  sequential hunt uses neither diallers nor the channel and joins the member its
  loop stands at, and that a leg is in one place only, with its dialler, in the
  channel or joined (`OnePlace`).
- `HoldProofs`. `Typing`, `InHold`. `HInv` says that what plays does so under a
  context that is not cancelled, that such a context exists only in a hold or in
  the part of `enter()` that starts the playback, that a watchdog which has
  captured a context has captured this one (`Playing`), and which goroutines have
  a leg (`Entering`, `Located`). It holds for any number of goroutines and
  re-INVITEs.
- `RegistrationProofs`. `Typing`, `NoncesTimed`, `Reported`, `Lossless`.
  `NonceHasTimer` and `GoneIsReported` are inductive together with the types,
  which say where a goroutine must stand to hold watchers or a row.
  `NoMessageLost` needs that a goroutine marks only a row whose message a phone
  has taken (`MarksTaken`).
- `AdministrationProofs`. `Cancellable`: `OneKeepalive` for any number of trunks,
  goroutine records and requests. It is inductive with the types of the
  supervisors' bookkeeping; the step of a supervisor uses that new goroutines get
  different unused records (`Injections`), and every request leaves the
  bookkeeping alone. `Typing` needs to know which statements a request of each
  kind can stand at (`Fits`), for instance that a goroutine which reloads never
  holds a half-written file. `Restored`: `StoreOpen` is inductive; `RestoredWhole`
  needs that a request nobody overlapped is the only one under way (`Sole`) and,
  stage by stage, what its restore has put back so far (`Staged`).
- `GroupProofs`. `NotInherited`: `NoInheritedMembers` for any number of group
  requests, backups and restores. A database can come back from an archive while
  requests still hold ids of the one before, so the invariant `History` speaks of
  all copies of the database at once: a birth that anybody claims for an id (a
  row, a member list, a request under way, in any copy) is one that every copy
  with that birth in its history has given this id, below its sequence, and no
  other group has had the id there since. A step either brings in nothing new
  (`HistoryKept`) or inserts a group above the sequence (`InsertKeeps`).

Only model-checked: liveness (all properties with `~>` or `<>`), because fairness
and ENABLED are out of the prover's reach; and the four violations, which are
counterexamples. The wait of `RingingStops`, `CallerGoneEnds`, `MemberGoneEnds`,
`PeerReleased`, `ReferredPairReleased`, `LastOneHearsMusic`, `ReservationEnds`,
`EveryInviteDecided`, `AudioComesBack`, `EntryEnds`, `QueuedMessageArrives` and
`QuietWhenOff` for its end is therefore known for the instances of section 3 only.

## 5. Not modelled, and the plan

Next, in this order:

1. Abstract specifications for two more components and the proof that the models
   implement them, as `CallAdmission` is for the manager: the park lot (a slot is
   filled, then emptied once, by one retriever) and the trunk supervisors (at most
   one keepalive per trunk and kind is on record).
2. `Paging`: a dial loop over the members and one fan-out. `Router` as an operator
   checked against a table.
3. The conference table and its capacity, which a room keeps from its creation.

Not planned: audio processing, DTMF detection and codecs (signal data, no
protocol state), pages, themes and sessions of the web interface, decoding and
defaults of configuration files, start-up, NAT discovery, and the libraries, which
are modelled only by how the code uses them.
