# Verification of commonweal

TLA+ models of commonweal (`src/src/commonweal`), checked with TLC, and theorems
about them, proved with TLAPS. Line numbers refer to files under
`src/src/commonweal/` unless a path says otherwise.

commonweal lets a small group pool machines that serve open models. A **client**
asks the **coordinator** for a lease on a **peer**, seals its request to that
peer, and posts the envelope to the coordinator, which relays it and passes the
peer's sealed frames back. The coordinator sees who uses what, never the text.
Everything that runs concurrently runs as asyncio tasks, one event loop per
process, so the code between two awaits is one step in every model here.

## 1. Inventory

| Component | Source | State | Operations | Where it is hard |
|---|---|---|---|---|
| Scheduler | `coordinator/scheduler.py` | `_leases`, `_redeemed`, `_waiters` (a heap), each waiter's future | `acquire`, `redeem`, `release`, `expire_stale`, `_dispatch` | deadline, cancellation and resolution of one future in any order; a sweep that ends a lease while its relay runs; duplicates of an envelope; waiters that cannot be served |
| Registry | `coordinator/registry.py` | `PeerState` per peer, `Attestation` per contributor | `heartbeat`, `attest`, `live_peers`, `acquire_slot`, `release_slot`, `mark_failure`, `contributors`, `snapshot` | two crediting paths over the same time; health that is read before or after it is overwritten; capped gaps; a sentinel time; all of it lost on a restart, while the ledger is not |
| Replay rejection | `replay.py`, `coordinator/auth.py` | `NonceCache._seen` | `check_fresh`, `check_and_add`, `_prune` | late copies, restarts, a full cache, a wall clock that is set back; an id that is used up by a copy nobody serves |
| Coordinator application | `coordinator/app.py` | none of its own | `/v1/lease`, `/v1/infer`, `/v1/peers/heartbeat`, `/v1/roster`, `/v1/stats`, `/v1/balance` | the response generator's `finally` returns the slot; a peer can fail between any two lines |
| Relay | `coordinator/relay.py` | none | `relay_to_peer`, `_sniff_receipt` | it reads receipts on the way but must pass every line on |
| Ledger | `ledger.py` | SQLite tables of contributions and consumptions | `record_contribution`, `record_consumption`, `balance` | a second row for a request; what counts as earned |
| Peer application | `peer/app.py` | `_last_progress`, `_cached`, `_probe_lock`, the seen-set | `/infer`, `/health`, `ready`, `_probe` | the id is remembered before the request can be opened; one probe for all callers; verdicts from stale evidence; engine failure in mid-answer |
| Heartbeat loop | `peer/heartbeat.py` | its place in the cycle | `heartbeat_loop`, `send_heartbeat` | lost beats, lost replies, an interval that starts after the send |
| Client | `client/client.py` | its roster; the next sequence number, the final bit, the collected `Completion` | `lease`, `events`, `complete` | the coordinator picks the peer by another roster; an untrusted relay may drop, repeat, swap, renumber and re-mark frames |
| Engines | `engines/` | per answer: whether text and reasoning came, last counts, last reason | `stream`, `health`, `models` | frames that mix fields; reasoning-only output; a cut without counts; usage missing, zero or repeated |
| Roster | `roster.py` | admins, members, peers, signatures | `parse`, `signed_bytes`, `load`, `credit_split` | whose signature decides; documents edited, kept and put together by hand; defaults that are part of the signed bytes; shares |
| Identity and keys | `client/keys.py` | key file, keychain entries | `generate`, `save`, `load`, `migrate_to_keyring` | two stores written, and read, one after the other; either write can fail or be the last |
| Command line, measurement | `client/cli.py`, `measure.py` | none of their own | `keygen`, `keyring-migrate`, `roster init`, `roster sign`, `contribute`, `chat`, reports | those that write an identity or a roster |
| Frames, canonical form, versions | `proto/` | none | `parse_frame`, ... | pure functions of one message |
| Cryptography | `crypto.py` | none | `seal_request`, `seal_chunk`, `verify_envelope`, ... | the nonce is derived from the sequence number; the key of the recipient may be a retired one |
| Sanitising, TLS | `sanitise.py`, `tlsconfig.py` | none | | none |

How they interact: handlers of the coordinator call scheduler and registry
synchronously; the scheduler calls `registry.live_peers`, `acquire_slot` and
`release_slot`; a waiting `acquire` is resolved by `_dispatch` in somebody
else's step. Peer and coordinator meet in two HTTP exchanges, the beat
(peer to coordinator) and `/infer` (coordinator to peer, a stream of lines).
The client speaks to the coordinator only.

What makes each part correct:

- Scheduler: slots are neither leaked nor returned twice, peers are not
  oversubscribed, nobody waits for ever, waiters are served by fair share, a
  freed slot finds the waiter it can serve, an envelope opens one relay.
- Registry: nobody is paid twice or beyond the roster's share for any time,
  nobody is paid for an outage, routing follows the owner's word only.
- Replay rejection: a message is accepted once; where memory is lost, exposure
  is bounded by the window and not by uptime.
- Answer path: no relay and no failure makes a short answer look complete;
  finished answers, and only those, are billed, at what they cost.
- Readiness: "ready" rests on recent output of the engine; one probe serves
  everybody; a lost beat does not evict a peer, a broken engine leaves routing.
- Engines: what the backend said reaches the peer whole and in order; reasoning
  that used up the budget is an error, a cut answer is labelled, the last counts
  are reported.
- Identity: the public and the secret half on a machine belong together, and no
  failure loses a secret that is being moved.
- Roster: a program runs on nothing but a roster that an admin it trusts has signed,
  and what such an admin signs can be loaded.
- Exchange: a request is answered at most once; one that could be answered is not
  used up by one that could not; a coordinator hands a peer nothing it must refuse,
  as long as their rosters, keys and clocks agree.

`PROJECT.json` lists the hazards at their lines, with the properties for each.

## 2. Modules

| Module | Models | Lines of the source |
|---|---|---|
| `LeasePool` | abstract: what the coordinator promises about slots | |
| `Scheduler` | scheduler, the slots and liveness of the registry, `/v1/lease` and `/v1/infer` around them | `coordinator/scheduler.py`, `coordinator/app.py`, `coordinator/registry.py` |
| `Registry` | one peer's `PeerState` and its contributors' accounts | `coordinator/registry.py`, `roster.py` (`credit_split`), `ledger.py` (`record_contribution`) |
| `Replay` | one endpoint's window and seen-set | `replay.py` |
| `Exchange` | client, coordinator and peer from the lease to the first frame, each with its own roster; extends `Replay`, instantiates `LeasePool` | `client/client.py`, `coordinator/app.py`, `coordinator/relay.py`, `peer/app.py`, `peer/__main__.py`, `crypto.py` |
| `Stream` | one answer: engine, peer, relay with ledger, client | `peer/app.py`, `coordinator/relay.py`, `coordinator/app.py`, `client/client.py`, `proto/envelope.py` |
| `Readiness` | `Peer.ready`, `/health`, the heartbeat loop, what the coordinator last heard | `peer/app.py`, `peer/heartbeat.py` |
| `Engine` | abstract: what an engine's stream promises its caller | `engines/base.py` |
| `OpenAICompat` | one call of the adapter's `stream()` | `engines/openai_compat.py` |
| `Identity` | `save`, `load` and migration, and the two commands that run them | `client/keys.py`, `client/cli.py` |
| `Enrolment` | from an admin's identity to the roster a program starts with; extends `Identity` | `roster.py`, `client/cli.py`, `coordinator/__main__.py`, `crypto.py` |
| `MC...` | instances for TLC | |
| `...Proofs` | theorems about the module of that name; `ReplayProofs` also about `Exchange`, `IdentityProofs` about `Enrolment` | |
| `IterationTheorems` | folds over a sequence as a recursive function: an element-wise invariant holds of the result; what `FlattenSeq` returns and how it grows | |

Actions carry the names of the functions or of the moments they stand for;
`PROJECT.json` maps every definition to its lines. Operators marked
`(mutant of X)` are plausible bugs: each property of a passing run is violated
when one of them replaces X. They take no part in the specification.

### Scheduler

A request stands for one exchange: the lease call, the lease, the relay. Its
index is its request_id. `Forget` makes it available again once nothing in the
coordinator refers to the old exchange, so a finite set of requests covers
any number of exchanges in a row.

`pool` is the `Scheduler` object with the registry's `in_flight`. It is one
record because one call changes several of its parts, and because `release`
runs inside `expire_stale`, with a `_dispatch` in each turn. The heap is a
sequence in the order `heappop` returns (score, then `seq`); `_dispatch` is the
scan over it that skips done futures, serves, or defers. `ExpireStale` collects
the expired leases first, as the code's list comprehension does.

The awaiting side of `acquire` is three steps, because asyncio makes it three:
the future is resolved by `_dispatch`, or its wait is ended by `Timeout` or
`Cancel`; the task runs later (`Resume`). Between them anybody may run. From
Python 3.12 on, which the project requires, `wait_for` cancels the awaiting
task when the deadline fires, whatever has become of the future in the
meantime; `Interrupt` says that.

Left out because they change nothing: `redeem` of an unknown or used lease (a
stuttering step), `snapshot`. The score is any member of `Scores` at the moment
of queueing: balances change independently of the queue. The clamp of
`release_slot` at zero is modelled; `SlotAccounting` shows that it never acts.
Timers count down and stop one past their limit, so no bound on time is needed.

### Registry

Peers share no registry state, so one peer is the component. Contribution is
accounted per unit of time: an account holds what its member was paid for each
unit, by its own beats and by the owner's. That turns "who is paid for which
time" into a statement about states. Amounts are scaled by `Total`, so that
`credit_split` stays in whole numbers. The history variables are `spoke`, `gap`
(units in a pause between two owner beats that is longer than the timeout) and
`down` (units through which the peer was known and unhealthy). `Restart` starts the
coordinator again: `_state` and `_attest` are empty, and the accounts keep what the
ledger's file says was paid. The first beat afterwards finds no state to settle,
so the time before it is paid to nobody.

### Replay

A message has one date, within `Drift` of the endpoint's clock, and may be
delivered at any time and any number of times. Corrections of the wall clock
take away at most `MaxSetback` in all. Which of several entries with the same
expiry `min` drops depends on insertion order; the model allows any of them.
`accepted` counts acceptances since the cache last lost the message to a restart
or to a newer entry, so that `AcceptedOnce` isolates what expiry does.

### Exchange

One peer, and three parties that were each started with some version of the roster.
`Entry` is what a version says of the peer (its key, its model) and of the sender
(whether it is listed). `Recipient` is the client's comparison of the lease with
its own roster; `Relay` is `/v1/infer` up to the response generator: member, date, lease;
`Admit` and `RefuseEnvelope` are the peer's `/infer` up to the engine: member,
signature, date, seen-set, unsealing, parsing, in that order. There is no await
between those checks, so they are one step. A copy whose signature does not verify
changes nothing (`InferAltered`); any other copy may come at any time, through
the coordinator or past it (`InferAgain`).

The seen-set and the clocks are those of `Replay`: an envelope is a message, its
date is within `Drift` of the peer's clock, and corrections and restarts of the
peer are there too. The coordinator's clock agrees with the peer's. Slots and leases are
those of `LeasePool`, whose `Reassign` and `Redeem` the actions use; that
`Scheduler` implements it is `KeepsPromise`. The coordinator's nonce cache, which
guards `/v1/lease` and the beats, is another instance of `Replay` and not repeated.

### Stream

A piece of text is its length. A chunk carries the number its text was sealed
under: decryption succeeds under that number only. The coordinator is honest in
`Forward`, `RelayEnds`, `RelayFails` and `Excuse`; in `Meddle`, up to
`MaxMeddles` times, it alters what the client will read, anything but what is
sealed. The client's events and `complete` are in `Opened`, `Read`, `Conclude`.

`Unsealable` is the one fact about encryption used here.

### Readiness

Ages stop at the first value that no longer makes a difference. `Tick` waits
for whatever is due (a task that may run, a timer that fires), so that the event
loop does not lag by a whole unit. A beat's fate is decided when it is sent: it
arrives within `Transit`, or it is lost; its reply may take until `SendMax`
either way. `inference_probe` is on, the default.

### OpenAICompat

The backend is external and may send any sequence of lines. A line is what its
JSON says in the six fields `_parse_sse` reads; a line without any of them stands
for keep-alives, comments, `[DONE]` and frames that do not decode. The generator
runs until it yields, so a line's pieces are `due` until the caller asks for them
(`Give`), and the caller may close it at any of these points (`Close`). `lines`
and `out` record what was said and what was handed over; the properties compare
them, in terms of the lines alone. `Engine` has the same `out` and an outcome.

### Identity

A key pair is a number, shared by its halves. A command's `todo` is the writes of
`save()` still ahead of it; each is a step that may fail (`Refuse`) or be the last
(`Stop`), and opening the file truncates it, which is a step before its content is
there. One command runs at a time, on one identity path; another process may load
the identity meanwhile, and reads first the file and then the keychain. Nobody
else deletes the file or the keychain's entries. `halved` remembers that a keygen
was stopped between its writes, until the file is rewritten.

### Enrolment

`roster sign` uses what a load of `Identity` returned, whole or not: it signs with
the secret half and prints the public one. A body is a roster's version, its admins
and whether it writes out a capacity that `parse` would otherwise sum up, the one
default that becomes part of the signed bytes (`Normal`). A signature verifies
for the key and the bytes it was made with (`Verifies`). Beyond that nothing is
tidy: any body may turn up with any set of the signatures ever made, because
documents are files that people edit and send round. A host pins printed keys,
replaces or drops them, and starts with any document that `Roster.load` accepts
(`Host`), with the keys in any order and, for a coordinator, the version it had.

## 3. Runs

| Run | Question | Instance | States |
|---|---|---|---|
| `SchedulerQueue` | is the queue sound and fair, and every call answered | 3 callers, 2 scores, 1 peer with 1 slot, queue of 2, fair timers and tasks | 568 K |
| `SchedulerModels` | are slots accounted for, offered, kept from nobody by a dead lease, and used as `LeasePool` says | 3 callers, 2 models on a peer each, everything expiring at once | 2.2 M |
| `SchedulerReclaim` | does the sweep spare redeemed leases (docstring) | 3 callers, 1 slot | violated |
| `SchedulerRefused` | does a refused caller hold no slot | 2 callers, 1 slot | violated |
| `Registry` | who is paid for what, who restores routing | owner contributes, one other member, timeout 1, 4 units of time, any restarts | 3.1 M |
| `RegistryPartition` | do the two paths partition time (comment) | as above | violated |
| `RegistryOutage` | is an outage never paid (test comment) | as above | violated |
| `Exchange` | what is answered twice, refused for good, handed to the peer in vain; is a slot left behind | 2 exchanges, 1 slot, 3 rosters, 2 keys, 2 models, a cache of 1, window 1, a setback of 1 | 3.5 M |
| `Stream` | what does the client take for complete, what is billed, does it end | 2 pieces, counts 0 and 3, 2 alterations | 1.0 M |
| `Readiness` | what does "ready" rest on, how often is the engine probed | 2 callers of `/health` and the loop, limits as tight as `OneMissTolerated` allows | 249 K |
| `OpenAICompat` | is what the backend said handed over, and judged rightly | 12 shapes of line, answers of up to 4, both settings of `include_reasoning` | 358 K |
| `Enrolment` | do the halves stay together, is the secret kept, what can a host run on | 2 member ids, 3 key pairs, 2 versions, 2 signatures | 1.3 M |

Why the bounds suffice to be interesting:

- Scheduler: three callers are the least for "one holds the slot, two wait in
  an order". Two models make a waiter that cannot be served stand before one
  that can. A queue of two with three callers also fills. A limit of 0 is due
  at once and stays due, so every timer fires before, with and after every other.
- Registry: the clock starts at 2 and runs to 6. With a timeout of 1 that is a
  gap, its return and one more beat; MAX_CREDITED_INTERVAL is 3, so that a gap
  can exceed it. Claims are -1 and 3 with a capacity of 2, so both caps act.
- Exchange: a cache of one and two messages force an eviction; the clock's four units
  exceed the TTL less the setback, so entries expire as well. From the first roster to the second the
  peer's key and model change, the third does not list the sender: any two of the
  parties can disagree on each. One slot and two exchanges contend.
  `CacheOutlivesWindow` is an assumption the shipped values satisfy (grace 30 s and
  window 120 s against a TTL of 240 s leave just under 90 s for corrections).
- Stream: two pieces and the final marker are three frames, two alterations
  combine into any hide-and-renumber of them. The pieces' lengths are 1 and 8,
  on either side of the char/4 rounding.
- Readiness: probes may take as long as half the interval, beats may be lost
  two and more in a row. The window exceeds the probe interval, as shipped.
- OpenAICompat: the generator remembers two bits, the last counts and the last
  reason. Four lines are enough to set each, overwrite it and let a line that says
  nothing follow; the shapes mix fields as backends do, with a count of 0 and a
  count that is missing next to one that is not. The proofs have no such bound.
- Enrolment: three key pairs are a pair, one that replaces it and one that replaces
  that, under the same or another member id. Two signatures are the least for a
  document with one that verifies beside one that does not, two versions the least for
  one that succeeds another.

`CHECK_DEADLOCK FALSE` is set where the system stops: for `Stream` and
`OpenAICompat`, because an exchange and an answer end, and for `Enrolment`, where
the key pairs of the instance run out.

### What holds

- Slots: `in_flight` is the number of leases on the peer, always
  (`SlotAccounting`), within `max_concurrent` (`KeepsPromise`; `WithinCapacity` is
  proved). `_leases` and `_redeemed` agree (`LeaseTableConsistent`); the heap holds every pending
  waiter once and nobody who was answered (`QueueConsistent`). A slot that comes
  back is offered past waiters it cannot serve, and only a heartbeat can leave a
  waiter beside a slot it could have (`FreedSlotsAreOffered`); the best score is served first
  (`ServedByFairShare`). Whoever has to wait, or finds the queue full, does so for
  slots whose leases have not run out (`BusyIsInForce`): a leaked slot costs the pool
  no call after its TTL. Every call is answered (`Answered`).
- Payment: outside pauses of the owner nobody earns more than the declared share
  for any unit of time (`ShareRespected`); the owner's word never pays for an
  outage (`HeadNeverPaysOutage`), a member's own word never for time already paid
  (`OwnBeatNeverRebills`). `AttestingMeansSpoke` needs the monotonic clock to
  start beyond the timeout, because a member paid on the owner's word has
  `last_seen` 0.0 (registry.py:181).
  All of this holds across restarts of the coordinator.
- Replay: once, unless memory was lost (`AcceptedOnce`); then still within
  `max_age + grace` of the first acceptance (`ExposureBounded`).
- Exchange: an id in the seen-set belongs to a request that the peer has begun to
  answer, or to one that it cannot open or parse as long as it runs
  (`NothingServableIsLost`): remembering the id before unsealing loses nothing, because
  the signature comes first. What the coordinator lets through is neither late nor a
  copy for a peer that can serve it (`LetThroughIsWelcome`), so a slow or
  repeating client does not cost that peer one of its two strikes. The marked leases
  are those a relay runs on (`SlotsFollowRelays`): no relay ends and leaves its slot taken.
- Answers: the client's text is a beginning of the answer (`TextIsPrefix`), and
  all of it if called complete (`CompleteIsWhole`); with an honest relay it is
  billed then, and client, ledger and engine agree (`CompleteIsSettled`). What is
  billed was finished, and text is not free (`BillIsEarned`). Each exchange ends,
  for relay and client (`Settles`).
- Readiness: `ReadyOnEvidence`, `RoutedOnEvidence` and `ProbesAreSpaced` for any
  limits. `OneMissTolerated` has a premise: two rounds of send, interval and probe,
  and the transit of a beat, fit into the heartbeat timeout, and a probe takes
  less than the probe interval. The shipped send timeout (10 s), interval (30 s)
  and heartbeat timeout (90 s) meet it for probes of up to 5 s; the code sets no
  limit of its own on a probe, the engine adapter's is 300 s.
- Engines: the texts handed over are those the backend sent, in order, whatever a
  frame mixes (`AnswerIsWhatWasSaid`); `NoAnswerError` is raised for reasoning
  without an answer and for nothing else (`BlankIsLoud`); the closing Usage has
  the last counts and says that the answer was cut (`LastWordReported`). The adapter
  implements `Engine` (`KeepsContract`): at most one Usage, behind all the text, and no error behind a Usage.
- Identity: the file never points at a keychain entry that does not exist, and only
  a keygen that is, or was stopped, between its two writes takes the halves apart
  (`HalvesMatch`); a migration keeps the secret in one of the two places wherever it
  stops (`MigrationKeepsSecret`). That only such a keygen shows in a load is proved
  (`LoadsAreWhole`).
- Roster: a host runs on a roster that `roster sign` was asked to sign, for a member
  whom it makes an admin, with the key the host trusts for that member
  (`LoadedIsVouched`). What is signed with a whole identity loads on a host that pins
  the printed key and otherwise only admins of that roster (`SignedIsLoadable`).

### What does not hold

Four runs show a disagreement between the code and its own documentation or
tests; `PROJECT.json` quotes the lines.

1. `SchedulerReclaim`: `expire_stale` reclaims redeemed leases too, so a relay
   that streams for longer than the TTL loses its slot while it runs.
2. `SchedulerRefused`: a deadline that fires after the waiter's future was
   resolved, before its task runs, refuses the caller and leaves it a lease.
   The slot comes back with the sweep of a later lease call.
3. `RegistryPartition`: after a pause of owner and member, the owner's beat pays
   the member for time the member's own beats were paid for.
4. `RegistryOutage`: the beat that reports recovery pays the owner's own share
   for the outage, because the new health is in place when it attests.

Known behaviour without a run of its own:

- `acquire` takes a free slot without a look at the queue, and a heartbeat that
  brings capacity does not dispatch, so a new caller can overtake waiters
  (`ServedByFairShare` is about waiters only).
- Nothing but a healthy beat resets `consecutive_failures`.
- The heartbeat interval starts after the send, so with the shipped limits two lost
  beats take a peer out of the pool, though registry.py:21 says that one or two
  should not. `OneMissTolerated` is what does hold.
- A probe's result is dated with the moment before the probe, so that one which
  takes as long as the interval is repeated by each waiter in turn.
- A backend that closes its stream cleanly in mid-answer, without a reason or
  `[DONE]`, ends the adapter's stream normally, and the peer seals a final marker.
  In the same way a stream of neither text nor reasoning passes as an answer, and
  a stream of a Usage alone makes `_probe` report ready.
- `keygen --force --keyring` that fails between its two writes leaves the old
  public half with the new secret, though the docstring of `save` (keys.py:115)
  says that a failure leaves nothing half-stored. This is the exception in
  `HalvesMatch`. An admin with such an identity signs with one key and prints
  another, and no host that pins the printed one accepts the roster.
- The premise of `SignedIsLoadable` is needed: a pinned key of somebody whom the roster no
  longer makes an admin, tried first and with a signature in the document, refuses it.
  `roster sign` replaces the signatures it finds, so a document has two only if
  somebody puts them together; an admin with a new key is refused until hosts pin it.
- Only the coordinator can be told of the version it held, and one that is told the
  version it still holds does not start with the same file again. Peers and clients
  never pass `previous_version`, though docs/ARCHITECTURE.md:149 says that a
  recipient rejects a roster that is not newer than the one it holds (docs/PROTOCOL.md:72).
- A client that refuses a lease tells nobody; the slot stays taken until the lease has
  expired and another call sweeps it.
- Every answer of 400 or above from a peer counts as a failure of the relay, the
  refusals that are due to the sender's roster or clock included.
- Neither the coordinator nor the peer compares the model: a peer started on a later
  roster answers with the model that roster names. Nor does a peer compare its own key with
  its entry, so one with a retired identity refuses every request.
- An owner who runs `contribute` beside the peer sends beats without a health, which
  count as healthy (app.py:189, cli.py:254).

## 4. Fairness

- `Scheduler`: `WF(Tick)`, `WF(Timeout)`, `WF(Resume)`: the event loop keeps
  time, fires timers and runs tasks that are ready. Nothing obliges clients,
  peers or the network; `Answered` holds because `wait_for` has a deadline.
- `Stream`: the coordinator and the client read what is there, and their HTTP
  clients have read timeouts (`PeerSilent`, relay.py:41; `Stalled`,
  client.py:226). Engine and peer are under no obligation at all.

These are the specifications of `SchedulerQueue` and `Stream`. The other modules
state no liveness: an engine's caller may stop asking, and nobody has to load an
identity.

## 5. Proofs

Each `THEOREM Invariance` is `Spec => []IInv` for every value of the constants
that satisfies the module's named assumptions; the others follow from it.

- `SchedulerProofs`: `IInv` is `TypeOK`, `Sound` (in_flight equals the number of
  leases, within capacity; a pending future has no lease; marks of redemption are
  on held leases only), and what a call that is idle, waiting or has opened a relay
  may hold. `SlotAccounting` is not inductive alone:
  `_dispatch` would issue a second lease to a pending waiter that holds one. The
  sweep and the dispatch are folds; `IterationTheorems` carries an invariant
  over a fold, and `Reach` (legal moves, which compose) over their sequence. That
  gives `ImplementsLeasePool`: every step, however many releases and dispatches
  it batches, is a step of `LeasePool` or leaves it alone.
  For the queue and the table the invariant is `QInv`, which adds to `IInv` that
  both list whom they should, once and in order (`QueueSound`, `TableSound`), and
  that whoever is listed still waits. `QueueConsistent` is not inductive alone: a
  handler whose entry were still in the queue when its result is there would resume
  and leave the entry behind. What one dispatch does to the pool is `Tidies`: it
  overtakes nobody for the same model (`Fair`), and leaves no waiter whose model has
  a free slot (`Offered`). The loop in it is described by where a waiter stands when
  its turn comes (`TurnOfWaiter`, `ServeScans`): a slot that is free at the end was
  free at every turn. A sweep of leases followed by a dispatch inherits it, which is
  `ServedByFairShare` and `FreedSlotsAreOffered`.
  `BusyIsInForce` counts: no dispatch and no release makes a lease stale, and the sweep
  takes every stale one in its list away, the list being all of them (`TableSound`,
  `ExpireLeavesNone`), so what is left on a peer without a free slot is
  `max_concurrent` leases in force.
  This bounds what the second disagreement of section 3 can cost.
- `RegistryProofs`: `IInv` says of each account that nothing is paid past its
  mark, and that outside the owner's pauses each unit is within the share.
  The delicate case is an owner's beat over an interval a member attested in:
  the member is skipped unless it is silent for longer than the timeout, and then
  the interval lies in a pause or the member's mark lies before it. After a restart
  the marks are gone; what replaces them is that a head that has not been heard is not healthy,
  and that it becomes so only by a beat that sets a new mark (`Settled`, with the
  head's health as a parameter).
  `AttestingIsEvidence` has the premise `StartTime > HeartbeatTimeout`.
- `ReplayProofs`: an accepted message is in the cache, or its entry expired;
  with `CacheOutlivesWindow` an expired entry means the message is no longer
  fresh, whatever corrections are still to come (`Remembered`).
  `Exchange`: whatever coordinator, client and peer do, the peer's seen-set takes a
  step of `Replay` or none (`WindowStep`), so `AcceptedOnce` and `ExposureBounded` carry
  over. `NothingServableIsLost` needs that a sealed request stays as it was sealed and
  that only sealed ones are dated; a restart with another key or roster changes what
  is servable, and forgets the seen-set with it.
  `SlotsFollowRelays` is not inductive alone: a lease that expired in mid-relay has lost its
  mark while the relay runs on, and a second lease under the same id would be one with a
  relay and no mark. `SlotsSound` adds that whatever is relayed has been sealed, and a
  lease goes to an exchange that has not.
  `CoordinatorImplementsLeasePool` puts together that each action is a reassignment or a
  redemption of `LeasePool`; a restart of the coordinator is the former, with nobody left.
- `ReadinessProofs`: each place a verdict can be (cache, caller, beat under way,
  the coordinator) adds the time that passes there (`Evident`); the line for the
  lock is consistent (`Orderly`); the cache is as old as the last start of a
  probe (`Dated`), which spaces probes. `OneMissTolerated` has an invariant of its own,
  `MissInv`: the coordinator's clock is bounded by where the loop is in its turn
  (`Elapsed`), and a caller that stands in line behind somebody's probe finds it
  fresh when the lock is its own, so that no turn waits for two probes. This is where the
  premise `ProbeMax < ProbeInterval` is used.
- `StreamProofs`: every frame on its way says what the peer sealed
  (`GenuineFrames`), which no alteration changes; the client has the first pieces
  and waits for the next, or has seen the empty piece behind the last
  (`Reached`). A piece is never empty, so a chunk with text cannot pass for the
  final one: that is why `CompleteIsWhole` holds for any number of alterations.
  `CompleteIsSettled` is about a relay that keeps to the protocol (`SInv`): then behind
  each final marker on its way comes the receipt, or an error frame in its
  place, or nothing because the stream broke off (`Followed`); and a receipt the
  client can read has been billed.
- `OpenAICompatProofs`: the generator's state says what a reader of all the lines
  would (`LastSound`: the last counts and the last reason; `SeenSound`: whether text
  and reasoning came), what it has still to yield is text while it reads and at most
  the closing Usage afterwards (`DueSound`, `ClosingSound`), and no Usage is out
  before that (`OutSound`). The last two give the refinement of `Engine`.
  `AnswerIsWhatWasSaid` is an equation between two flattened sequences, of items and
  of lines (`AnswerKept`). `FlattenSeq` is a fold; `IterationTheorems` shows that it
  is the join of its parts and that appending a part appends what is in it
  (`FlattenIs`, `FlattenAppend`), by induction over a set of lengths, so that no
  operator is a parameter. The proof then follows a line: read, it adds the same texts
  to both sides; handed over, they move from `due` to `out`; what ends an answer adds none.
- `IdentityProofs`: the writes a command has left determine what is in both places
  (`CommandSound`); a migration's secret is the one of the file it reads, and the
  keychain has it before the file is touched (`MigrationSound`); what a load has
  read of the file agrees with the entry it is about to read (`LoadSound`).
  `Enrolment`: `LoadedIsVouched` follows from `Accepts` and what a signature says
  (`SignaturesSound`). `SignedIsLoadable` needs besides that a key pair belongs to
  one member in all the places it can be, commands under way included
  (`KeysBelong`), and that whatever is pinned was printed for that member
  (`PinsSound`): a signature of another key under the same id would be
  taken for this one's and refused.

Each inductive invariant was model-checked on the module's runs before it was
proved; a run of its own would ask nothing new of the system.

Model-checked only: liveness (`Answered`, `Settles`), which is out of the prover's
reach. Every other property of a passing run, invariant or action property, is stated
by a theorem. The reverse does not hold: the type invariants of `OpenAICompat` and
`Readiness`, among others, are proved (`TypeCorrect`) and no run repeats them.

## 6. Not modelled

- `health()` and `models()` of the adapter: one request each, without state; the
  outcome of the former is an input of `Readiness`. The mock engine is a test
  double.
- Modes of files and directories, and the warning about git.
- The fields of a roster other than its version, its admins and the capacity of a peer;
  `roster init`, whose draft is one of the bodies that may turn up anyway.
- The `contribute` loop: what its beats do is `Registry.Attest`.
- The primitives of cryptography, canonical JSON, field validation, sanitising, TLS options: pure
  functions; what the protocol relies on is stated where it is used.
- Command line, measurement report, read-only endpoints, SQL sums: no state
  that a property is about.

## 7. Plan

Done: `Scheduler` with `LeasePool`, `Registry`, `Replay`, `Stream`, `Readiness`,
in this order because slots and accounts are what the group shares; then
`OpenAICompat` with `Engine`, and `Identity`; the proofs about them; then `Exchange`
over `Replay` and `LeasePool`, `Enrolment` over `Identity`, and the registry's restart.

Open for the models: beats that an owner's `contribute` adds to those of the loop
(`Readiness`), and a composition of `Scheduler` with `Stream`, for the slot of an
exchange beside the ledger row of its answer.
