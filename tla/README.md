# mudflaps: a TLA+ model

TLA+ modules, TLC configurations and TLAPS proofs about mudflaps, the stateful
fake of the Fly.io Machines API in this repository. Everything is translated
from the Go source; file and line references below are to `src/`.

## The system

mudflaps is one process with an HTTP server. Every request runs in a goroutine
of its own; all state is in memory. Nothing is persisted, so there is no crash
recovery to speak of: a restart is an empty server.

| component | state | operations |
|---|---|---|
| store (`internal/store`) | apps, machines per app, volumes, secrets, IPs, certificates, under one `RWMutex` | one method per operation; `UpdateMachine` runs a caller's closure on the record under the mutex; everything returned is a deep copy |
| lease manager (`internal/lease`) | a table key -> (nonce, expiry) under one mutex | `Acquire`, `Get`, `Refresh`, `Release`, `Check`, `Clear`; an expired entry is deleted by the next call that looks at it |
| advancer (`internal/machine`) | none of its own; timers on the clock | one method per lifecycle operation, each arms a timer; callbacks move the machine to its resting state or reap it |
| clock (`internal/clock`) | real: none. fake: now, pending timers | `Now`, `AfterFunc`; fake: `Advance` |
| server (`internal/server`) | none of its own | HTTP handlers: sequences of calls on the four above |
| wait (`server.go` `waitMachine`) | deadline of the poll | a long poll: look, compare, sleep, look again |
| process (`cmd/mudflaps`) | the listener | start, graceful shutdown |
| identifiers, wire types, regions, health, stubs | none | pure |

**Interactions.** A handler calls the store, the lease manager and the advancer
one after the other and holds nothing between two calls. The advancer's
callbacks run on timer goroutines and call the store. `UpdateMachine` closures
read the clock under the store's mutex, and the lease manager reads it under its
own; neither the store nor the manager calls the other, and no clock callback is
run under the clock's mutex (the fake clock unlocks around each), so the lock
order is store or manager, then clock, and has no cycle. `FakeClock` checks this
for the store's mutex; the manager's is never taken by a callback.

**What is hard.** Each component is safe by its mutex; the hazards are between
calls. The lease check, the terminal check and the mutation of one handler are
three critical sections; `touch` is a fourth. Timers are never cancelled, and
their callbacks write the machine without looking at its present state.
`deleteApp` goes over the machines' leases first and drops the app last. Leases
expire by the clock while their entries stay in the table. A handler that writes
a volume, a secret, an address or a certificate finds its app in one call and
writes in another, and the app of the second need not be that of the first. The
fake clock runs callbacks in the middle of an `Advance`, while handlers go on
arming timers. Seconds of a request wrap around in a `time.Duration`.
`PROJECT.json` lists
each hazard with its line and the properties about it.

**What makes each component correct.**

* Lease manager: one live lease a key; a nonce opens one key; a lapsed nonce
  never works again; a lease holds until the expiry its holder was shown.
* Store: a machine lives in an app that exists; its history names every instance
  once and in order, the last being the current one; what is gone never comes
  back under its id. Of an app's other resources, what is shown is what the last
  write left, in this life of the app; secret versions number the writes.
* Advancer: no machine is stuck in a transient state or brought to a state that no
  operation on it leads to; a machine comes up exactly if its present config can
  boot; a delete ends with the machine gone.
* Server: leases protect their holder; deleted machines stay deleted;
  `UpdatedAt` is fresh and never goes back; an internal error is owed to a deletion
  of the app that overtook the request.
* Wait: an answer is true of the machine, and every wait ends: when its deadline
  has passed, when its client goes away, when the process shuts down; the
  deadline is in range whatever the client asked for.
* Clock: timers fire in order, in time and once, and nobody waits for a mutex for
  ever.

## The modules

```
AbstractLease <--refines-- LeaseManager        Store <- Lifecycle <- Server <- ServerProperties
      ^                                                              |   ^           |
      +------------------------- INSTANCE Lease ---------------------+   |       refines
                                                                         |           v
                                              Durations <-------------- Wait    MachineLife

AbstractTimers <--refines-- FakeClock          AppResources
```

An arrow without a label is `EXTENDS`, from right to left.

**`AbstractLease`** is what leases promise: `holder[k]` is the nonce in force for
key k. There is no clock; a lease may run out at any time (`Expire`).

**`LeaseManager`** is `lease.go` with its table `m`, including the entries that
have expired and have not been looked at. One action for each method (`Get` and
`Check` delete an expired entry and change nothing else: `Purge`). `Refresh`
reads the clock twice, as the code does; the two readings may differ, since
`Tick` is not held up by the manager's mutex on a real clock. `promise` is a
history variable: the last envelope each nonce was shown, in whole seconds
(`leaseEnvelope`, `server.go:843`). The mapping to `AbstractLease` takes an entry
to its nonce while it is in force and to no holder once it has expired.

**`Store`** has the apps and the machines and one operator for each method, and
the mutations of one record: `SetState` and `Settle` of the advancer's callbacks,
`WithState` of the handlers, `Churn` of an update. A machine keeps what the
properties tell apart: app, state, current instance, history, whether its image
boots, `UpdatedAt`, the cordon flag. Names, regions, addresses and metadata
values are left out.

**`Lifecycle`** adds the armed timers and one action for each callback. A timer
fires at any time after it was armed, and two of them in any order: the delays
are configuration (`Delays`), each operation has its own, and a callback runs in
a goroutine that may be held up. What holds here holds for all delays. The create
callback sets `starting` and arms the boot timer in two calls, which `FireCreate`
takes as one step: between the two the machine is as after both, and a boot timer
armed later is one that fires later.

**`Server`** is the handlers. `pc[r]` is the call that request r makes next, or
its answer; one action is one call, with the mutex of the component it calls.
The correspondence, handler by handler:

| handler | actions |
|---|---|
| `createApp` | `CreateAppStep` |
| `deleteApp` | `ListMachines`, `ClearListed` per machine, `DropApp` |
| `createMachine` | `FindApp`, `ReadClock`, `StoreMachine`, `Schedule` |
| `updateMachine` | `LeaseCheck`, `TerminalCheck`, `Mutate`, `Schedule` |
| `startMachine` .. `suspendMachine` (`transition`) | `LeaseCheck`, `TerminalCheck`, `Mutate`, `Touch`, `Schedule` |
| `deleteMachine` | `LeaseCheck`, `Mutate`, `ClearLease`, `Touch`, `Schedule` |
| `cordonMachine`, `uncordonMachine` | `LeaseCheck`, `TerminalCheck`, `Mutate`, `Touch` |
| `setMetadata`, `deleteMetadata` | `Mutate`, `Touch` |
| `acquireLease` | `Lookup`, then `AcquireLease` or, with a nonce, `RefreshLease` |
| `releaseLease` | `Lookup`, `ReleaseLease` |

Choices a reader should know of:

* A request is used once. The ids it draws (machine, instance, nonce) are named
  after it, which makes them distinct, as `internal/id` takes its random ids to
  be. Clients only know ids of machines that were stored and nonces that were
  granted.
* `Stored(i)` looks a machine up by its id alone. In the code the app is part of
  the path; a request whose app does not match finds nothing, which is the
  answer for an unknown id and is not modelled a second time.
* `createMachine`'s `ReadClock` is an action of its own because the machine is
  stored with a time read before the store's mutex is taken. The other handlers
  read the clock under it.
* Every call of the store or the lease manager is one step. Each holds its
  component's mutex from its first access to its last, and none calls another
  component but the clock, which it reads once (the exception, `Refresh`, reads it
  twice, and `LeaseManager` gives it both readings).
* `now` does not go back. `UpdatedAt` is taken from the wall clock of the process,
  and the properties about it are about the order of calls: an operator who sets the
  clock back moves `UpdatedAt` back with it.
* `seen` is a history variable: what had happened when a request looked. For a
  request with a lease check it has the nonces issued by then; for a create, the
  deletions of its app that were answered before it looked the app up.
* Lease expiry is `AbstractLease`'s `Expire`, at any time. This is what
  `LeaseManager` is shown to implement, so `Server` needs no lease clock. Only
  `now`, for `UpdatedAt`, remains.
* Handlers that change nothing (lists, gets, `signal`, `exec`, `ps`, health,
  regions, the stubs) and answers to malformed bodies are left out. `getLease`
  may delete an expired entry, which `AbstractLease` does not show.

**`ServerProperties`** states what is checked. Its last section has the
statements of the documents that the code does not keep.

**`MachineLife`** is what the owner of a machine may rely on: it is born once, its
history grows by instances no living machine had, and once gone it stays gone. In
the mapping (`Life` in `ServerProperties`) a machine is live while the store holds
it, and gone when it was stored once and is not any more. The other states of a
machine are not part of it: they are what handlers and timers may overwrite.

**`Wait`** adds long polls (`waitMachine`) to the whole of `Server`: `Poll`,
`CheckDeadline`, then `Wake` or `Drop`. The deadline is on the injected clock,
kept as the time `elapsed` since the wait began: no property relates a wait's
deadline to `UpdatedAt`, and `Server`'s `now` stands still in these runs. The
timeout is what `clampTimeout` makes of the parameter. The pause of
`waitPollInterval` is real time and ends at any time. `done`
has the waits whose request context is done: a client that disconnects, or the
shutdown of `main.go`, which cancels the context all requests descend from. An
unknown machine is answered differently for an app that exists (`destroyed` is
then satisfied) and for one that is gone. The history variable `reached` notes
whether the machine was as wanted at any time up to the deadline, looking at
every state and not only at those a poll sees.

**`Durations`** is the arithmetic of `clampTimeout` and of the TTL in
`acquireLease`: seconds times ticks per second, wrapped around in a signed word.
The word is a parameter; TLC takes one of 8 or 16 values, in which the wrap-around
is within reach. `MCLeaseManager` feeds its TTLs through `RequestedTtl`.

**`AppResources`** is the rest of an app: volumes, secrets, IP assignments and
certificates. The four go through the same steps, so an item has a kind, a key and
the request that last wrote each of its parts; what differs between the kinds is
what names them, whether they carry times, and whether a write is numbered. An
app has a `life`, named after the request that created it, which tells a handler
that finds its app again from one that writes into the next app of that name.

| handler | actions |
|---|---|
| `createVolume`, `setSecret`, `assignIP` | `FindApp`, `ReadClock`, then `CreateVolume`, `SetSecret` or `AssignIP` |
| `createCertificate` | `FindApp`, `SetCertificate` |
| `updateVolume` | `UpdateVolume` |
| `deleteVolume`, `deleteSecret`, `deleteIP`, `deleteCertificate` | the action of that name |
| `createApp`, `deleteApp` | `CreateApp`, `DeleteApp`, as far as these resources go |

Machines and these resources meet in nothing but the app's existence, which is why
`AppResources` has apps of its own and is not composed with `Server`: both delete
the whole entry in one step (`store.go:89-97`).

**`FakeClock`** is `Advance`, `AfterFunc` and `Stop` of the tests' clock, between one
goroutine that advances it, handlers that touch a machine and arm a timer, and the
callbacks. The two mutexes are variables: a handler holds the store's while it
reads the clock, a callback takes the store's while its `Advance` has let go of the
clock's. `Advance` is split where the code unlocks (`Fire`) and locks again
(`Relock`). `Stop` takes no mutex, so it looks and marks in two steps. A callback may
arm one more timer (`Chain`), as the create timer does. `AbstractTimers` is what
this amounts to for whoever arms a timer. `Lifecycle` assumes less of its timers
than `AbstractTimers` gives (any order, any time), because the real clock runs
each callback in a goroutine of its own.

Some operators have a faulty form defined just before them, commented as such
(`SetStateAlone` before `SetState`). No specification uses these; each is a
mutant of `PROJECT.json`, and every checked property has one that makes it fail.

## The runs

| run | instance | properties |
|---|---|---|
| `lease_manager` | 2 keys, 4 nonces, times 0..6, 2 ticks a second, the server's TTL 0, 1 or 3 ticks or one of 1 or 5 seconds in a word of 16, default 2 | `TypeOK`, `PromiseKept`, `NonceOpensOneKey`, `ImplementsAbstractLease`, `LapsedStaysLapsed` |
| `server_lifecycle` | 4 requests, both kinds of config | `TypeOK`, `VersionHistory`, `BootVerdict`, `InStep`, `TransientIsOwned`, `StateWasAskedFor`, `Reaped`, `ImplementsMachineLife` |
| `server_leases` | 4 requests, two apps, one of them there at first | `ForeignLeaseIsLater`, `ClearedByDelete`, `NoStrayMachine`, `ErrorMeansAppDeleted` |
| `server_progress` | 3 requests, times 0 and 1, fair | `UpdatedAtFresh`, `UpdatedAtMonotone`, `EveryMachineSettles`, `DeleteReaps` |
| `wait` | 2 requests, 1 wait, both kinds of config, ten timeouts in words of 8, clamped to 1..2, fair | `WaitTypeOK`, `StartedVersionBoots`, `DestroyedStaysGone`, `NoHastyTimeout`, `DoneWaitsEnd`, `LateWaitsEnd` |
| `app_resources` | 4 requests, one app, one name, one address, times 0 and 1 | `ResourceTypeOK`, `LastWriteShows`, `NothingOutlivesItsApp`, `VersionsInOrder`, `DeletedOnce`, `ErrorMeansLifeEnded`, `UpdatedSinceAsked` |
| `fake_clock` | 1 goroutine that advances by 1 or 3 up to 4, 2 handlers, delays 0, 1 and 2, single timers and chains, fair | `FakeClockTypeOK`, `FiresInOrder`, `ChainsKeepPace`, `DueTimersFire`, `ImplementsTimers`, `EveryCallEnds` |
| `wait_misses` | 2 requests, 1 wait, timeout 1 | `TimesOutUnreached`; violated |
| `lease_race`, `late_timer`, `rest`, `lease_leak` | 2 or 3 requests | one each; violated |

**Bounds.** One request is spent on creating a machine, which leaves three that
act on it at the same time: enough for an operation, another client's operation
that comes between two of its calls, and a third that undoes or repeats it. With
two machines created instead, two requests remain. No handler touches two apps;
the second app of `server_leases` is not there at first, so that a create can
meet an unknown app, and an app can be deleted and created again under one name.
In the lease manager 2 ticks a second make the truncation of the expiry visible;
a TTL of 3 ticks ends in the middle of a second; the time bound lets a lease run
out, be replaced, and the replacement run out; five seconds come out negative. Two
times are enough for `UpdatedAt`, since the properties compare two, and three
requests: the machine's, a mutation and another's touch between it and its own.
One wait is enough: waits read and never write, so they do not interact. Two
requests are enough in `wait` for a machine to be created and updated, deleted or
dropped with its app under a poll. The ten timeouts are a missing one, one that
is no number, and numbers below the floor, in the range, above the ceiling, and
beyond the word on either side. `elapsed` stops one tick past the longest timeout,
where no wait tells times apart.

In `app_resources` the kinds do not interact, and neither do names or apps, except
for the counter of secret versions, which two secrets share with each other as one
does with itself. Four requests are a write, a deletion of the app, its creation
anew, and one more of any sort between. In `fake_clock` two handlers arm up to
four timers, two chains among them, of which any two can be due at one time; an
`Advance` by 3 goes over a whole chain, one by 1 ends inside it.

The bounded counters are `now <= MaxTime` (`Server`, `LeaseManager`, `AppResources`,
`FakeClock`), `elapsed <= MaxTimeout + 1`, and the number of requests, nonces or
handlers.

Symmetry over requests (and over keys and nonces) is used in most runs of safety
properties, never with liveness. Deadlock is not checked in the runs of
`Server`: when all requests have been answered, or the remaining clients send
nothing, and the timers have fired, the server rightly has nothing to do; the same
goes for `AppResources`, and for `FakeClock` once its clock has run to its bound.
In `Server` no call waits for another, so there is no handler to get stuck; where
the mutexes are variables, `EveryCallEnds` says that nobody does. `LeaseManager`'s
run does check deadlock.

**Fairness** (`FairSpec`): weak fairness of each request's handler and of each
request's timers. Goroutines that can run are run by the Go scheduler, a `sync`
mutex is not held across anything that blocks and hands over to a waiter that
starves, and a `time.AfterFunc` timer fires. Nothing is assumed of clients, of
the clock or of lease expiry. `FairWaitSpec` has weak fairness of a wait's own
steps, and strong fairness of `Drop`: when both cases of a `select` are ready, Go
picks one at random, so a done context that is found again and again is taken.
`FakeClock`'s `FairSpec` has weak fairness of every goroutine that is under way, and
none for beginning anything: no mutex toggles for ever, since the calls of a run
are bounded in number, so weak fairness is enough.
`DueTimersFire` needs no more than that: a call of `Advance` that is under way comes
to an end, and not before it has fired what was due. `EveryMachineSettles` holds
because each client acts once: a client that keeps restarting a machine keeps it from resting.

## Where the documents and the code differ

Each is a run that TLC finds violated (details and quotations in
`PROJECT.json`, "findings").

1. `lease_race`. The lease check and the mutation are separate critical
   sections: a mutation lands while another client's lease is in force. What does
   hold is `ForeignLeaseIsLater`: the foreign lease was granted after the check.
2. `late_timer`. No race is needed: the create timer of a machine deleted early
   overwrites `destroying`, and the machine then accepts operations until it is
   reaped. (A start that passed the terminal check before the delete has the same
   effect.) `Reaped` and `DeleteReaps` hold all the same, because the reap asks
   nothing of the state.
3. `rest`. A machine stopped before its boot ends rests in `stopped` and then
   boots, because nobody cancelled its create timer.
4. `wait_misses`. A wait looks at the machine and then at the clock. A machine that
   stopped in time, and stays stopped, is answered 408 if the clock passes the
   deadline between the two looks; on the fake clock, one `Advance` does both. A
   state passed through between two polls is missed as well.
5. `lease_leak`. A lease acquired while `deleteApp` runs, on a machine created after
   the listing or already cleared, is left in the manager. It does no harm there: no machine is stored under its id again
   (`ImplementsMachineLife`).

Two observations need no run of their own. A timeout of more than 292 years wraps
around and is clamped as if it were small, although `docs/fidelity.md:91` says it is
clamped to the range, that is, to 60 seconds; what holds is that it is in the range
(`NoHastyTimeout`, `LateWaitsEnd`). And the fake clock is for one goroutine that
advances it: with `Advancer` a set of two, TLC finds the clock set back by the
`Advance` that began first (`ImplementsTimers`, `ChainsKeepPace`, `FiresInOrder`).
The tests keep to one.

## What is proved

TLAPS checks these for all values of the constants.

* **`AbstractLeaseProofs`**: `OneKeyPerNonce` (a nonce is in force for at most one
  key; inductive with the typing) and `LapsedNonceStaysLapsed`, both for `NoNonce \notin Nonce`.
  `AbstractLease` has no run of its own: TLC evaluates it as the property of
  `lease_manager` and as a part of `Server`.
* **`LeaseManagerProofs`**: `TypesHold`, `PromisesAreKept`,
  `TableImplementsAbstractLease`, and through the refinement
  `LapsedLeasesStayLapsed` and `NoncesOpenOneKey`. The invariant is `IInv`: the types, that no two
  entries share a nonce, and that a promise not withdrawn is backed by an entry
  that expires no earlier. `PromiseKept` alone is not inductive, since it does
  not say where the time promised is kept. In the refinement each method's
  deletion of expired entries is a stutter, and time passing (`Tick`, or the
  second clock reading) is `Expire` of the set of keys that lapse: `LapseRefines`.
* **`ServerProofs`**: `TypesHold`, from `TypeInv` = `TypeOK` and `Control`.
  `Control` says which requests can be at which call; without it the typing is
  not inductive, since the record a handler writes is built from its `call`.
  The others rest on it:
  - `TransientMachinesAreOwned`: a machine in a transient state has an armed timer
    or an unfinished handler, the safety half of `EveryMachineSettles`.
  - `NoMachineStrays` and `BootVerdictHolds`, each inductive with `TypeInv`; the
    lemmas `MutatedKeeps`, `FireKeeps` and `StoreSteps` say what a closure, a
    timer and any step do to a record.
  - `ForeignLeasesAreLater` and `DeletesClearLeases`, from `LeaseInv`, which adds
    that what a request saw was issued (a create's `seen` apart, which has deletions). `LeaseStep` shows that a server step is a
    step of `AbstractLease` or leaves the leases alone; a nonce granted later is
    therefore new, and no request saw it.
  - `DeletesReap`. `Reaped` says nothing while the reap's timer is armed, so the
    invariant is `ReapAhead` (an accepted delete has its own timer, or the machine
    is gone) with `TargetsKnown` (a request's machine was stored once, so its
    create cannot store it again).
  - `LeasesAreAService`: by `LeaseStep`, the server as a whole implements
    `AbstractLease`, with which its handlers mix calls of the store and the timers.
    `NoncesOpenOneMachine` and `NoLeaseIsRevived` carry over to it what
    `AbstractLeaseProofs` shows.
* **`HistoryProofs`**, about the machines over their whole life:
  - `HistoriesAreOrdered` and `RestingMachinesInStep`. That an update's instance is
    new to the history is not in the history: the invariant `HistoryInv` adds
    `Origins`, which says that each instance was drawn by a create or update of
    this machine that is past its mutation, so that an update that is about to
    mutate is none of them. `MarkOrdered` is about a timer or an update that marks
    the last entry.
  - `MutationsShow` and `UpdatedAtNeverGoesBack`, from `TimeInv`: no time in the
    store is ahead of the clock, and a mutation shows as soon as its handler has
    no `touch` ahead of it.
  - `ErrorsMeanDeletions`, from `ErrorInv`: once a create has found its app, the app
    exists or a deletion answered since the lookup has dropped it (`AppSteps`: an app
    goes only in the step that answers a deletion). That what the create saw are
    deletions of its app is a part of it.
  - `StatesWereAskedFor`, from `AskedInv`: what a machine shows was asked for only
    because what armed timers lead to was (`TimersAsked`), and that of a create that
    skips its launch because it arms none (`LaunchWanted`). A timer's operation need
    not be the last one accepted, which is why the invariant says nothing of order.
  - `MachinesLiveOnce`: each step of handlers and timers is a step of `MachineLife`
    or leaves its view of the machines alone.
* **`WaitProofs`**: `TimeoutInRange` and `TimeoutExact`, about the clamping of a
  timeout for any width of a duration, and on them `WaitTypesHold` and
  `NoWaitIsHasty`. The invariant `WaitIInv` adds to both that every wait's timeout
  is in the range; of the server it needs nothing but that machines and versions
  are named after requests. `StartedMeansBoots` and `DestroyedMeansGone` need more:
  `ServerRuns` shows that the server beside the waits still runs as `Spec` says, so
  its invariants hold there, and `InstanceConfig` adds that a machine has the
  config that the request behind its current instance carried, if it carried one.
  What was answered stays true because no id is stored twice.
* **`FakeClockProofs`**: `FakeClockTypesHold`, for any number of goroutines that
  advance the clock. The others have the hypothesis `OneAdvancer`, without which they are false (above): `CallbacksRunInOrder`,
  `ChainedTimersKeepPace`, `ClockGoesForward` and `FakeClockImplementsTimers`. Their
  invariant `ClockInv` says that nothing pending is overdue and nothing fired early;
  that an `Advance` does not overshoot, and that while the callback of a timer
  runs it is the time the timer was due, which is what makes a chain keep pace; and
  that what `Stop` is about to mark is still pending. In the refinement `Fire`,
  the second half of `Stop`, arming a timer and the return of `Advance` are the
  steps of `AbstractTimers`; taking and giving back a mutex are stutters.
* **`ResourceProofs`**: each of the run's properties: `ResourceTypesHold`,
  `ClientsFindTheLastWrite`, `AppsStartEmpty`, `SecretsVersionsOrder`,
  `DeletionsSucceedOnce`, `InternalErrorsMeanDeletions` and
  `SecretsUpdatedSinceAsked`, for any apps, names, addresses and requests, finite or
  not. The invariant `ResourceInv` orders the writes that took effect
  (`PlaceInv`): their places differ and none is beyond their number, so that the next one
  comes last. `LivesBegun` says that a life is named after a create that has been
  answered, so that the next life is new to every write made before. On these, `ShowInv` says of one
  app, kind and key what is there and what was written; it is stronger than
  `LastWriteShows`, which does not say that what is there was put there since the
  last deletion. `WriteForms` brings every write to one of two forms, refused or
  replacing what was at its key; `WriteShows` is about the key written, and
  `WriteShowsHereOnly` about all others.

The assumptions are those named in the modules: `NoNonce` is no nonce, the
sentinels are not records, `KeepConfig` is not a config, `OldLife` is not a request
(an app that was there at first has a life of its own), `InitApps` are apps, `DefaultTTL`
and `Second` are positive, and the values of a duration are an even number, more
than twice the longest timeout. TLC evaluates them in the runs. Temporal steps are
discharged by PTL.

Every invariant, action property and refinement that a passing run checks is also
proved. Only model-checked are the liveness properties, since fairness and
`ENABLED` are outside the prover: `EveryMachineSettles` and `DeleteReaps` of the
server, `DoneWaitsEnd` and `LateWaitsEnd` of the waits, and `DueTimersFire` and
`EveryCallEnds` of the fake clock. The safety half of some is proved:
`TransientIsOwned` says who will move a machine on, `ReapAhead` who will reap it.

## What is not modelled

* Lists, gets and the listings by organisation: one store call each that returns
  copies, and no state of their own.
* The values of secrets and the digests kept of them; sizes, regions, hostnames.
* Of the shutdown, the listener and the ten seconds the drain may take.
* Random identifiers (taken to be distinct; the addresses `allocateIP` draws are
  not), JSON, routing, logging, the static
  answers: no behaviour of interest here.
* Metadata values: the handlers' calls are modelled, the map is not.

## Plan

What is left to model: a timed lifecycle with fixed delays, over
`AbstractTimers`, which would show which of the untimed races remain under
`DefaultDelays`.
