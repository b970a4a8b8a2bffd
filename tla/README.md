# Verification of the Flow Offload Scheduler

TLA+ modules that model the scheduler's coordinator, the TLC configurations that
check them on small instances, and proofs checked by TLAPS. Paths are relative to
the directory that contains `src/` and `tla/`.

## The system

The coordinator decides which flows run on which targets (hosts or offload
devices) and follows each decision until its effect has been observed.

| part | code | how it interacts |
| --- | --- | --- |
| Engine: tables of flows, targets, assignments, holders, recommendations, authorizations, migrations | `engine.cpp`, `engine_internal.hpp`, `model.hpp`, `state.hpp` | Every public operation holds `state_mutex` from its first check to its persist. |
| Placement planner | `placement.cpp`, `units.hpp` | Called under the engine's lock; reads the cached demand per target and commits a batch of assignments. |
| Rebalance report | `placement.cpp` (833-1027) | Reads the tables, changes nothing. |
| Load evidence | `engine.cpp` (`ingest_load`) | Sequence numbers per source; not persisted by itself, written out with the next commit; the planner reads the outcome. |
| Fences, history eviction | `engine.cpp` (314-400) | Records of what was stopped, which no guard reads; bounded tables. |
| Migration contracts | `engine.cpp` (1132-1158) | A stateful intent needs one that covers it. |
| Store | `store.cpp`, `store.hpp` | The engine commits its whole state after each operation; `open()` recovers it. |
| Asynchronous operations | `engine.cpp` (`submit`, `wait_for`, `poll`, `cancel`) | Jobs on the thread pool that call `place`; own lock, `operation_mutex`. |
| Thread pool | `thread_pool.cpp` | Bounded queue; runs jobs in the caller when it has no workers. |
| Service and client | `service.cpp`, `socket.cpp` | A thread accepts connections; each occupies a worker of a second pool and calls the engine. |
| Wire protocol, serialization, canonical encoding, digests | `protocol.cpp`, `serialize.cpp`, `canonical.cpp`, `digest.cpp` | Bytes of frames and of durable state. |
| Exports, tools | `export.cpp`, `tools/` | Read and print. |

`PROJECT.json` lists every part with its status, and the hazards at the lines where
they bite.

## The modules

| module | models |
| --- | --- |
| `Lifecycle` | the engine's decision and effect lifecycle |
| `LifecycleProofs` | proofs about `Lifecycle` |
| `Placement` | the placement decision, the capacity accounting and the rebalance report |
| `PlacementPlans`, `PlacementProofs` | proofs about `Placement`: what its operators compute, and the theorems |
| `Evidence` | load evidence of several sources, with failed commits and restarts |
| `EvidenceProofs` | proofs about `Evidence` |
| `Store` | the durable store, step by step, with kills and I/O errors |
| `DurableCell` | what the store promises: one durable cell |
| `StoreProofs` | proofs about `Store`, and that it implements `DurableCell` |
| `AsyncOps` | asynchronous operations, the thread pool and shutdown |
| `AsyncOpsProofs` | proofs about `AsyncOps` |
| `Service` | the service's threads, its connections and its clients |
| `ServiceInvariant`, `ServiceProofs` | proofs about `Service`: the invariant and the steps of the service's threads; those of the clients, and the theorems |
| `MCLifecycle`, `MCPlacement`, `MCEvidence` | instances for TLC |
| `LifecycleClaims`, `PlacementClaims`, `EvidenceClaims` | statements of the documentation that the code does not meet |

Definitions named `Faulty...` are the definition after them with one plausible
mistake. They take no part in any specification; each shows that a property can
fail.

### Lifecycle

The variables are the tables of `Engine::Impl`: `flows`, `targets`, `assignments`,
`holders`, `recommendations`, `authorizations`, `migrations`, the generations and
the epoch. One action is one public operation, because an operation holds the lock
throughout: registering and removing flows; declaring targets (a first declaration,
the same again, new capabilities, a new incarnation); removing them; policy and
topology; `Place`; `Authorize` and `RevokeAuthorization`; `IssueIntent`;
`Acknowledge` and `Decline`; `ReportApplied`; `Observe`; `AbortMigration`;
`Restart`, and `ReopenInMemory` for an engine without persistence. An operation that
is refused changes counters only and is a stuttering step.

Messages from executors need no network: nothing obliges one to arrive, it may
arrive in any state, and a repeated one is refused or changes nothing.

`Place` takes any plan that assigns eligible flows to usable targets; which plan the
planner picks is `Placement`'s subject. Commits to the store succeed here.

### Placement

`scheduled` is the cached demand of each target, `Recomputed` the function that
refreshes it. `Decision` evaluates one flow (`Eligible`), ranks the candidates
(`RankKey`, `Precedes`, cut to `MaxRanked` before they are ranked) and applies the
fallback rule. `PlanOf` decides the flows of a batch in id order, each against what the
batch has planned before it (a fold that takes the last flow off first), and `Place`
commits the plan. The cache is refreshed
*before* the assignments change, as in the code. The other operations appear for
what they do to the cache. Amounts are bounded by `MaxAmount` and saturate like the
code's integers. Compatibility checks on fixed fields are two relations over `Kind`.

`rebalance` changes no table, so it is not an action: `Rebalance` is the report it
would give in a state: the proposals with the largest gains, up to the limit, as a set.
`NoMoveBack` compares the reports before and after any step that makes one of the
proposed moves.

### Evidence

`load`, `conflicting` and `watermarks` are the fields `ingest_load` reads and writes,
`cell` what the store holds. A report is admitted or refused by `Admitted`, then takes
one of two paths: `IngestLate`, for one older than the load that agrees with it, and
`IngestLoad`. Any report of any source may arrive in any state, so delay, loss,
duplication and reordering need no network. Incarnation and capability generation are
checked alike and a change of either drops the load, so one `version` stands for both.
The store is the cell of `DurableCell`. `Persist` is the commit of every other
operation: it may fail, and then the store has or has not taken the state, or is damaged
(`Unknown`), and commits acknowledged from then on may be lost until one compacts it.
`Reopen` is a crash at any point, followed by `open()`, whose repair may also damage the
store; from a damaged one it recovers any state that is not newer than the memory.
`ReplaysStayRefused` therefore speaks of acknowledged commits only while the store is not
damaged: the code has no replay protection beyond what the store keeps. The history variables hold what was reported about the newest instant
(`newest`, `reports`) and the sequences a source may not go below (`owed`, `acked`).

### Service

One thread runs `run()`, each worker handles one connection, one owner starts and
shuts down, and each client is a thread of its own. `request_stop` is three steps, by
the owner or by the handler of a Shutdown frame, with the other threads between them.
A connection is a record of its two ends and of the frames under way in each
direction; either end may close at any time. `Dispatch` leaves open whether the
engine was reached and what it answered. The pool is seen through its queue; its
condition variables are in `AsyncOps`.

`SendRaw` puts any frame under any correlation on the connection, or the first part of
one. A handler that has read part of a frame waits for the rest, and whatever the client
sends next is read as that rest (`Completed`): it may complete the frame, leave it
incomplete, or make it a frame that is refused, with some bytes left over. Two
assumptions are behind this: a frame decodes only if its digest was computed for its
bytes, and no payload contains a whole frame. A call that only fills up such a frame
waits with the server for each other, as `service.hpp:99` warns; `CallsReturn` promises
its return only once a stop is requested. A raw frame can also carry the number of a
later call, whose reply then looks like the call's own; `AcceptedIsHandled` says that
nothing else can be taken for it.

Closing a socket ends a `recv` or `accept` that another thread is blocked in. That is
the behaviour of Windows, the only platform the repository reports as built
(`docs/limitations.md:36`). On POSIX systems `close` does not promise it, and the
liveness results do not carry over.

### Store and DurableCell

The files are variables that survive `Crash`; the fields of the `Store` object do
not. `open()`, `commit()` and `compact()` are cut into the steps between which a kill
leaves different files. A write that is cut short leaves nothing, a torn record or a
whole one. A torn record hides the start of the next: recovery may stop there or
refuse the store, so `Recoveries` is a set. `exposed` is a history variable: a failed
write or a repair that discards replayed records sets it, a compaction clears it.

`DurableCell` is the abstract specification: commits are begun, reach one cell, and
are acknowledged only when they are there. The refinement maps the cell to the state
that a kill at this moment would leave, and to `Unknown` while `exposed`.

### AsyncOps

Threads take steps under one mutex at a time. Condition variables are modelled with
real waiting: a waiting thread stays until it is notified, so a lost wake-up would
show. The pool runs with workers or inline, and the operation table has room for one
or two entries (`config`). One owner thread opens and shuts down the engine.

## Runs

Passing runs. `tlc -workers 2 -config <run>.cfg <module>`.

| run | module | instance | shows |
| --- | --- | --- | --- |
| `Lifecycle_restart` | `MCLifecycle` | one flow in two generations, the second with or without exclusive state, two targets, attempts and topologies, a history of one entry, one restart | attempts in flight are current, verified effects are backed by a completed attempt, holders are assigned, also after the rebuild at restart, usable targets are on the current topology, finished attempts stay finished |
| `Lifecycle_shared_key` | `MCLifecycle` | no persistence, reopened once; two flows with one key, one flow per request; a history of one entry; two incarnations and capability generations | assigned flows hold their state, no double assignment, effects follow acknowledgements, authority follows the assignment, nothing verified is on an old incarnation |
| `Placement_batch` | `MCPlacement` | two flows of demand 2, two targets of capacity 3, two generations and incarnations, two requests | planned demand is exact, a batch that starts from an accurate cache overfills nothing, other operations refresh the cache |
| `Placement_evidence` | `MCPlacement` | two flows of demand 2, capacity 4, reserve 1, known, stale, missing and conflicting evidence, two load models, anchors | a batch overfills nothing with load evidence either, and no rebalance report undoes a move that one selected |
| `Evidence` | `MCEvidence` | two sources, two targets, two sequences, instants, versions and contents, three accepted reports, two reopenings | the load is the newest report, a conflict is a real disagreement, replays stay refused until the store is damaged |
| `Store` | `Store` | four commits, three kills, two I/O errors, compaction after two records | the store implements the cell and recovers what was acknowledged |
| `AsyncOps` | `AsyncOps` | two callers, two workers or none, queue of one, two operations | cancellation, no lost job, settlement, waiters return, shutdown completes |
| `Service` | `Service` | two clients, one call, one raw frame or part of one, two connections, one worker, queue of one | registry and pool agree, nothing is left open, an accepted call was carried out; shutdown and `run` return, and so do calls that are not behind half a frame |

Violated runs, one for each disagreement kept as a finding.

| run | the documentation says | the code does |
| --- | --- | --- |
| `Claim_exclusive_batch` | `src/README.md:390`: no double assignment of exclusive flow state | two flows of one request pass the holder check together (`placement.cpp:507`) |
| `Claim_one_attempt` | `src/README.md:250`: a second attempt for a flow is refused | a placement clears the pending mark of an attempt in flight (`placement.cpp:788`) |
| `Claim_capacity` | `src/README.md:385`: committed demand never exceeds capacity | the cache is refreshed before the assignments are made (`placement.cpp:734`) |
| `Claim_crash` | `store.hpp:76`: a crash loses at most the in-flight commit | a torn first record is kept, and the next commit is appended behind it (`store.cpp:426`) |

A store that did repair a torn first record would still violate
`CrashLosesOnlyInFlight`. After a torn tail, `open()` rewrites the journal empty
(`store.cpp:645`), and the records it replayed are on no file until the next commit.

### Bounds

Two flows and two targets are the least with which flows compete for a key, a target
or a batch, and a flow can move. Two generations, incarnations or epochs are the
least with which something is superseded. In `Placement` the capacity holds one
flow's demand and not two, so every batch of two competes, and `MaxAmount` is large
enough that no sum in those batches overflows. In `Store` the threshold of two
records lets a journal hold records with and without a compaction, and three kills
allow a crash during the repair after a crash. In `AsyncOps` a queue of one fills and
a table of one evicts. In `Evidence` two sources are the least that disagree, and two
instants the least with a late report; two reopenings let what the first recovered be
lost or kept by the second. In `Service` one worker and two connections
leave one queued while the other is handled, and the queue of one refuses when both
arrive first; a raw frame leaves a reply that the next call finds, or half a frame that
takes the call's bytes. Either client may be the one that calls. Three connections,
which fill the registry, or a second call multiply the states by five or more: that the registry
keeps its size, and that no later call takes an earlier reply, is left to the proofs.
The owner may start and stop any number of times. `Lifecycle_restart` has one incarnation
of each target, since a second makes it more than five times as large; that an attempt in flight
names the present incarnation of its destination (`InFlightIsCurrent`), and that a
restart with two flows on one key rebuilds the holders (`AssignedHoldsState`), is also
left to the proofs. Bounds that are not in the code are named in each module.
Symmetry is used only over targets in `Lifecycle` and over sources and targets in
`Evidence`, which compare them only for equality, and only with invariants and action
properties.

### Fairness

`AsyncOps` and `Service` have liveness properties. In both, each thread has weak fairness on the steps
of a call it is already in, which is what the operating system's scheduling gives a
runnable thread. No caller has to submit, wait, cancel, open or shut down. A
placement terminates because `place` has no loop that waits. In `Service` the owner, the
thread in `run()`, the workers and a client that waits for a reply go on when they
can; nothing makes a client connect, send, hang up or read, or the owner shut down.

## Proofs

`tlapm M.tla` checks them, for each of `LifecycleProofs`, `PlacementPlans`,
`PlacementProofs`, `EvidenceProofs`, `StoreProofs`, `AsyncOpsProofs`,
`ServiceInvariant` and `ServiceProofs`. Every invariant and every action property that a
passing run checks is proved, and so is the refinement; only liveness is not.

| module | theorem | says |
| --- | --- | --- |
| `Lifecycle` | `TypeCorrect`, `LifecycleCorrect` | `TypeOK` and `LifecycleInv` always hold |
| | `AttemptsAreCurrent` | `InFlightIsCurrent` always holds |
| | `VerifiedIsTrue`, `VerifiedIsCurrent` | `VerifiedIsBacked` and `VerifiedOnCurrentIncarnation` always hold |
| | `HoldersAreAssigned` | `HolderIsAssigned` always holds |
| | `EffectsFollowAgreement` | `EffectsAreAcknowledged` always holds |
| | `AssignmentsAreRegistered` | `AssignedIsRegistered` always holds |
| | `TerminalFinality` | `TerminalIsFinal` |
| | `StateIsHeldForSingleRequests`, `ExclusiveStateForSingleRequests` | `MaxBatch = 1` implies that `AssignedHoldsState` and `ExclusiveState` always hold |
| | `UsableIsCurrent` | `UsableOnCurrentTopology` always holds |
| | `AuthorityIsCurrent` | `AuthorityFollowsAssignment` always holds |
| `Placement` | `TablesWellFormed` | `TypeOK` always holds |
| | `PlannedDemandExact` | `PlannedDemandIsExact` always holds |
| | `CapacityConserved` | `BatchConservesCapacity` |
| | `AssignmentsAreCounted` | `ScheduleRefreshed` |
| | `RebalancingSettles` | `NoMoveBack` |
| `Evidence` | `EvidenceCorrect`, `EvidenceWellFormed` | `EvidenceInv` and `TypeOK` always hold |
| | `LoadsAreNewest`, `ConflictsAreReal`, `ReplaysAreRefused` | `LoadIsNewest`, `ConflictIsReal` and `ReplaysStayRefused` always hold |
| `Store` | `StoreCorrect`, `FilesWellFormed` | `StoreInv` and `TypeOK` always hold |
| | `AcknowledgedIsRecovered`, `SequencesAgree` | `RecoversAcknowledged` and `SequenceIsDurable` always hold |
| | `StoreImplementsCell` | the store implements `DurableCell` |
| | `AcknowledgedIsKept` | so what the cell promises holds of the store: it never loses an acknowledged state before a fault |
| `AsyncOps` | `AsyncCorrect`, `OperationsWellFormed` | `AsyncInv` and `TypeOK` always hold |
| | `CancelledIsNotPlaced`, `ShutdownLeavesNothing`, `OnePlaceAtATime` | `CancelIsHonoured`, `NoJobLeftBehind` and `OneJobPerOperation` always hold |
| | `SettledIsFinal` | no step changes an operation that has settled |
| `Service` | `ServiceCorrect`, `TablesWellFormed` | `ServiceInv` and `TypeOK` always hold |
| | `RegistryAgrees`, `StopLeavesNothingOpen`, `AcceptanceIsEarned` | `RegisteredIsServed`, `NothingLeftOpen` and `AcceptedIsHandled` always hold |

They hold for every value of the constants that satisfies the assumption of the module:
any finite sets of flows, targets, sources, clients and workers, any bounds. What is
assumed beyond that: at least one dimension (`PlacementAssumption`), at least one worker
and a positive queue size (`AsyncOpsAssumption`, `ServiceAssumption`; `AsyncOps` also runs
without workers, by `config`), and positive thresholds (`StoreAssumption`).

### Lifecycle

`LifecycleInv` is inductive relative to `TypeOK`. Its conjuncts need each other.
`VerifiedOnCurrentIncarnation` is preserved by `Observe` only because an attempt in
flight names the destination's present incarnation (`InFlightIsCurrent`). That
survives a restart because restoring ends every attempt, and reopening without
persistence because the epoch then never leaves 1, which is the first conjunct.
`VerifiedIsBacked` needs `EffectsAreAcknowledged`, so that the attempt that completes
has both acknowledgements, and `TerminalIsFinal`'s step lemma, so that it stays as it
was. `HolderIsAssigned` needs `AssignedIsRegistered` and `InFlightIsCurrent`.

`ExclusiveState` is not inductive. `AssignedHoldsState` is added: every assigned flow
with exclusive state is its holder, so the check of the holder table sees it. The
hypothesis `MaxBatch = 1` is needed, as `Claim_exclusive_batch` shows.

`UsableOnCurrentTopology` is inductive once no target is of a newer topology than the
current one (`NoneAhead`), so that an advance withdraws every target it leaves behind.
`AuthorityFollowsAssignment` rests on `NoAuthorityAhead`: no authorization is of a
schedule or policy newer than the current one, so publishing either retires all of
them. The only other step that moves a flow completes a migration, and
`TerminalIsFinal` keeps it completed.

### Placement

The inductive invariant is only that the tables are well formed (`PlacementInv`). The
work is in what the operators compute. Sums over flows and the plan of a batch are folds;
`PlacementPlans` shows that the recursions behind them have a solution and only one
(`SumsExist`, `PlansExist`, `SumsAgree`, `PlansAgree`), and derives what they compute from
a smallest counterexample among the subsets of a finite set (`SmallestSet`). From this
follow that a sum may take off any element (`SumRemove`) and splits over any subset
(`SumSplit`), and that the plan of a batch, cut to the flows before one of them, is the plan
of those flows (`PlanPrefix`).

`PlannedDemandExact`: what the planned assignments put on a target is what is there, less
what the batch releases, plus what it adds (`DemandPlanned`), and nothing saturates.
`CapacityConserved` looks at the flow decided last among those a target gains. It found
room next to all the demand the target then has, in each dimension in which it or the
reserve needs room. In a dimension in which no added flow needs room the code's check says
only that the load is within the capacity, and so does the property. Flows
released later only make room. `AssignmentsAreCounted` needs each such operation to call
`recompute_scheduled_locked` on the assignments it leaves.

`RebalancingSettles`: the flow's gain is the utilisation of its target less an estimate for
the other target that counts the flow. After the move, the load of the new target is at
most what that estimate assumed, and that of the old one at least what it was less the
flow's demand, in every load model and also where sums saturate (`LoadWithFlow`,
`ClampWithFlow`). So both gains cannot be positive.

### Evidence

`EvidenceInv` adds two facts to the properties of the run. `NoLoadIsForgotten`: what
drops a load also drops its history, so the next report starts afresh.
`AckedIsCovered`: the last acknowledged commit is covered by the memory *and*, unless it
is damaged, by the store, whichever commits failed after it, so that reopening finds it.

### Store

`StoreInv` says for each step of `open()`, `commit()` and `compact()` what the files hold.
`Ordered`: all records but the last are whole and numbered upwards. `Survivor`: recovery
of such a journal ends with its last whole record, or with the snapshot if that is as
new. `Sound`: what survives was acknowledged or begun since. `OpeningAgrees` and
`OpenAgrees`: the memory agrees with it, at each step of `open()` and while the store is
open. All but `Calls` and the types is claimed only until `exposed`. That recovery ends
with the survivor, for a journal of any length, is proved from a least index at which it
would not.

The refinement maps the cell to the survivor. `CrashLosesOnlyInFlight` remains violated:
the theorem is about the time before a fault, as the property is.

### AsyncOps

`AsyncInv` says where an operation may be: in the queue or in the hands of one thread, never
in two places (`Single`), in one until it is settled (`Somewhere`), unsettled while it is
there and in the table while unsettled (`Unsettled`). `Owned` ties the workers to the
owner's steps: a worker leaves only when a stop was requested and the queue is empty, and
nothing is queued after that. `Cancellable`: a cancellation is accepted only while no
thread has begun the job. `OneJobPerOperation` counts the same places with cardinalities.

### Service

`ServiceInv` adds three facts to the properties of the run. `PoolInv`: a worker has a
connection exactly while it handles one, none leaves before the pool is stopped and its
queue empty, and the listener is closed by then. `OpenIsHeld`: a connection open at the
service's end is in the backlog, in the hands of `run()`, or registered, and in one of
them only. `RegisteredIsServed` needs both: a connection that `run()` registers is new to
the queue and to the workers. `NothingLeftOpen` is then a consequence, because all three
places are empty once `shutdown()` and `run()` have returned. `OwnReplies` carries
`AcceptedIsHandled`: a client's connection is its own, also where half a frame mixes with
what follows it (`JoinedIsOwn`), so a reply under the correlation of its call answers that
call or a raw frame the client gave the same number, and whatever accepts a request, on
the way or in a worker's hands, follows its handling. No step is assumed to happen, so
fairness plays no part.

### Only model-checked

The liveness properties of `AsyncOps` and `Service` (`EveryOperationSettles`,
`WaitersReturn`, `ShutdownCompletes`, `RunReturns`, `CallsReturn`): liveness under fairness
is out of the prover's reach. The properties of the claims modules are violated, so there
is nothing to prove of them.

## Other disagreements

TLC also violates these properties of the claims modules. No run is kept for them;
each is reached by putting the property in place of the one in the named
configuration and changing the constants listed.

| property | from | constants | the text | the code |
| --- | --- | --- | --- | --- |
| `PendingHandoffIsInFlight` | `Claim_one_attempt` | `MaxRecommendations = 1`, `MaxAttempts = 1`, `MaxIncarnation = 2`, `StickyPolicies = {TRUE}` | `engine.cpp:851` | a new incarnation of the destination aborts the attempt and leaves the source's holder waiting (`engine.cpp:872`) |
| `VerifiedOnCurrentCapability` | `Claim_one_attempt` | `MaxRecommendations = 1`, `MaxAttempts = 1`, `MaxCapability = 2`, `StickyPolicies = {TRUE}` | `engine.cpp:834` | attempts in flight survive a new capability generation and are verified (`engine.cpp:841`) |
| `AuthorizationNamesAssignment` | `Claim_one_attempt` | `MaxRecommendations = 1`, `MaxAttempts = 1`, `StickyPolicies = {TRUE}` | `model.hpp:393` | a completed migration does not consume the authorization (`engine.cpp:1304`) |
| `EpochPerOpen` | `Claim_one_attempt` | `Persistent = FALSE`, `MaxRestarts = 2`, `StickyPolicies = {TRUE}` | `docs/states.md:32` | without persistence every opening has epoch 1 (`engine.cpp:553`) |
| `AttemptRecordsBounded` | `Claim_one_attempt` | `MaxMigrations = 1` | `limits.hpp:13` | finished attempts stay in the table (`engine.cpp:1406`), and the decoder refuses a state with more than `kMaxMigrationRecords` (`serialize.cpp:1010`) |
| `BatchNeverOverfills` | `Claim_capacity` | `Flow = {1, 2, 3}`, `Demands = {2, 4}`, `Capacities = {4}`, `StickyPolicies = {FALSE}` | `docs/architecture.md:57` | releases are taken off a saturated sum (`placement.cpp:541`) |
| `MigrationFits` | `Claim_capacity` | none | `docs/limitations.md:20` | no step of a migration looks at capacity (`engine.cpp:1601`) |
| `StickyRetains` | `Claim_capacity` | `Flow = {1}` | `tests/test_placement.cpp:342` | a flow's demand is counted twice on its own target (`placement.cpp:549`) |
| `RequestRemembered` | `Claim_capacity` | `Flow = {1}`, `MaxRequests = 1`, `Demands = {1, 2}` | `README.md:396` | the request just recorded may be the one evicted (`engine.cpp:385`) |
| `BestOfAllEligible` | `Claim_capacity` | `Flow = {1}`, `MaxRanked = 1`, `RequestId = {1}`, `Demands = {1, 2}`, `Costs = {1, 2}` | `limits.hpp:15` | candidates are cut by id before they are ranked (`placement.cpp:566`) |
| `SourcesBounded` | `Evidence`, without `SYMMETRY` | `MaxSources = 1` | `limits.hpp:13` | a late report that agrees adds its source without the check (`engine.cpp:1012`), and the decoder refuses a state with more than `kMaxEvidenceSources` (`serialize.cpp:1012`) |
| `DisagreementIsConflict` | `Evidence`, without `SYMMETRY` | none | `docs/boundaries.md:45` | a further report of the source that spoke last clears the conflict (`engine.cpp:1045`) |
| `RepeatsAreRefused` (a PROPERTY) | `Evidence`, without `SYMMETRY` | none | `docs/boundaries.md:44` | a sequence repeated with other content is refused only if the target's present load has it (`engine.cpp:998`) |

Read in the code and not reached by a module: `place` and `rebalance` ignore a failed
commit (`placement.cpp:828`, `placement.cpp:1024`), although `engine.cpp:198` says
the commit outcome is the operation outcome. A service without workers runs the handler inside
`try_submit` with `connection_mutex` held, and `drop_connection` takes it again
(`service.cpp:143`). Evidence about a target that a newer topology has withdrawn is
accepted (`engine.cpp:964`), although `docs/boundaries.md:40` says evidence for an
undeclared target is refused.

## Not modelled

- Digests, canonical bytes, serialization and the frame layout: models treat a digest
  as identifying its content. The coders keep no state between calls.
- Exports and command line tools: input and output only. Of the sockets only opening,
  closing and delivery appear, in `Service`.
- Counters and explanations: nothing reads them.
- Power failure: the crash points the store names are deaths of the process.
- Opening and shutting down one engine from two threads.
- Commits that fail under the engine, except for evidence; contracts' contents; ids
  that clients keep across a restart.
- Fence records: no guard reads them.
- A service without workers, and `Client::call_raw`, which waits for one reply like
  `call` and compares nothing.

## Plan

1. `Durability`: `Lifecycle` and `DurableCell` together, with commits that fail, so
   that "acknowledged" means what a client was told.
2. `Evidence` composed with `Placement` in place of its `IngestLoad`.
3. Contracts as a table with its bound; ids reused after a restart.
4. The arithmetic of `units.hpp` against exact definitions.
5. Proofs that connect the modules: that `Placement`'s plans are plans `Lifecycle`'s
   `Place` may take, and that `Evidence` implements what `Placement` assumes of loads.

The number of runs is kept small: a new component's run takes the place of a
configuration whose question another run also answers.
