# TLA+ models of tangerine-consensus

This directory holds TLA+ specifications of the parts of the repository whose
behaviour depends on the order of steps, and the TLC configurations that check
them. `PROJECT.json` lists the components, the runs, the map from definitions
to source lines, the findings and the hazards.

Source line numbers below are lines of the files under `src/`. `src/README.md`
holds, besides the README, `core/utils/signer_test.go`, `core/syncer/consensus.go`
(lines 183-817) and `core/total-ordering_test.go` (lines 834-1781);
`src/simulation/app_test.go` holds `simulation/app_test.go` and
`simulation/verification.go` (lines 61-222).

## 1. Inventory

### 1.1 syncer.Consensus (`src/README.md` 183-817)

Brings a node that joins late up to date: the caller feeds it the compaction
chain with `SyncBlocks`, while the syncer's own BA agreement modules, fed from
the network, collect the blocks that are being confirmed now. When the two
sources overlap on every chain the syncer stops its goroutines and hands over
to a `core.Consensus`.

| state | meaning |
|---|---|
| `db` | blocks of the compaction chain put so far |
| `configs` | `con.configs[r]`, the config of round r, loaded `ConfigRoundShift` rounds ahead |
| `lattice`, `latticeLastRound` | the lattice, created at the sync block, and the last round whose config it was given |
| `blocks` | `con.blocks[chainID]`, confirmed blocks from the agreements, sorted by position |
| `agreements`, `receiveChan`, `pullChan` | one agreement per chain, the channel their confirmed blocks arrive on |
| `agreementRoundCut` | the round all tips of `con.blocks` were brought to |
| `randomnessResults` | randomness results received from the network |
| `isSynced` | set once, by `checkIfSynced` |
| `lock`, `ctx`, `moduleWaitGroup`, `agreementWaitGroup` | RWMutex, cancellation and the wait groups of the goroutines |

| operation | lines | what it does |
|---|---|---|
| `NewConsensus` | 241-267 | initial state, config of round 0, channels of capacity 1000 |
| `SyncBlocks` | 505-607 | checks the blocks, loads configs, puts blocks, seeds and feeds the lattice, looks for the overlap, hands over |
| `setupConfigs`, `resizeByNumChains` | 627-686 | loads configs up to `maxRound + ConfigRoundShift`, grows `blocks`/`agreements`, appends configs to the lattice |
| `findLatticeSyncBlock` | 405-499 | searches back along the chain for the block the lattice starts from |
| `initConsensusObj` | 269-291 | creates the lattice, starts the agreement, network and CRS goroutines |
| `ensureAgreementOverlapRound` | 343-403 | drops and builds empty blocks, trims `con.blocks` until all tips are of one round, fixes `agreementRoundCut` |
| `checkIfSynced` | 293-338 | finds the tip of each chain in the compaction chain, compares with `con.blocks`, sets `isSynced` |
| `startAgreement` | 689-718 | goroutine: moves blocks from `receiveChan` into `con.blocks`, sorted; forwards pulls |
| `startNetwork` | 721-761 | goroutine: routes votes, agreement and randomness results to the agreements |
| `startCRSMonitor` | 765-798 | goroutine: pushes a new round's CRS to every agreement |
| `stopAgreement` | 800-811 | closes the input channels, waits for the agreements, closes the output channels |

Interactions: the caller's goroutine runs `SyncBlocks`; three goroutines run
beside it from `initConsensusObj` on, plus one per agreement. `con.blocks`,
`agreementRoundCut`, `agreements` and `randomnessResults` are shared under
`con.lock`; `checkIfSynced` reads `con.blocks[0][0]` before taking the lock.

Hard behaviours: the search loops of `findLatticeSyncBlock` (termination, the
boundary where a deliver set has one block); blocks arriving from the
agreements between `ensureAgreementOverlapRound`, `checkIfSynced` and the
flush at hand-over; configs that change the number of chains between rounds;
the shutdown order of goroutines and channels.

Correctness: the lattice is seeded from the first block of a complete deliver
set of a round whose config is that of its neighbours; it is then fed every
later compaction block once and in order; after the round cut no block of an
earlier round is kept; `isSynced` is set only when every chain's confirmed
blocks reach back to the compaction chain; `SyncBlocks` returns.

### 1.2 Total ordering (tests at `src/README.md` 834-1781)

`core/total-ordering.go` is not part of the sources here; its tests are. They
fix the interface (`newTotalOrdering(k, phi, n)`, `processBlock`,
`getAckingHeightVector`, `getAckingNodeSet`, `grade`, `ErrNotValidDAG`) and
scenarios with their expected deliveries. `spec.md` 4.1-4.3 describes the
algorithm. State: pending blocks, per-candidate acking status vectors, the
global vector, the candidate set. Correctness: every node delivers the same
sequence whatever the arrival order; early delivery only when internally
stable; cycles rejected.

| test | lines | what it does |
|---|---|---|
| `TestBlockRelation` | 897-944 | a chain A, B, C: `to.acked` holds the blocks that ack a block, directly or not |
| `TestCreateAckingHeightVectorFromHeightVector`, `TestCreateAckingNodeSetFromHeightVector`, `TestGrade` | 946-1045 | values of the three functions on vectors written by hand |
| `TestCycleDetection` | 1047-1099 | acks that form a cycle: every call returns |
| `TestNotValidDAGDetection` | 1101-1117 | a second block of height 0 of a proposer: `ErrNotValidDAG` |
| `TestEarlyDeliver` | 1119-1242 | four chains of three blocks over `b00`, `K = 2`: `b00` is returned early at `b32`, not at `b31` |
| `TestBasicCaseForK2`, `TestBasicCaseForK0` | 1244-1675 | DAGs of 19 and 9 blocks of five validators, the deliver sets and the vectors after chosen calls |
| `TestRandomlyGeneratedBlocks` | 1677-1777 | 50 generated blocks of 19 validators, ordered 10 times in random orders for each `K` of 0..3: the orderings are equal or one starts the other |

### 1.3 simulation.TotalOrderResult (`src/simulation/app_test.go` 61-222)

Collects, per validator, the blocks delivered by total ordering. `PushBlocks`
(117-135) reorders incoming batches by ID with a heap and releases them in ID
order; `VerifyTotalOrder` (172-212) compares the hash chains of all
validators up to the shortest; `CalculateBlocksPerSecond` and
`CalculateAverageConfirmLatency` are statistics.

### 1.4 types.Config and Config.Bytes (`src/core/types/config.go` 26-97)

The parameters of a round and their encoding, the bytes a config is persisted
and hashed as: eleven little-endian fields appended in a fixed order, 64
bytes. `K` and the three set sizes are `int` and are written as `uint32`, the
durations are written as `uint64`, `PhiRatio` as the bits of the float.
Correctness: the bytes are the wire format of spec.md 6.

### 1.5 The messages of the syncer (`src/core/types/block-randomness.go`)

`AgreementResult` and `BlockRandomnessResult`, with `types.Block` the three
kinds of value the goroutine of `startNetwork` tells apart. An
`AgreementResult` carries a `Position` and is sent on to the agreement of its
chain; a `BlockRandomnessResult` carries a `Round` and is kept by the syncer.

### 1.6 tancon-simulation (`src/cmd/tancon-simulation/main.go`)

`main`: parses the flags, starts the pprof server in a goroutine, insists on a
config file, generates a default one with `-init`, starts a CPU profile and
defers its stop, reads the config, runs the simulation, writes a heap profile.
It ends by `os.Exit(1)` or `log.Fatal` (no deferred call runs), by a panic or
by returning (the deferred call runs).

### 1.7 Not behavioural

`core/utils/signer_test.go` (signature round trips, crypto), the `main` of the
peer server (`src/unnamed/part_002`: the flag, the read of the config,
`server.Run`), the install script and the CI file.

## 2. Plan

| step | module | state |
|---|---|---|
| 1 | `LatticeSyncBlock`: `findLatticeSyncBlock` alone, one loop iteration per step, over every small chain | done |
| 2 | `Syncer` (with `MCSyncer`): the whole of `SyncBlocks`, the receive loop of `startAgreement`, the agreements as producers, composed with the steps of `LatticeSyncBlock` | done |
| 3 | `TotalOrderResult` implementing `TotalOrderLog`: `PushBlocks` as a reorder buffer, `VerifyTotalOrder` | done |
| 4 | `SyncerModules`: the goroutines and channels of `startNetwork`, `startCRSMonitor` and `stopAgreement` with `con.lock` and the wait groups: shutdown order, sends that block under the lock, `Add` racing `Wait` | done |
| 5 | `TotalOrdering`: the algorithm of spec.md 4.1-4.3 on the scenarios of the tests | taken as step 10 |
| 6 | `ConfigBytes`: the encoding as an operator, checked against the wire format; the width of `K` | done |
| 7 | `TanconSimulation`: `main` step by step, its ways out and the deferred stop of the profile | done |
| 8 | `TotalOrderResult`: `processStatus` as part of `PushBlocks`; `SyncerModules`: the three kinds of message of `startNetwork` | done |
| 9 | `Syncer`: a `con.db.Put` that fails and the retry of the call, the rounds `con.configs` is indexed with, the walk of `checkIfSynced` at the first block put; `SyncerModules`: `pullChan` and the second case of the `select` of the receive loop | done |
| 10 | `TotalOrdering`: the engine, from spec.md 4.1-4.3 and the values the tests pin; `TotalOrderingTests`: every test of `core/total-ordering_test.go`, the scenario tests in every reveal order, the random test on every small DAG | done |

The search of step 1 is where the code is most intricate, and a loop that
does not end or an off-by-one is invisible to a test with one chain. Step 2
uses it unchanged: `Syncer` instantiates `LatticeSyncBlock` on its own
variables, so what is checked of the search alone is checked of the same
definitions in the composition. Step 4 looks at the same hand-over as step 2
from the other side: `Syncer` keeps the blocks and abstracts the goroutines to
a set that `StopModules` empties, `SyncerModules` keeps the goroutines, the
lock and the channels and abstracts the blocks to counts. The two waits of
the hand-over (`moduleWaitGroup.Wait`, `agreementWaitGroup.Wait`) are guards
in `SyncerModules` only; in `Syncer` they are steps `SyncBlocks` takes, and
nothing about the hand over coming to its end is claimed of `Syncer`.

## 3. Modules

### 3.1 LatticeSyncBlock

A block of the compaction chain is named by its `Finalization.Height`, 1 being
the block whose `ParentHash` is zero; `con.db.Get(b.Finalization.ParentHash)`
is `b - 1`, an error when `b - 1` is not in `db`. `chain[b]` keeps the fields
the function reads, `hash` and `round`. `configs[r]` is a value of a small
set: `isConfigChanged` compares `K`, `NumChains` and `PhiRatio`, and only
equality matters.

| definition | code |
|---|---|
| `FindStableRound` | outer loop head and the loop at 411-424 |
| `FindBlockOfRound` | loop at 426-435, one iteration per step |
| `FindDeliverSetLastBlock` | loop at 442-455 with 456-457 |
| `FindDeliverSetFirstBlock` | loop at 458-471 with 472 and 475-476 |
| `CheckDeliverSetRound` | loop at 477-490 and the end of the outer loop 491-497 |

`round := lastBlock.Position.Round` is inside the outer loop, so the model's
`FindStableRound` recomputes `round` from `lastBlock` each time it is reached,
as the code does.

### 3.2 Syncer and MCSyncer

One behaviour has one world: a compaction chain of `MaxBlocks` blocks
(`chain`, with round, chain ID, position height and a hash per block) and one
history of configs (`gov`, one of `Governances`). The caller and the
agreements both draw on it: the caller puts the blocks in order, the
agreements confirm blocks of the same chain in any order.

| variable | code |
|---|---|
| `db`, `configs`, `lattice`, `latticeLastRound` | `con.db`, `con.configs`, `con.lattice` with the blocks it was given, the last round it has a config of |
| `blocks`, `agreementRoundCut`, `built` | `con.blocks` (a set per chain; `Oldest` is element 0 of the sorted slice), `con.agreementRoundCut`, the empty blocks `buildEmptyBlock` filled |
| `receiveChan`, `closed`, `sent` | `con.receiveChan`, whether it is closed, what the agreements sent |
| `modules` | the goroutines running: the agreements, network and CRS monitor, the receive loop |
| `pc`, `args`, `compactionTips`, `ret` | where the goroutine of `SyncBlocks` is, its arguments, the local of `checkIfSynced`, what the call returned |
| `confirmedBlocks` | what `NewConsensusFromSyncer` was given |
| `round` ... `result` | the locals of `findLatticeSyncBlock`, the variables of `LatticeSyncBlock` |

| action | code |
|---|---|
| `SyncBlocksAlreadySynced`, `SyncBlocksRejected` | 507-518, the early returns |
| `SyncBlocks(lo, hi, latest)` | 519-540: `setupConfigs`, the puts, the feed of an existing lattice |
| `SyncBlocksPutFails(lo, hi, at)` | 525-536 with a `Put` that fails at block `at`: the blocks before it are in the db and were given to the lattice, the call returns the error |
| `CallSyncBlocks` | the caller: the next blocks of the chain (`NextBlocks`), or the blocks of the call that failed |
| `FindLatticeSyncBlock` | a step of `LatticeSyncBlock` |
| `SyncBlockError`, `SyncBlockNotFound`, `SyncBlockFound` | 541-569: the three results of the search; the last creates the lattice and replays the chain from the sync block |
| `EnsureAgreementOverlapRound` | 343-403, under the lock, one step |
| `CheckIfSyncedTips`, `CheckIfSyncedOverlap` | 293-317 without the lock, 318-338 under the read lock: two steps |
| `StopModules`, `StopAgreement`, `Flush` | 575-578, 800-811, 579-605 |
| `AgreementConfirms(b)` | an agreement sends a confirmed block on `receiveChan`, waiting while it is full |
| `ReceiveBlock`, `ReceiveLoopEnds` | 689-718: the receive case with the filter by `agreementRoundCut`, the append and the sort; the return when the `select` takes a closed channel, which may be `pullChan` while `receiveChan` still holds blocks |

Steps are as large as the locks make them: what runs under `con.lock` is one
step, `checkIfSynced` is two because it walks the chain before it takes the
lock, and the stop, the flush and the receive loop interleave freely because
nothing orders them.

The parameters of `SyncBlocks` and the locals of `findLatticeSyncBlock` end
with the call: `Returns` and `SearchReturned` set `args` and the variables of
the search back to their initial values, so that two states which differ only
in what a finished call has left behind are one state. The parameters of a
call that failed on `con.db.Put` stay, the caller passes them again.

A panic is a step to `pc = "crashed"` that ends every goroutine: an index out
of range of `con.configs` (`PanicConfigs`), of `compactionTips`
(`PanicCompactionTips`), and the `panic(err)` of a failed `con.db.Get`
(`PanicGet`).

What the model assumes, and where it is stated:

- the caller feeds each block once and in order (`NextHeights`); it may start
  at any height of `FirstHeights` and says `latest` whenever it likes;
- a `con.db.Put` can fail at any block of any call when `PutMayFail` is
  true. The caller then makes the same call again (spec.md 7, "the caller is
  expected to retry the whole sync"), as often as the put fails. The blocks
  put before the failure are put again, which is no error
  (`blockdb.ErrBlockExists`), and are given to the lattice again, which admits
  a block once (spec.md 5, "idempotent re-admission is a no-op"):
  `ProcessFinalizedBlocks`. No counter bounds the failures; the state space
  is finite because a failed call changes nothing when it is repeated;
- `core.ConfigRoundShift` is the constant `ConfigRoundShift`, 1 in all runs;
- `syncer/agreement.go` is not among the sources: an agreement is a producer
  that confirms a block of the world's chain at most once, empty if its height
  is in `EmptyHeights`, and ends when its input is closed;
- the `pullChan` case of the receive loop sends a request to the network and
  changes no state of this module; it is in `SyncerModules`. Here `closed`
  stands for both channels, which `stopAgreement` closes one after the other.
  The `return nil, nil` after the overlap
  loop is not reachable and has no action; `setupConfigs` never sees a nil
  config because `gov` has one for every round.

`MCSyncer` names the histories of configs the runs choose from: `GovSame`
(no change), `GovOrderingChanges` (`K` or `PhiRatio` differs from round 1 on,
the number of chains does not), `GovChainAdded` (two chains from round 1 on);
`AnyChange` is all three, `NoChange` the first.

### 3.3 TotalOrderResult and TotalOrderLog

`TotalOrderLog` is the promise: per validator a log that grows by the
validator's blocks in the order its total ordering delivered them, and a
verification that checks the positions no verification has checked before, up
to the shortest log, and answers whether the validators agree there.

`TotalOrderResult` is the code. `order[v]` and `batches[v]` are the world:
what validator `v` delivers and how it is cut into BlockLists. `unpushed[v]`
are the BlockLists on their way, taken in any order by `PushBlocks(v, id)`.
`pendingBlockList[v]` is the heap as the set of IDs it holds, its head the
least (`container/heap` over `PendingBlockList`, whose order is by ID).
`AppendConsecutive` is the loop at 125-133. `VerifyTotalOrder(id)` is
172-212; `verified` adds up the lengths it returns and `correct` is its verdict.
`processStatus` (105-113) is the first step of `PushBlocks`, before the ID is
looked at: `status[v].blockReceive` is the number of blocks its entries count,
`status[v].confirmLatency` the number of latencies appended, taken to be one
for each block of the BlockList.

The refinement mapping is `log[v] = SubSeq(order[v], 1, verified) \o
hashList[v]`: what was removed as verified, then what is still listed.
`ImplementsLog` is `TotalOrderLog!Spec` under this mapping.

Left out: the arrival times in `status` and the two statistics computed from
them. The caller is not among the sources; the model lets it verify at any
time with any validator as the reference.

### 3.4 SyncerModules

The state at `Init` is that of `SyncBlocks` just before `initConsensusObj`:
the agreements run since `resizeByNumChains`, nothing else does.

| variable | code |
|---|---|
| `pcMain`, `pcNet`, `pcCRS`, `pcRecv`, `pcAg[c]` | where the goroutine of `SyncBlocks`, of `startNetwork`, of `startCRSMonitor`, of `startAgreement` and of the agreement of chain `c` is |
| `ctxDone` | `con.ctxCancel()` was called |
| `moduleWaitGroup`, `agreementWaitGroup` | the counters of the two wait groups |
| `rlocked` | `notifyNewCRS` holds `con.lock.RLock()` |
| `inputChan[c]`, `inputClosed` | how many values the agreement's `inputChan` holds; `stopAgreement` closed them |
| `receiveChan`, `receiveClosed`, `pullChan`, `pullClosed` | the same of `con.receiveChan` and `con.pullChan`; `receiveChan` is the sequence of the chain IDs of its blocks |
| `fed`, `b`, `blocks` | the agreements `startNetwork` has sent a value to; the chain ID of the block the receive loop holds; the chains `con.blocks` has a block of |
| `val`, `next`, `lastNotifiedRound` | the chain ID of the value `startNetwork` is about to forward, the index of the loop in `notifyNewCRS`, the local of `startCRSMonitor` |
| `msgs` | values the network has delivered (bounded by `MaxMsgs`) |
| `crashed` | the panic that ended the process |

| action | code |
|---|---|
| `InitConsensusObj` | 269-291 under the lock: the three `start...` calls |
| `CheckIfSynced` | the condition under which a later call of `SyncBlocks` sets `isSynced` (321-331, 569-574): `overlapCount` reaches `numChains` only when `con.blocks` holds a block of every chain |
| `CtxCancel`, `ModuleWait` | 577, 578 |
| `StopAgreementCloseInputs`, `StopAgreementCloseReceive`, `StopAgreementClosePull` | 800-807 (under the lock), 808-809 (`agreementWaitGroup.Wait` and `close(con.receiveChan)`), 810 (`close(con.pullChan)`) |
| `Flush` | 581-605 under the lock |
| `NetworkAdd`, `CRSMonitorAdd` | `moduleWaitGroup.Add(1)`, the first statement inside each goroutine (723, 781) |
| `NetworkReceive(v)`, `NetworkReceiveRandomness(v)` | the receive case of the `select` and its type switch (727-746): `v` is a `Block` or an `AgreementResult`, which have a position, or a `BlockRandomnessResult`, which has none; a `chainID` of `NumChains` is a chain the syncer has no agreement of |
| `NetworkRandomness` | 736-744, the append under the lock |
| `NetworkSend` | 747-755: the check under the read lock only logs, the send at 755 indexes `con.agreements` outside the lock |
| `CRSMonitorTick(r)`, `NotifyNewCRS` | 768-779 and 786-795: `RLock`, one send per agreement, `RUnlock` |
| `NetworkDone`, `CRSMonitorDone` | `case <-con.ctx.Done()` with the deferred `Done` |
| `Receive`, `ReceiveAppend`, `ReceivePull`, `ReceiveDone` | 689-718: the receive, the append under the lock, the pull handed to `con.network.PullBlocks`, the return on either closed channel |
| `AgreementRead(c)`, `AgreementConfirm(c)`, `AgreementPull(c)`, `AgreementDone(c)` | the agreement: takes a value, may send a confirmed block on `receiveChan` or the hash of a block it misses on `pullChan`, returns when its input is closed and empty |

What the model assumes:

- only `notifyNewCRS` keeps `con.lock` over a step that can wait. Every other
  section under the lock is one step, enabled when `rlocked` is false. Go's
  RWMutex also makes new readers wait once a writer waits; the model leaves
  that out. Such a reader waits only as long as `notifyNewCRS` keeps the
  lock, so the waiting cycle described in 5 is the same with and without it;
- `syncer/agreement.go` is not among the sources: the agreement is modelled
  from spec.md 5 ("drained by closing their input channels"), is counted in
  `agreementWaitGroup` from its creation, and confirms or not as it likes,
  but not before `startNetwork` has sent it a value: blocks and agreement
  results reach an agreement over the network only. With `CheckIfSynced`
  this keeps `SyncBlocks` from cancelling before the goroutine of
  `startNetwork` has run its `Add(1)`, as in the program;
- the rest of `checkIfSynced` (the tips of the compaction chain, the
  comparison of positions) is in `Syncer`; here the call is its necessary
  condition on `con.blocks`;
- `len(con.agreements)` stays `NumChains` after `initConsensusObj`; growth by
  a later `SyncBlocks` is in `Syncer`;
- the `default: continue` of `startNetwork` (746) changes no state and is
  left out;
- a send on a closed channel and an index out of range are panics:
  `crashed` is set and no goroutine takes another step.

### 3.5 ConfigBytes

`config` is the `Config` of a round and `enc` its `Bytes()`; the one action,
`Reconfigure(f, v)`, gives the next round a config that differs in field `f`
and encodes it, as the syncer does with every round's config it loads.

| definition | code |
|---|---|
| `Config` | the struct, 26-48 |
| `ToUint32`, `ToUint64` | `uint32(c.K)` and the like (63, 68, 70, 72), `uint64(c.LambdaBA.Nanoseconds())` and the like (57-82): the value modulo 2^32 and 2^64 |
| `Float32bits` | `math.Float32bits` (65): the sign bit above the bits of exponent and mantissa |
| `PutUint32`, `PutUint64` | `binary.LittleEndian.PutUint32/64`: the least significant byte first |
| `Slices`, `Bytes` | the eleven slices (52-82) and their appends in order (84-96) |

A byte has `Byte` values. The code's byte has 256; TLC's integers have 32
bits, which an `int64` does not fit, so the run takes `Byte = 4`: a `uint32`
is then four bytes of two bits, 0..255, and an `int64` eight of them,
-32768..32767. Widths in bytes, conversions, order and offsets are those of
the code, and every property is stated in terms of `Byte`.

`WireFormat` is the table of spec.md 6 (field, size, signedness) and is not
taken from the code; `Decoded` reads a field back from its offset.
`BytesFollowWireFormat` compares the two. `K` and the set sizes are `int`
and take, beside 0 and the greatest `uint32`, the value -1: the reader finds
its low 32 bits, the bytes of the greatest `uint32`.

### 3.6 TanconSimulation

| variable | code |
|---|---|
| `flags` | which of `-init`, `-config`, `-cpuprofile`, `-memprofile` were given (36-39); `-log` is passed on to `simulation.Run` and is left out |
| `pc` | where `main` is; `exited` when the process has ended |
| `file`, `cfg` | what the config file holds (`absent`, the `user`'s, the `default`), and what `simulation.Run` was given |
| `cpuProfile`, `memProfile` | `off`, `on` after `pprof.StartCPUProfile`, `stopped` after `pprof.StopCPUProfile`; the heap profile was written |
| `pprofServer` | the goroutine of `http.ListenAndServe` |
| `exit` | `0` (return), `1` (`os.Exit(1)`, `log.Fatal`), `panic` |

| action | code |
|---|---|
| `Main` | 42-48: `flag.Parse`, the seed, the `go` statement |
| `ListenAndServe` | 46-48, in its goroutine, at any time while the process runs |
| `ConfigFile` | 49-52 |
| `Initialize` | 53-59: `config.GenerateDefault` writes the file or fails; `main` goes on, `os.Exit(0)` being commented out |
| `StartCPUProfile` | 61-70: `os.Create` or `pprof.StartCPUProfile` fail (`log.Fatal`), or the profile is on and its stop deferred |
| `ReadAndRun` | 72-76: `config.Read` fails on an absent file (panic, the deferred call runs) or `simulation.Run` gets what the file holds |
| `WriteHeapProfile` | 78-89 |
| `Return` | 90, with the deferred call |

`simulation.Run` is one step that returns. A file that exists is taken to be
readable; `config.Read` fails only on an absent one.

### 3.7 TotalOrdering and TotalOrderingTests

`TotalOrdering` is the engine. Its code is not among the sources, so the
module is written from spec.md 4.1-4.3; the tests, which are among the
sources, decide wherever they expect another value than spec.md gives:

| definition | spec.md | what the tests pin, and the module has |
|---|---|---|
| `getAckingHeightVector` | an entry for a chain with more than `K` acking blocks, of value the candidate's lowest acking height plus `K` | an entry for every chain with more than `K` blocks in the global vector, of value the global lowest height plus `K`, infinity when the candidate's acks start above it (951-987) |
| `getAckingNodeSet` | the chains with a finite entry | the chains whose acks of the candidate reach the `K`-th block of the global vector (990-1010) |
| `grade` | 1 when `phi` chains of the acking node set have a lower height, -1 when fewer than `phi` have any | 1 when `phi` chains ack the first and not the second, 0 when even the chains not yet heard could not make it `phi`, -1 otherwise (1012-1045) |
| `precedingSet` | the candidates whose grade over every other candidate is not 1 | the grade is that of the other candidate over this one: `b20` is returned at `b40` (1664-1667) |
| `validDAG` | no pending block of the same chain among the acks is as high | the block is above the pending blocks of its proposer (1101-1117: the refused block has no acks) |
| `externallyStable` | the acking node sets have `phi` chains | and a member has more than `phi` decided heights: nothing is returned at `b31` (1186-1207) |
| `deliverSetOf` | early when every acking node set holds every chain | not early when every chain has more than `K` blocks in the global vector (1552-1555), early when the set is stable before that (1203-1205) |
| `candidates` | a pending block with no pending ack and an acker on its own chain | a pending block with no pending ack. The scenario tests pass with both; with the rule of spec.md the orderings of the random test differ (see Bounds) |

Where neither a test nor the random test decides, the module has the words
of spec.md: the internal stability over every pair (step 4), and a
preceding set of the candidates that have grade 0 from every other one,
the stricter of the two readings of "not preceded".

| definition | engine |
|---|---|
| `pendings`, `acked` | `to.pendings`, `to.acked` (as pairs: the second block acks the first) |
| `delivered`, `err` | what the calls of `processBlock` returned: the deliver sets with their early flag, the last error |
| `buildBlockRelation(b)` | the blocks `b` acks, directly or not, among the pending ones |
| `candidateAckingStatusVector`, `globalVector` | `to.candidateAckingStatusVectors[c]`, `to.globalVector`; the engine keeps them up to date, the module computes them from `pendings` and `acked` |
| `precedingSet`, `internallyStable`, `externallyStable`, `deliverSetOf` | steps 3 to 5 of spec.md 4.3 |
| `output`, `processBlock(b)` | the whole call: the check, the admission, the vectors, the choice of the deliver set and its removal from the working set; or the error with the state as it was |

A deliver set is a set: `checkHashSequence` sorts the hashes it expects, and
the hashes are random.

`TotalOrderingTests` is the test file. `test` is the test that runs, `db` its
blocks, `revealed` the blocks given to `processBlock` in this run,
`followsTest` whether they were given in the order of the test, `i` and
`orderingSequence` the loop variable and the orderings of
`baseTestRandomlyGeneratedBlocks`.

| definition | code |
|---|---|
| `BlockRelation` ... `BasicCaseForK0`, `config` | the blocks each scenario test builds and the arguments of its `newTotalOrdering` |
| `order`, `returns` | the calls of `checkNotDeliver` and `processBlock` in the order of the test, and the calls that return blocks |
| `checks`, `candidatesAtEnd` | what the tests read in `to.acked` and `to.candidateAckingStatusVectors` after a call |
| `Submit(b)` | one call of `processBlock`: the next call of the test, or any block whose acks are revealed (`revealer.Next`, 1696-1708) |
| `Generate(v, others)`, `StartRuns` | `gen.Generate` block by block (1747); the revealer and the constructor (1749-1761) |
| `EndRun` | `ErrIterationFinished`: the ordering is recorded, the revealer reset, a new engine made (1686-1712) |
| `TestEnds` | the test returns |

`test.BlocksGenerator` is not among the sources either: `propose` lets a
validator ack its parent and any latest blocks of others it has not acked,
which is every DAG the generator can build. `len(revealingSequence) > 1`
(1716) is an assertion on the random choices of the revealer and is left out:
the model takes every order.

## 4. Runs

| run | module, cfg | result | what it shows |
|---|---|---|---|
| `sync_block` | `LatticeSyncBlock`, `LatticeSyncBlock.cfg` | pass | the block returned starts the deliver set before the one that holds the newest block of the stable round; the rest of that set is of the stable round; every inner walk ends |
| `sync_block_terminates` | `LatticeSyncBlockTerminates.cfg` | violation | the outer loop does not end: `round--` at 497 is lost because `round` is declared inside the loop |
| `sync_block_get` | `LatticeSyncBlockNoGetErrorOnStoredChain.cfg` | violation | a deliver set of one block sends the check loop past it to the genesis block, where `con.db.Get` of the zero hash fails |
| `syncer_safety` | `MCSyncer`, `Syncer.cfg` | pass | over every history of configs, with an empty block among the confirmed ones, agreements further ahead than configs are loaded, and puts that fail and are retried: the lattice is fed from a deliver-set start on without gap, each block once and in order; from the round cut on, a cut at round 0 included, the oldest block of every chain is of the cut's round; `con.configs` is indexed out of range only for an agreement's block more than `ConfigRoundShift` rounds beyond the blocks put; `isSynced` only with an overlap on every chain |
| `syncer_hand_over` | `MCSyncer`, `SyncerHandOver.cfg` | pass | with chains fed from height 1 or 2, the lattice is seeded correctly, `checkIfSynced` panics on `con.db.Get` only when the feed began above the genesis block |
| `syncer_flush` | `MCSyncer`, `SyncerHandOverHasAllBlocks.cfg` | violation | the flush copies `con.blocks` while the receive loop still takes blocks from the closed `receiveChan` |
| `total_order_result` | `TotalOrderResult`, `TotalOrderResult.cfg` | pass | `PushBlocks` and `VerifyTotalOrder` implement `TotalOrderLog`; the status counts every block that arrived once; everything all validators delivered is verified in the end |
| `syncer_modules` | `SyncerModules`, `SyncerModules.cfg` | pass | with input channels that never fill: no goroutine sends on a closed channel, also when the goroutine of `startCRSMonitor` runs its `Add(1)` after `moduleWaitGroup.Wait` has returned; `receiveChan` and `pullChan` are closed only after every agreement has returned; once `ctx` is cancelled the process panics (a message of an unknown chain) or `SyncBlocks` returns and every goroutine, the receive loop included, ends |
| `config_bytes` | `ConfigBytes`, `ConfigBytes.cfg` | pass | the bytes have the length, the order, the offsets and the signedness of the wire format, for the least and the greatest value of every field; of an `int` a `uint32` does not hold, the low 32 bits are written |
| `total_ordering_tests` | `TotalOrderingTests`, `TotalOrderingTests.cfg` | pass | the engine passes every assertion of the test file along the order of each test; the deliver sets of the scenario tests come out in every other reveal order too; every DAG of 5 blocks of 3 or 4 validators is ordered the same way in every reveal order |
| `tancon_simulation` | `TanconSimulation`, `TanconSimulation.cfg` | pass | every way through `main` over every choice of flags and every failure, with the state each leaves (the type invariant only: what is worth saying of `main` is the run below and the first entry under "Seen while modelling") |
| `tancon_init` | `TanconSimulation`, `TanconSimulationRunsOnConfigSetUp.cfg` | violation | the configuration the user set up under the path given to `-config` is overwritten by `-init` and the simulation runs on the default |

### Bounds

| constant | value | why it is enough |
|---|---|---|
| `MaxBlocks` | 4 (`LatticeSyncBlock`, `Syncer`), 5 (`syncer_hand_over`), 3 (violations of the search) | a sync block needs two deliver-set boundaries behind the newest block: 3 blocks from the genesis block, 5 when the chain is fed from height 2, which is also what the walk needs to meet a parent that was never put |
| `MaxRound` | 2 (`sync_block`, `syncer_safety`), 1, 0 | a round with no block and agreements two rounds ahead of the configs loaded need round 2; the hand-over needs no round change |
| `Configs`, `Governances` | two config values; one to three histories | one change of config is what `isConfigChanged` can tell; `syncer_safety` takes all three histories |
| `MaxChunk` | 2 | a call with one block and a call with several: the lattice is created in the middle of the fed chain or at its end |
| `Confirmable`, `EmptyHeights` | three or four heights, at most one empty | blocks before, at and after the sync block, on both chains |
| `ChanCap` | 1 (`syncer_safety`), 2 | `receiveChan` gets full with the three or four confirmable blocks, so a sender waits; 2 in the runs of the hand-over, where blocks are also left in the channel when it is closed |
| `PutMayFail` | true in `syncer_safety`, false elsewhere | the failure at every block of every call, and every number of retries; the runs of the hand-over ask about what follows `isSynced`, which no failed put reaches |
| `NumChains` (`SyncerModules`) | 2 | `notifyNewCRS` sends to one agreement after another; a message of chain 2 is one of an unknown chain |
| `ReceiveCap`, `PullCap` | 1, 1 | two agreements that confirm or pull fill the channel, so one waits while the receive loop waits for the lock |
| `MaxMsgs`, `MaxCRS` | 3, 1 | a message for each chain, which `CheckIfSynced` needs confirmed, and one more that is under way when `ctx` is cancelled; one new round is one pass of `notifyNewCRS`, whose values the agreements may still hold then. TLC reaches the hand-over with both agreements in the middle of a send on the full `receiveChan`, with the network goroutine in the middle of a send, and with the CRS goroutine not yet started |
| `InputCap` | 4 | 4 = `MaxMsgs + MaxCRS`: no send on an input channel ever waits. With 1 a send to a chain whose agreement is busy waits, and with a second round of CRS (`MaxCRS = 2`) `ShutdownEnds` does not hold (see 5) |
| `Validators`, `Hashes` | 2, 3 | three BlockLists give every arrival order in which a list waits in the heap behind one or two others; two validators give logs of different length and orders that differ |
| `BlockCount`, `Repeat` | 5, 2 | two runs are what an assertion on pairs of orderings needs; 5 blocks of 3 validators are the least with which the candidate rule of spec.md orders two reveal orders differently, and blocks of 4 validators are what an early delivery at `phi` = 2 needs (see below) |
| `RandomValidatorCounts`, `RandomPhi`, `RandomKs` | {3, 4}, 2, {0} | with 3 validators and `phi` 2 every delivery is after all chains were heard; with 4, sets are also returned early. `K` 1 needs 6 blocks of 3 chains before anything is returned, which is 10 million states; `K` 1 and 2 are run on the DAGs of the scenario tests |
| `Byte` | 4 | see 3.5: the largest byte for which an `int64` fits TLC's integers; every conversion still loses the bits it loses in the code |
| `Uint32s`, `Ints`, `Durations`, `FloatBits` | {0, 255}, {-1, 0, 255}, the least and the greatest `int64`, {0, 127} | the least and greatest value each field's place in the wire format holds, so that every byte of every field is 0 in one config and full in another; a negative duration needs the sign, a full `PhiRatio` the sign bit; -1 is an `int` that `uint32(...)` truncates |

`Syncer.cfg` takes about 1.25 million distinct states, `SyncerHandOver.cfg`
420 000, `LatticeSyncBlock.cfg` 210 000, `SyncerModules.cfg` 59 000,
`TotalOrderingTests.cfg` 600 000, `TotalOrderResult.cfg` 36 000,
`ConfigBytes.cfg` 21 000 and
`TanconSimulation.cfg` 458, which is every state `main` has.

With `GovSame` a chain whose blocks 1..3 are not of one round makes the
search loop for ever (`sync_block_terminates`); `Syncer` inherits this. The
runs of `LatticeSyncBlock` and `Syncer` do not check deadlock: a search that
has returned, and a syncer that has handed over, failed or panicked, have
stopped; so has a `SyncerModules` whose `SyncBlocks` returned or whose process
panicked, and a `main` that has exited. `TotalOrderResult.cfg`,
`ConfigBytes.cfg` and `TotalOrderingTests.cfg` check deadlock.

What `total_ordering_tests` tells apart at its bounds: with the candidate
rule of spec.md (`candidates_WithOwnAcker`) two reveal orders of `b00`,
`b01`, `b10`, `b11`, `b20` return different sets, and with an early delivery
at `phi` decided heights two orders of four blocks do; `OrderingsAgree` fails
in both cases. A preceding set of the candidates nobody precedes (grade other
than 1, instead of grade 0 from everybody), and an early delivery without the
internal stability, pass at these bounds and on the DAGs of the tests: the run
does not decide between them and the module.

### Fairness

- `LatticeSyncBlock`: `WF_vars(Next)`. The function is sequential code on one
  goroutine and takes its next step whenever there is one.
- `Syncer`: none. Its `StopModules` and `StopAgreement` stand for
  `moduleWaitGroup.Wait` and `agreementWaitGroup.Wait` without the
  goroutines these wait for, so fairness on them would assume what has to be
  shown; that the hand-over ends is stated of `SyncerModules`, where the two
  waits are guards on the counters.
- `TotalOrderResult` (`FairSpec`): weak fairness of `PushBlocks` per
  validator and of `VerifyTotalOrder`: every BlockList sent arrives, and the
  results are verified again after the last arrival.

- `SyncerModules` (`FairSpec`): weak fairness of each goroutine's own steps:
  `Main`, `ReceiveLoop`, every `Agreement(c)`, and of the network and CRS
  goroutines the steps that do not need the outside world (`Add`, the append,
  the sends, the return on `ctx.Done()`). The Go scheduler runs a goroutine
  that can run. `NetworkReceive` and `CRSMonitorTick` are not fair: no message
  need arrive and no CRS need become ready. `ModuleWait` and
  `StopAgreementCloseReceive` are enabled only when the counter of their
  wait group is 0, so fairness of `Main` does not make a wait return.
  Every fair action is guarded by `Running`, so a panic leaves nothing that
  fairness could demand.
- `ConfigBytes` and `TotalOrderingTests` state safety only and assume no
  fairness. Neither does `TanconSimulation`: `RunsOnConfigSetUp` is a safety
  property stated from the initial state on.

## 5. Findings

1. `findLatticeSyncBlock` does not terminate when the round it tries first
   fails the final check: `round` is declared in the loop body (410), so
   `round--` (497) has no effect (`sync_block_terminates`).
2. With a deliver set of one block the check loop never meets
   `deliverSetFirstBlock` and walks to the genesis block, where `con.db.Get`
   fails: the function returns an error on a chain that is stored completely
   (`sync_block_get`).
3. `stopAgreement` closes `receiveChan` but nobody waits for the receive
   loop: blocks it takes after the flush (589) are in `con.blocks` and not in
   the `core.Consensus` returned (`syncer_flush`).
4. The README of the repository has the user set up `./test.toml` and then
   run `-config test.toml -init` (`src/README.md` 49-60). With `-init`
   `main` writes the default config over the file (54) and, `os.Exit(0)`
   being commented out (58), reads it and runs the simulation on it: the
   configuration that was set up is never run (`tancon_init`). That
   `config.GenerateDefault` writes over an existing file is taken from its
   name and use; package `config` is not among the sources.

Seen while modelling and not kept as runs:

- `checkIfSynced` evaluates `compactionTips[b.Position.ChainID]` (302)
  before `b.Position.ChainID < numChains` (304), although the comment says
  "Check chainID for config change": a block of a chain added after the round
  of the agreements' tips panics. The step is in the model
  (`PanicCompactionTips`); TLC shows it as a violation of
  `ret # "PanicCompactionTips"` when `Syncer.cfg` is run with that invariant.
- `notifyNewCRS` sends on the agreements' input channels while it holds the
  read lock (777). When a channel is full, the send waits for the agreement,
  the agreement waits for room in `receiveChan` or `pullChan`, the receive
  loop holds a block and waits for the write lock: `SyncBlocks` never
  returns from `moduleWaitGroup.Wait`. TLC shows it as a violation of
  `ShutdownEnds` when `SyncerModules.cfg` is run with `InputCap = 1` and
  `MaxCRS = 2` (212 000 states); the run `syncer_modules` keeps the input
  channels from filling, as their capacity of 1000 does in practice.
- `log.Fatal` on a failed heap profile (81, 85) ends the process without the
  deferred `pprof.StopCPUProfile`: the CPU profile of a simulation that has
  run to its end is not flushed because the heap profile could not be
  written. The exits are steps of `WriteHeapProfile`; TLC reaches
  `pc = "exited"` with `cpuProfile = "on"` in `TanconSimulation.cfg`.
- `moduleWaitGroup.Add(1)` is the first statement inside the goroutines of
  `startNetwork` and `startCRSMonitor` (723, 781) and not before `go`, so
  `moduleWaitGroup.Wait` (578) can return before a goroutine has added
  itself. For the goroutine of `startNetwork` this cannot happen:
  `SyncBlocks` reaches `ctxCancel` only when `con.blocks` holds a block of
  every chain (324-331), and the agreements confirm only what that goroutine
  has fed them. The goroutine of `startCRSMonitor` can be late; it then
  finds `ctx` done at its first `select` (785), `time.After` not having
  fired, and returns without a send. `NoSendOnClosedChannel` holds.
- `Config.Bytes` writes `K` and the set sizes as `uint32(...)`: configs whose
  `K` differ by a multiple of 2^32, or a `K` of -1 and one of 2^32 - 1, have
  the same bytes although `isConfigChanged` tells them apart. The wire
  format gives `K` 32 bits; `BytesFollowWireFormat` says that the low 32
  bits are what is written.
- `startNetwork` compares `v.Position.Round` of a `BlockRandomnessResult`
  with `agreementRoundCut` (`src/README.md` 738); the struct of
  `block-randomness.go` has a `Round` and no `Position` (33-37). The two files
  are of different versions of the repository; the model keeps of the message
  only that it is routed to no agreement.
- The block `findLatticeSyncBlock` returns can be of another round than the
  stable round it searched for: the check loop (477-490) starts at the last
  block of the deliver set and stops before comparing the first.
  `DeliverSetTailInStableRound` states what the loop does check.
- `SyncBlocks` replays the blocks from the sync block on into the new lattice
  (548-563) before `setupConfigs` has appended the configs of their rounds
  (565).
- `startNetwork` logs an unknown chain ID under the read lock (747-754) and
  then indexes `con.agreements` with it (755). The step is in the model
  (`NetworkSend`, panic `IndexOutOfRange`, reached in `syncer_modules`).
- spec.md 4.5 words the overlap test as the opposite comparison to the code's
  `!b.Position.Older(&con.blocks[chainID][0].Position)`; the model follows the
  code, and `SyncedMeansOverlap` holds of it.
- When the agreements confirm blocks more than `ConfigRoundShift` rounds
  ahead of the compaction chain fed so far, `ensureAgreementOverlapRound`
  indexes `con.configs` out of range. The step is in the model
  (`PanicConfigs`, reached in `syncer_safety`), and
  `ConfigsCoverAgreementRounds` says that it takes such a block.
- `checkIfSynced` asks `con.db.Get` for the parent of the block that
  completed the tips before it tests the loop condition (312), and stops
  without it at the genesis block only (309). A syncer fed from above the
  genesis block panics when the walk reaches the first block put
  (`PanicGet`, reached in `syncer_hand_over`); fed from the genesis block it
  returns there without comparing, also when the genesis block completed the
  tips. `GetPanicsAboveGenesisOnly` states the first half.
- After `stopAgreement` the `select` of the receive loop has two closed
  channels to choose from (694, 711): the goroutine can return through
  `pullChan` while `receiveChan` still holds blocks. They are dropped, as
  spec.md 4.5 allows.
- Empty blocks are built only in the call that fixes the round cut; an empty
  block received later is handed to `core.Consensus` as it came.
- A BlockList that reaches `PushBlocks` a second time stays at the head of the
  heap for good and holds back every list behind it. The peers send each list
  once over their connection, and the model delivers each list once.
- `CalculateAverageConfirmLatency` divides by the number of latencies (166),
  which is 0 for a validator none of whose BlockLists has arrived;
  `CalculateBlocksPerSecond` returns 0 in that case.

## 6. Not modelled

- The content of what `startNetwork` and `startCRSMonitor` forward (votes,
  agreement results, CRS values): `SyncerModules` counts the values.
- Of the total ordering: the way the engine keeps
  `candidateAckingStatusVectors` and the global vector up to date from call
  to call, and its caches. `core/total-ordering.go` is not among the sources;
  `TotalOrdering` computes the vectors from `pendings` and `acked`, and is
  held to the code only through the assertions of the tests (3.7). That every
  admitted block is delivered in the end is not claimed: it needs validators
  that keep proposing.
- The arrival times of `status`, `CalculateBlocksPerSecond`,
  `CalculateAverageConfirmLatency` and `LogStatus` of
  `simulation/verification.go`: time and floating point.
- The internals of the BA agreement, of the lattice and of `core.Consensus`:
  not among the sources.
- Cryptography (`signer_test.go`, DKG, CRS values), the network transport,
  logging, the `main` of the peer server, the install script and the CI file.
- `simulation.Run`, `config.Read` and `config.GenerateDefault`: not among the
  sources; each is one step of `TanconSimulation`.
