# LoveBlock in TLA+

LoveBlock is a block chain node in Go, a descendant of go-ethereum 1.8 whose proof of
work is replaced by **DPoVP**: a fixed list of *star nodes* produces blocks in turns and
confirms them by broadcast bits; all other nodes are *satellites*, which get a block once
star nodes have confirmed it. This directory models the parts of the node that are its own
and the concurrent machinery around them, checks the models with TLC and proves their main
properties with TLAPS.

## 1. The system

### Parts, their state and operations

| Part | Source | State | Operations |
|---|---|---|---|
| Star list | `common/dpovp/dpovp_util.go` | sorted list of addresses and node keys, read from a file | `GetCoreNodeIndex`, `GetCoreNodesCount`, `GetSlot` |
| DPoVP engine | `consensus/dpovp/dpovp.go` | coinbase, `timeoutTime`, `blockInternal` | `verifyHeader`, `Prepare`, `Finalize`, `Seal` |
| Worker | `miner/worker.go` | `mining`, `mu`, `blockMinerTimer`, `time2SealCh`, `sealStopCh`, `chainHeadCh`, the work under way | `start`, `stop`, `update`, `waitToSeal`, `modifyTimer`, `resetMinerTimer`, `beforeCommitNewWork`, `commitNewWork`, `push`, `wait` |
| Agent | `miner/agent.go` | `isMining`, `workCh`, `stop` | `Start`, `Stop`, `update`, `mine` |
| Miner | `miner/miner.go` | `canStart`, `shouldStart`, `mining` | `Start`, `Stop`, `update` |
| Block chain | `core/blockchain.go`, `core/block_validator.go` | database, `currentBlock`, `stableBlock`, header chain, number index, `blocksConsensus`, `childrenMap` | `insertChain`, `WriteBlockWithState`, `reorg`, `insert`, `ProcConsensusMsg`, `VerifyConsensusOK`, `isCurAndStableBlockInSameChain`, `getNewestBlockInStableChain`, `loadLastState`, `SetHead`, `Rollback`, fast sync |
| Header chain | `core/headerchain.go` | head header, number index | `WriteHeader`, `InsertHeaderChain`, `SetHead` |
| Fetcher | `network/fetcher/fetcher.go` | `announces`, `announced`, `fetching`, `fetched`, `completing`, `queue`, `queues`, `queued` | `Notify`, `Enqueue`, `FilterHeaders`, `FilterBodies`, the `loop` |
| Protocol manager | `network/handler.go`, `peer.go`, `sync.go` | `peers` (star nodes), `peersDelay` (satellites), `fastSync`, `acceptTxs` | `handle`, `handleMsg`, broadcasts, `syncer`, `synchronise`, `txsyncLoop` |
| Downloader | `network/downloader/` | `synchronising`, queue, peers, cancel channel | `Synchronise`, the fetch loops, `Deliver*`, `Cancel` |
| Transaction pool | `core/tx_pool.go`, `tx_list.go` | pending, queue, `all`, priced heap, pending state | `add`, `promoteExecutables`, `demoteUnexecutables`, `reset` |
| Chain indexer | `core/chain_indexer.go` | known and stored sections | `newHead`, `updateLoop` |
| Events | `event/feed.go`, `event/event.go` | subscribers, send cases | `Subscribe`, `Send`, `Post`, `Unsubscribe` |
| Service life cycle | `node/node.go`, `network/backend.go` | running services | `Start`, `Stop`, `Restart` |

### How they interact

A head event wakes the worker's `update` loop, which computes from the schedule when this
node is to produce and sets a timer. The timer puts a token on `time2SealCh`; a
`waitToSeal` goroutine takes it, sets a retry timer, builds a block under `worker.mu` and
pushes it to the agent; the agent seals it, the worker's `wait` loop stores and broadcasts
it. Other nodes fetch the block and import it (`insertChain`); a star node marks two bits,
the producer's and its own, and broadcasts its confirmation. `ProcConsensusMsg` marks the
bit of the sender. Either of the two that finds enough bits moves the stable block, may
move the head to another chain, and announces the block to satellites. The first
synchronisation interrupts the miner and resumes it afterwards.

### What is hard about it

* Import, mining and one handler per peer work on `stableBlock`, `currentBlock`,
  `blocksConsensus` and `childrenMap` at once; only the bits and `WriteBlockWithState` are
  locked.
* Confirmations come before or after their block, twice, or never; a restart forgets the
  stable block, the bits and the tree of children, but not the blocks.
* The schedule is written twice, with remainders and comparisons at turn boundaries.
* The worker's channels have room for one token and are written with `worker.mu` held;
  its timer is replaced by several goroutines without a lock.
* The miner's flags are changed by unlocked single loads and stores from API calls and
  from the synchronisation.

PROJECT.json lists each hazard at its line with the properties that watch it.

## 2. Modules

| Module | Models | Notes |
|---|---|---|
| `DpovpSchedule` | `GetSlot`, the turn rules of `verifyHeader`, `modifyTimer`, `beforeCommitNewWork` | pure operators over any number of nodes; times in ms |
| `TurnWatch` | the two forms of the schedule second by second | compared with `TurnOf`, the rotation they implement |
| `BlockTree` | the questions about the tree of blocks and the bits | shared by the next two |
| `StarChain` | the chains of several nodes and the confirmations between them | one step per handler; crash and restart; messages lost, repeated, reordered |
| `StableRace` | the goroutines of one star node | one step per load, store or locked section |
| `Worker` | worker, agent, their channels, lock and timers | goroutines are counted by what they are about to do |
| `Miner` | `Start`, `Stop`, `update` | one step per load or store of a flag |
| `Fetcher` | the fetcher's `loop` and the import goroutines | one step per case of the `select` |

`MC...` modules give the instances for TLC, `...Proofs` modules hold the theorems.
`BlockTreeProofs` has the lemmas about trees that the chain proofs share.

### State and actions against the code

* **Schedule.** Star nodes are their indices. `verifyTurn` has a disjunct for each branch
  of `verifyHeader` that returns nil, `modifyTimer0`, `1` and `N` the three branches of
  `modifyTimer`; the outcome is "seal" (a token), "timer" with its wait, or "none".
  Children of the genesis block are accepted from anyone and left out, signatures too.
* **StarChain.** Blocks are the members of a fixed finite tree; a behaviour decides which
  are produced, when, and where they are stored. `commitNewWork` and `wait` are the
  worker's, `insertChainStar`, `insertChainSatellite` and `ProcConsensusMsg` the handlers,
  `loadLastState` a crash and restart at any moment between handlers. The number index is
  the set `canonical`, the head that the database records `headBlockHash`. All
  difficulties are 1, so total difficulty is the number. `consensusMsgs` keeps every
  confirmation ever sent: a message not received is lost or late, one received twice
  repeated. Star nodes outside `Node` are not followed: they may produce any block and
  confirm any block that exists. Nodes are archive nodes and blocks are valid. The loop of
  `isCurAndStableBlockInSameChain` is modelled by what it does: it never leaves the head.
* **StableRace.** `importer` holds `chainmu` for a whole import, `miner` is the `wait`
  loop, and a handler stands for each other star node, since the messages of a peer are
  handled in order. `Compare` to `Insert` hold `bc.mu`. The blocks that `reorg` inserts
  below the new head, the two loads inside `isCurAndStableBlockInSameChain`, and the checks
  of a block before its import are one step each.
* **Worker.** `selecting`, `rearming`, `committing` and the holder of `mu` are the
  `waitToSeal` goroutines; `deciding` and `resetting` the `modifyTimer` goroutines of
  `start`; `timer` the running timer that `blockMinerTimer` refers to, `lostTimers` others.
  Time is left out, so a timer may fire at any moment, and which branch `modifyTimer`
  takes is open, but for a head of another node it always seals or sets a timer.
* **Miner.** `pc` is the next load or store of each goroutine. `worker.start` and
  `worker.stop` are single steps; that `stop` may not return is the subject of `Worker`.
* **Fetcher.** The maps are the fields of the record `f`, the announcements in them sets
  and functions over hashes and peers. `Top` is the part of the loop above the `select`
  (expired fetches, the import queue), and each case of the `select` is an action: `Notify`,
  `Enqueue`, `Done`, `FetchTick`, `CompleteTick`, `FilterHeaders`, `FilterBodies`. `pc` says
  at which of the two the loop is, or that it has returned (`Stop`). `Insert` is the
  goroutine that `insert` starts, with a block that is imported or refused; `ChainMoves`
  is the chain growing by other means. Time is left out: an announcement may be old or young
  at each tick, and a timer may fire whenever it is set. A header that comes
  in is one the peer was asked for or not: each request is for one header,
  but bodies come several at a time.

## 3. What is checked

| Run | Instance | Distinct states | Shows |
|---|---|---|---|
| `turn_watch` | 4 nodes, main-net timing, 125 s | 2,016 | engine and worker follow the rotation, one producer at a time, timers end in turn |
| `star_node` | a star node and a satellite, 5 star nodes in all, 3 blocks in a fork, restarts | 837,624 | no confirmation missed, head not below the stable block, pointers stored, a satellite's index complete, stable block lowered by restarts only |
| `star_net` | two of 3 star nodes, the same fork, restarts | 323,032 | what is stable or announced is stored by a quorum |
| `star_live` | a star node of 5, the same fork, no restart | 16,067 | confirmed blocks become stable |
| `stable_race` | importer, miner, 2 handlers, 3 blocks | 1,959,381 | no quorum overlooked, pointers stored |
| `worker` | up to 2 goroutines and 2 timers | 477,120 | a sealer, a reader and a wake-up remain; `commitNewWork` gives the lock back |
| `miner` | 3 calls | 75,627 | `Mining` does not outlive the worker, aborted mining resumes, later synchronisations do not hold up `Start` |
| `fetcher` | 2 blocks, 2 peers, limits of 1 | 864,117 | counters agree with the maps, stages are disjoint, what waits has a timer |

Bounds. A fork with a second block on one side is the least tree in which the head leaves
a chain, comes back and has a descendant. Five star nodes are the least number for which
two thirds are rounded down to less than two thirds with a quorum that is not everybody;
with three, the producer and the importer are already enough, which is why `star_live`
uses five. Three rounds reach every branch of the schedule's remainders and their
boundaries. Two goroutines of a kind are what a race needs; `worker` also has two timers so
that one can be lost. The fetcher's limits of 1 are reached by one announcement and one
block, so that the second of each is refused, replaced or counted down; two peers announce
the same hash and send the same block. The proofs remove these bounds where they apply.
Symmetry is used by two runs, neither of which has a liveness property: peers are
interchangeable in `fetcher`, and in `star_node` the two star nodes that are not followed
and produce nothing.

Fairness. `star_live`: a node that stays up imports each block that it can import, and
while a confirmation that it has not marked is on its way it gets one; handlers are
goroutines that the scheduler runs. Nothing repeats a confirmation, so repetition is not
assumed. `worker`: goroutines run when they can; a `sync.Mutex` that is free again and again
is got in the end (strong fairness, Go's starvation mode). `miner`: goroutines run, and a
synchronisation ends, as its requests have timeouts. API calls and new blocks are not
assumed.

### Where code and comments disagree

Each is a run that TLC ends with a counterexample.

| Run | Property | What happens |
|---|---|---|
| `turn_watch_timeout` | `SealsInTurn` | a worker seals in the one second in which `verifyHeader` no longer accepts |
| `star_switch` | `SwitchOnlyOffChain` | a head that descends from the stable block is replaced |
| `stable_race_store` | `StoreKeepsDescendant` | an unlocked store moves the stable block back |
| `worker_stop` | `StopReturns` | `stop` waits for ever with the lock held |

The models also have behaviours that no comment rules out and that no run is about; the
notes of the hazards in PROJECT.json say where each one is. A quorum of 5 star nodes is 3.
The number index stays on a chain that the head has left by way of the stable block.
`WriteBlockWithState` may replace a head it has not seen. A timer may be left that nothing
can stop, and a worker started on its own head has no wake-up. The worker may mine while
`Mining` says no, or during the synchronisation, and a `Start` at the very end of the
synchronisation may be lost.

## 4. What is proved

All theorems hold for every value of the constants that satisfies the named assumptions.

* `TurnWatchProofs`, for any number of nodes, turn length and least distance shorter than
  a turn (`ScheduleAssumption`): `VerifyIsRotation`, `OneProducer`, `TimerEndsInTurn`,
  `SealsInTurnBeforeTimeout`. The lemmas bound remainders and quotients by a round; the
  theorems go through the slots.
* `StarChainProofs`, for any finite tree (`BlockAssumption`) and up to 64 star nodes
  (`StarAssumption`): type correctness, `ConfirmedIsHeld`, `ConfirmedIsStable`,
  `HeadNotBelowStable`, `PointersStored`, `StableMonotone`. The invariant adds where bits
  come from (a bit of a followed node means that this node has the block; a broadcast
  confirmation likewise), that stored blocks have stored parents, and that the recorded
  children of a block are one number above it, so that the newest leaf is not below the
  stable block.
* `StableRaceProofs`, for any tree and any number of handlers: `NoConfirmationMissed`,
  `PointersStored`. The invariant says what each goroutine has in hand at each step: a
  stored block from a point on, a stored leaf before the switch.
* `WorkerProofs`, for any number of goroutines, timers and events: `SealerPresent`,
  `PushHasReader`, `NoStaleWork`, `WakeupKept`. The invariant counts sealers against stop
  tokens, agents against theirs, and relates the two `mining` flags inside `stop`.
* `MinerProofs`, for any number of calls: `MiningIsReal`. While `Mining` is ahead of the
  worker some `Start` has yet to start it or some `Stop` has yet to clear the flag.
* `FetcherProofs`, for any blocks, peers and limits (`FetcherAssumption`): `QueuesExact`,
  `QueuedIsPending`, `TimersSet`, `OneStage`. The invariant joins what the maps say of each
  other (`Good`), what the chain holds, and the two properties about pending blocks and
  timers. The lemmas say that `forgetHash`, `forgetBlock` and `enqueue` keep `Good`; each
  case of the loop is then a composition of them.

Only model-checked: `SatelliteIndex` (its proof needs induction over the length of
chains), `NoOldAnnounces` (it sums over a set, so its proof needs induction too), and the
liveness properties `StableReached`, `CommitEnds`, `ResumesAfterSync`,
`StartsAfterFirstSync`, which are out of the prover's reach.

## 5. What is left, in order

1. Protocol manager: the two peer sets, registration and removal, limits, closing;
   `synchronise` and `txsyncLoop`.
2. Downloader: one synchronisation at a time, cancellation against late deliveries, the
   queue's reservations and the order of results.
3. Transaction pool: nonces, limits, promotion and demotion after a reorganisation.
4. Block chain: future blocks, pruned ancestors, `SetHead`, `Rollback`, `repair`; header
   chain import; an abstract chain that `StarChain` implements.
5. Events, service life cycle, chain indexer, the miner's ring of unconfirmed blocks.

Not modelled on purpose: the virtual machine, state and tries, cryptography and encoding,
the peer-to-peer layer and the light client; the reasons are in PROJECT.json.
