# Verification of NS-Cache

NS-Cache has two halves. The estimator (`src/src/`) explores the organisations of
a memory or cache and reports the best one by area, delay or energy. The
simulator (`src/gem5_llc_refresh/`) is a gem5 tree whose Ruby memory system was
extended with a last-level cache whose banks are occupied for a configurable time
and are refreshed periodically; the repository's README tells the user to build it
as `MERSI_Three_Level`. This directory models, of the simulator, that build: its
coherence controllers, the directory with memory and DMA, the message buffers
with their stalls and wakeups, and the bank and refresh timing of the
last-level cache; and, of the estimator, the search and the division of an array
over its subarrays. Paths below are relative to
`src/gem5_llc_refresh/src/mem/ruby/` for the simulator and to `src/src/` for the
estimator.

## 1. The system and its parts

| Part | Source | State | Operations | Module |
|---|---|---|---|---|
| L0 controller (per core) | `protocol/MESI_Three_Level-L0cache.sm` | state, block, dirty bit, I or D side | load, fetch, store, prefetch, replacement; data and invalidations from the L1 | `L0Cache` |
| L1 controller (per core) | `protocol/MESI_Three_Level-L1cache.sm` | state, block, dirty bit, `pendingAcks` | requests of the L0, requests and responses of the L2, replacement | `L1Cache` |
| L2 controller, the LLC (per cluster) | `protocol/MERSI_Two_Level-L2cache_v2.sm` | state, `Sharers`, `Exclusive`, block, TBE | requests, writebacks and unblocks of the L1s, memory data, replacement, directory invalidations | `L2Cache` |
| Directory, memory queue | `protocol/MESI_Two_Level-dir.sm`, `slicc_interface/AbstractController.cc` | state, `Owner`, TBE; the request at memory; memory | fetches, replacements, DMA, memory answers | `Directory` |
| DMA controller | `protocol/MESI_Two_Level-dma.sm` | READY, BUSY_RD, BUSY_WR | read and write requests, their answers | `Directory` |
| Buffers and stall tables | `network/MessageBuffer.cc`, `slicc_interface/AbstractController.cc`, `common/Consumer.cc`, the loop `StateMachine.py` generates | heap, stall table, slot counts; waiting buffers per address and rank; scheduled wakeups | enqueue, dequeue, stall, recycle, wake up, the wakeup loop | `StallBuffers`; abstracted in `MersiBase` |
| Topology | `src/gem5_llc_refresh/configs/ruby/MERSI_Three_Level.py` | which controllers exist and how they are joined | | `MersiThreeLevel` |
| LLC banks and refresh | `structures/BankedArray.cc`, `structures/CacheMemory.cc`, the L2 controller | busy interval of each bank, clock, queued messages | check, reserve, recycle | `LlcBanks` |
| Exploration | `main.cpp`, `macros.h`, `Result.cpp` | search bounds, retained results per cell and target, wires, TSV layer count | tag and data search, wire refinement, constrained search, comparison of cells, report | `DesignSearch` |
| Bank organisation | `BankWithHtree.cpp`, `BankWithoutHtree.cpp`, `SubArray.cpp`, `Mat.cpp` | levels of the H-tree, bits still to route, rows and columns of a mat | the routing loops, the assignment to subarrays, the capacity check | `BankRouting` |
| Circuit models | the rest of `src/src/` | | | arbitrary outcomes in `DesignSearch` |

A core's L0 and L1 exchange `CoherenceMsg`s over two ordered buffers. L1s, L2s,
the directory and the DMA controller exchange requests and responses over
unordered virtual networks. Each L2 bank check happens when the L2 maps a message
to an event; the transition that follows reserves the banks.

What is hard here, and hardly reached by a test: an invalidation that overtakes
data; acks that arrive before the data that says how many to expect; an upgrade
that loses a race; a writeback that crosses a forward or an invalidation; silent
evictions that leave sharer lists too large; directory invalidations that are
seen twice or arrive after the line has gone; a stalled message nobody wakes; a
DMA request that meets an eviction; a bank reserved without having been checked;
a registration erased for a rank that was not woken; a result whose metrics
belong to other wires than those saved with it; search bounds not restored; a
level of the H-tree read before it was routed; a bit lost in a chain of divisions;
a cell rejected after others were explored; limits taken from wires the search they bound does not try.
`PROJECT.json` lists each of these hazards at its line.

## 2. Modules

- `MersiBase`: messages, network (`net`, a set: any delivery order), the L0-L1
  buffers (`up`, `down`, sequences), messages parked by `stall_and_wait`
  (`waiting`, `held`), the directory's invalidations under way (`inv`, a count
  per L2, because two of them are identical messages), and two observers that
  no controller reads: `latest`, the line as the last store or DMA write
  left it, and `seen`, the contents it has had since a pending read was issued.
- `L0Cache`, `L1Cache`, `L2Cache`, `Directory`: one action per transition of the
  controller's table, or one for several transitions with the same body. The
  action has the name of the state and the event, and does all of the
  transition's SLICC actions: pops, sends, wake-ups and the state change.
- `MersiThreeLevel`: the composition, and the properties.
- `CoherentMemory`: the abstract specification. A core takes a read or write copy of
  the line in one step, writes only while it is alone, and gives the copy back in one step.
- `MersiBudget`: the same system with `MaxRequests` requests in all, used to bound
  the larger instances and to state that everything started comes to an end. With
  `MaxRequests <- Unbounded` no request is counted and it is `MersiThreeLevel` itself.
- `LlcBanks`: clock, banks, refresh windows and the L2's check/reserve/recycle
  cycle. Instead of a protocol it takes any message type in any line state.
- `StallBuffers`: one controller with its buffers, in the cycle-by-cycle detail
  that `MersiBase` leaves out. `ctl` is any of the five controllers, as the
  table of its ports: rank, which stall, which wake others and how
  (`wakeUpBuffers`, `wakeUpAllBuffers(addr)` or `wakeUpAllBuffers()`), which
  recycle, which are fed by ordered buffers, and whether a request may stall under
  the address of a victim. A
  transition is reduced to what it does to the buffers (a heap is kept as the
  relation `ahead`, who arrived before whom): `Serve`, `Stall`,
  `Recycle`, `ResourceStall` (a buffer the transition sends to is full: the message
  stays, the controller schedules itself) and `Finish` are the outcomes of one
  message; `Wakeup`, `Full`,
  `Drained` and `Tick` are the generated loop and its `Consumer`.
- `DesignSearch`: `main` and `nvsim`. One action per loop iteration or branch;
  `best` holds the `Result` objects, `eval` remembers what every evaluation so
  far returned, so that repeating one gives the same metrics. The key of an
  evaluation holds the layer count of the TSV tables; what is saved with a
  result does not. `RejectCell` and `VerifyFailed` are the two ways to `exit(-1)`:
  `applyConstraint` refuses a cell, and a valid bank does not make up the capacity.
- `BankRouting`: one candidate of the search from `Initialize` to the capacity
  check. `RouteHorizontal`, `RouteVertical`, `RouteBothHorizontal` and
  `RouteBothVertical` are the bodies of the routing loops; `Divide` is the
  bank without H-tree.
- `MCBudget`, `MCLlcBanks`, `MCStallBuffers`, `MCDesignSearch`,
  `MCBankRouting`: instances for TLC.
- `CoherentMemory_proofs`, `Directory_proofs`, `MersiThreeLevel_proofs`,
  `LlcBanks_proofs`, `StallBuffers_proofs`, `DesignSearch_proofs`,
  `BankRouting_proofs`: theorems.

### Abstractions

One line is modelled. Ruby keeps no coherence state that spans lines, so other
lines appear as a replacement of this one at any moment. The line is
a function from `Word` to `Value`; one word except where partial writes matter.
`FirstWord` is the word at the line's own address: a partial DMA write that does not
begin there is queued at memory under an address the directory keeps no TBE for.
Requests a controller would stall at its own core stay with the core. A message that
is recycled stays in the network (no step), except in `LlcBanks`, which is about
recycling. In-port priorities are not modelled: any ready message may be next, which
allows every order the ranks allow. A block nobody will read is `NoData`.

A pair of state and event without a transition is a panic ("Invalid transition")
in the generated C++. In the model it is a message no action accepts;
`NoInvalidTransition` says there is none.

`StallBuffers` takes no data and no protocol state beyond "a transaction is open on
this line"; requests come at any time, and an open transaction is answered. A message
arrives after 0 to `MaxDelay` cycles, in an ordered buffer (`MERSI_Three_Level.py:228`,
230, 354 and 380) after the one latency its sender has, `OrderedDelay`; `enqueue`
panics where a later message would overtake.
Times are relative to the current cycle.

`DesignSearch` knows three targets (two metrics and their product) for the ten
of the tool. What a bank costs is any member of `Outcomes`. The circuit models give
a bank finite metrics, or `invalid_value` in all of them together with `invalid`
(`BankWithHtree.cpp:637-658`, `BankWithoutHtree.cpp:330-350`); one whose refresh takes
longer than its retention time is invalid with finite metrics
(`BankWithHtree.cpp:797`, `BankWithoutHtree.cpp:574`). The search bounds are two named
spaces: the reduced one of the tag search and the user's.

`BankRouting` keeps the counts the search loops double as logarithms, widths in
bits as numbers, halved the way the code halves them. Left out are the wire layout counts
(`numHorizontalWire`, `numVerticalWire`), which no condition reads, and CAM arrays,
which `main` never constructs. The electrical checks of `Mat` and the forced
mat size (`SubArray.cpp:107`) are one arbitrary choice. Inputs are powers of two.
`main.cpp:529` gives a RAM chip its page as block; the block width is a
parameter here, so this is the same case. A count of zero reaches no bank: the active
count is then zero too, and the test for too fine a partitioning (`main.cpp:443`,
`main.cpp:535`) divides by it first, so the zero-count branch at the head of
`Initialize` (`BankWithHtree.cpp:100`) is not modelled.
`docs/code-reference/execution.md:132` asks for counts above zero, and both models
of the estimator assume them.

## 3. Runs

State counts and times are with two workers.

| Run | Instance | What it shows |
|---|---|---|
| `coherence` | 2 cores, 1 L2, unbounded requests; 672,442 states, 2 min | refinement of `CoherentMemory` (hence one writer, and current copies); no L1 serves a stale block; the owner is recorded; loads never older than their issue; no deadlock |
| `three_cores` | 3 cores, 5 requests; 278,845 states, 1 min | ack counters are conserved and every sharer is recorded, with a third reader of a shared line (with two cores both are already listed) and a writer with two sharers to invalidate; an old owner's PUTX, and the unblock and the data of a downgrade in either order, leave the L2's block current; no undefined transition, no deadlock |
| `hierarchy` | 2 cores in one cluster and 1 in another, 4 requests, one value; 244,767 states, 90 s | one writer over all clusters, no undefined transition; every stalled message is woken and every transaction ends |
| `devices` | 2 cores in 2 clusters that also fetch and prefetch, and DMA with whole-line writes, 4 requests; 782,269 states, 2 min | two L2s and the device compete at the directory: L2 blocks, memory and DMA answers are current; requests at memory are tracked and served, one at a time; refinement of `CoherentMemory` |
| `banks` | 2 messages, 3 sets, 2 data banks, 1 tag bank, refresh on; 38,158 states | no reservation panic, no overlap, bounded hold, every message handled |
| `stalls` | each of 5 controllers, 2 lines, 3 requests, 1 recycle, buffers unbounded and of one slot; 310,470 states, 90 s | no stalled message loses its registration, no assertion of the buffers fails, ordered buffers never panic, no wakeup is lost (nor that of a message refused for want of a slot), every message is handled |
| `search` | 11 inputs: one cell, two cells, with limits, stacked, and three that exit; 3 targets, 5 outcomes; 424,903 states, 20 s | retained results are evaluations of what is saved with them, best of their space and, with basic wires, within limits; the report is the optimum; data and tags belong together |
| `routing` | 16 inputs, up to 8 by 8 subarrays, 2 dies, 3 mat and 3 mux choices; 276,886 states, 10 s | array bounds, complete trees, wire and address counts, bandwidth, agreement of both routing modes, exact capacity |
| `table_gaps`, `dma_partial_write`, `own_layer_count`, `empty_result` | small | the findings of section 6 |

**Bounds.** Two cores are enough for every two-party race and the run is not
bounded in length. Acks from two sharers need three cores. Five
requests (`MaxRequests`; loads, stores, replacements and DMA requests all count)
allow, for instance, load, load, store, eviction and a further load.
`MaxInv` limits the directory invalidations under way to one L2; a request that
would send one more waits. Two values tell a current copy from a stale one;
`hierarchy`, which looks at no data, has one. `hierarchy` and `devices` have four
requests, enough for a load, a store elsewhere, an eviction and a DMA or
a further load; `hierarchy` passes with five as well (1,642,569 states, 9 minutes). In
`LlcBanks` arrivals stop at cycle `LastArrival` = 7, after both refresh rotations
(4 and 3 cycles) have wrapped, and `CycleMod` (65536) stands for 2^64. In
`StallBuffers` three requests for two lines give two stalled behind one, a
victim's address and two transitions per cycle, so that the loop fills. In
`DesignSearch` up to three organisations and two refined wires let the best come
first, last or between others, and two targets disagree. In
`BankRouting` three levels each way run every loop more than once and
end them in every order; the theorems cover any shape.

**Symmetry.** Cores of one cluster and values are interchangeable: no action or
property names one, except `InitLine`. In `devices` the two cores are exchanged
together with their clusters (`SymmetryOneEach`). Runs with a liveness property
use no symmetry.

**Deadlock** is checked in `coherence`, `three_cores`, `stalls` and `routing`. In
`devices` it is not, because findings 1 and 3 leave a message no
transition accepts; in `hierarchy` the requests run out and a stuck state
violates `AllSettles`; in `banks` and `search` the system stops when all is done.

**Fairness.** `FairBudgetSpec` has weak fairness of "some in-port is served"
(`React`), which is less than Ruby gives: `wakeup()` serves a port as long as it has a ready
message, and every message becomes ready. `LlcBanks` has weak fairness
of the clock and of each message's attempt: the event queue always
advances and wakes the controller for each ready message. `StallBuffers` has weak
fairness of the wakeup loop with the clock (`Run`), for the same reason, and of
the answer to an open transaction, which the other controllers owe; it asks nothing of
requests. `DesignSearch` and `BankRouting` state no liveness and no fairness.

## 4. Proofs

TLAPS proves, for every value of the constants that satisfies the assumptions:

- `LlcBanks_proofs`: `BanksTypeCorrect`, `BanksNeverPanic`, `BanksHoldBounded`,
  `BanksServeOneAccess`. The inductive invariant `BankInv` joins the type, the
  absence of a panic and the hold bound. Two arguments carry it.
  `CheckCoversReserve` goes through the event mapping and shows that a
  transition that reserves for a hit was raised after the serial check, and one
  that reserves for a miss or a write after the check at the current cycle.
  `DataTimeBound` and `TagTimeBound` show that the refresh penalty is computed only
  inside the window, where the unsigned subtraction does not wrap. Assumptions: positive
  geometry, natural latencies, refresh latency within the refresh period, and
  `resourceStalls` with a nonzero access latency, as the configuration sets.
- `Directory_proofs`: `DirectoryTracksMemory` and `MemoryRequestsNotLost`, for any
  number of cores and clusters, with DMA and prefetching. `MemoryInv` adds to
  `OneMemoryRequest` only the shape of the two records. Handlers fall into three
  kinds, a lemma each: those that queue a request start in a state that waits
  for none; those that take an answer pop it; the others touch neither.
- `MersiThreeLevel_proofs`, for any number of cores, clusters, words and values, with
  DMA and prefetching: `TypeCorrect` (no handler writes a field, a message or a
  counter outside its type, and no directory invalidation is popped twice) and
  `TypedHolds`, the inductive invariant behind it. `TypeOK` is not inductive:
  a handler copies the block of a message into its entry, so one must know that the
  message has one. `Typed` adds, for each message under way, that its receiver expects
  it from that sender and that it carries a block wherever the handler reads one,
  and, for each entry, that a state that promises a block has a whole line. One lemma
  per handler; what an L1, an L2 and the directory send is a lemma each.
  Assumptions: `MachineAssumption` (finitely many cores, each in a cluster;
  controllers have different names) and `OpsAssumption`.
- `StallBuffers_proofs`, for any number of lines, requests and cycles:
  `NoMessageForgotten`, `ReanalyzeFindsMessages`, `BuffersNeverOverflow`,
  `NoWakeupLost`, `OrderedBuffersStayOrdered`. `IInv`
  adds to registration and its converse (`Backed`) that requests lie only in ports
  that stall, responses only in ports that wake (`Placed`), and that a registration
  is under the rank of its port (`Ranked`). In the controllers that wake lower
  ranks only, every stalling port has rank 0 and every waking port a higher one:
  that is why erasing all registrations loses nothing. `Fits` relates the slots shown to
  senders to the messages held, through the sizes remembered at the first pop of a cycle.
  `NoWakeupLost` needs `Queued`, that the messages of a buffer are in a strict
  total order of arrival, and `Awaited`, that the `Consumer` has an event for every
  arrival to come. The loop stops when no head is ready; `FirstIsReady` shows, by taking
  the least arrived message, that a buffer with an arrived message has
  a ready head, so nothing that has arrived is left without an event.
  `OrderedBuffersStayOrdered` holds because the messages of an ordered buffer have one
  latency, so that the last one sent is the last to arrive.
- `DesignSearch_proofs`, for any inputs and outcomes: `ResultsAreReproducible`,
  `SearchIsExhaustive`, `ConstrainedSearchIsBest`, `GlobalWiresAreRefined`,
  `ReportsAreOptimal`, `TagsFollowData`. `IInv` says that every retained
  result has the metrics of an evaluation of its organisation, wires and cell, that limits appear only in the constrained
  search, and that every organisation the loop has passed is covered by the best
  so far; `CoveredPersists` carries this through refinement, in
  which results only improve. The last three need `JInv` besides: a result belongs to
  its own cell until cells are compared (`OwnCell`), afterwards data and tag array to
  one cell (`Following`); results are finite or blank (`Definite`), found together
  (`Found`, `Paired`); every valid evaluation of a data array is counted and beaten by the
  result retained for its cell, and, once merged, by the first (`Anchored`, `Beaten`,
  `Counted`); every global wire passed has been tried with the organisation and local
  wire now retained (`TriedSoFar`). The last holds because a trial that wins
  keeps organisation and local wire, and one that loses is remembered in `eval`.
  The evaluation on which the program exits is offered to no result, so what is carried
  is `Running`, that `JInv` holds until an exit; nothing is reported after one.
  `ConstrainedSearchIsBest` compares with the organisations in basic wires, which are
  all the constrained search tries (finding 5).
  Assumption: the metrics of a bank are finite or `invalid_value`, as described in section 2.
- `BankRouting_proofs`, for any shape: `RoutingStaysInBounds`, `TreesAreComplete`,
  `WiresMatchAddresses`, `BandwidthIsConserved`, `RoutingModesDoAgree`, `CapacityAddsUp`.
  `IInv` says which levels of each array are routed at each loop head, and that every
  routed level obeys two laws: address bits select the active wires, and active wires
  times width is the width of an access as long as a bit is left. A budget of halvings left
  says where the loops end, which is where the closed form of the bank without
  H-tree starts. Not every division is exact: a tag bank with more active subarrays than
  ways halves its ways to zero. `Wide` says that no level is narrower than the bits still to
  route; a bank is handed to its subarrays only with a bit left, so every level of it had
  one, and there `BandwidthIsConserved` says that active wires times width is the whole
  access. The provers know no law of powers; the ones needed
  (`2^(m+n) = 2^m * 2^n`, monotony) are derived from the cardinality of power sets.
  Assumption: inputs are powers of two, and an address fits in `TOTAL_ADDRESS_BIT` bits
  (`constant.h:71`, used in `main.cpp:441`).
- `CoherentMemory_proofs`: `MemoryIsCoherent`, the single-writer and
  current-copies properties of the abstract memory. With the refinement that
  `coherence` and `devices` check, they hold of the L0 copies, which is
  why those runs do not check them again.

All type invariants are proved (`BanksTypeCorrect`, `BuffersTypeCorrect`,
`SearchTypeCorrect`, `RoutingTypeCorrect`, `TypeCorrect`); each is part of, or follows from,
the inductive invariant of its module.

A `USE ZenonT(20), SMTT(20)` at the head of a proofs module gives the order in which the
backends are tried; a leaf that names one is proved by that one.

Only model-checked:

- all liveness properties and `NoInvalidTransition`, which is stated with ENABLED: out of
  the prover's reach;
- the invariants of `MersiThreeLevel` other than its type (`SingleWriter`,
  `L1sAreCurrent`, `L2IsCurrent`, `MemoryIsCurrent`, `OwnerIsRecorded`,
  `SharersAreRecorded`, `AcksBalance`), `LoadsAreCurrent`, `DmaReadsAreCurrent`, and that
  it implements `CoherentMemory`. None is inductive: the
  strengthening must say, for every kind of message under way, which states of three
  levels and of the directory go with it. Only the part between directory and memory
  is of a size that a proof settles (`Directory_proofs`).

## 5. Not modelled

Of the estimator, the circuit models (devices, cells, wires, peripheral blocks: area,
delay, energy) are real-valued formulas without concurrency or state
that outlives a call; `full_exploration` writes every candidate to a file and
compares none, and the body of its pruning pass is a TO-DO; input parsing and
printing are I/O. Of the simulator, hardware transactional memory,
store-conditional failure, replacement policy and set conflicts, the sequencers'
and prefetcher's tables, Garnet and the rest of gem5 are left out, as are the
other protocol variants (GT, AMD, two-level L1). Transitions the build cannot
reach are left out too: GET_INSTR at the L2 (no L1 sends it) and forwarded
requests at the L0.

## 6. Findings

1. `table_gaps`: a DMA request that reaches the directory in M while the owner's clean
   replacement is under way leaves the directory in M_DRD (or M_DWR) when the ACK
   arrives; `MESI_Two_Level-dir.sm:531` has a transition for Data only.
2. `dma_partial_write`: in M_DWR the block sent back by the L2 is dropped and
   only the DMA's bytes are written (`MESI_Two_Level-dir.sm:433`): dirty data
   elsewhere in the line is lost.
3. `table_gaps`: PF_Inst_IS has no transition for Data_Stale
   (`MESI_Three_Level-L0cache.sm:1154`), which PF_IS has. The run's counterexample is
   one state in which this and finding 1 both wait.
4. `own_layer_count`: `Technology.cpp:2454` says that the layer count will be changed in
   the main loop, and `docs/code-reference/interconnects.md:87` that `SetLayerCount` is
   called first; only the tag loop does (`main.cpp:440`), so a data search of a RAM uses
   the initial count and that of a cache the last tag organisation's. In the
   counterexample a four-die organisation is retained with the tables of two dies.
5. `empty_result`: the constrained search (`main.cpp:687`) tries basic wires only,
   although its limits come from refined results: it can end empty where a refined
   result, evaluated before, is valid and fits, while `docs/functionality.md:17` says
   that an empty result means there is none.

Observations that no run decides:

- The description of SS in the L2 says the line is in one or more L1s; L1s
  evict shared lines silently, so it may be in none. Nothing relies on it.
- `docs/functionality.md:15` says that valid candidates are compared. The search
  tests `invalid` before it compares; `TRY_AND_UPDATE` (`macros.h:74`), which
  refines wires, does not, and a trial bank may become invalid there
  (`BankWithHtree.cpp:796`). Invalid outcomes are therefore part of the
  model, and `BestOfSpace` speaks of retained scores.
- When cells are compared, only the limits of the first apply.
- `main.cpp:214` validates all cells first so that none fails after others were
  explored; `applyConstraint` (`main.cpp:717`) still rejects an MLC NAND cell only
  when the sweep comes to it, and the results of the cells before it are lost.
- A DMA write that does not begin at the line's address is queued at memory with that
  address (`MESI_Two_Level-dir.sm:368`); its answer finds no TBE and `da_sendDMAAck`
  asserts. The model has such writes and lets no transition take the answer.
- `main.cpp:733` prints an error for an associativity that is no power
  of two and continues; the routing halves exactly only for powers of two.
- All message buffers of `MERSI_Three_Level.py` are unbounded. With bounded ones a
  request stalled in a buffer could keep out the answer it waits for,
  so `EveryMessageHandled` is about unbounded buffers; `BufferFits` about all.
- `MESI_Two_Level-dir.sm:516` stalls Data with the action of the request port.
- With prefetching `LoadsAreCurrent` does not hold: a load may join a prefetch
  (`MESI_Three_Level-L0cache.sm:1092`) after the L1 has acked an invalidation and be
  answered with STALE_DATA written over before the load was issued. The
  `devices` run therefore leaves that property out.
- `additionalDataRefreshLatency` charges the part of the refresh window that has
  passed, not the part that remains; the window excludes the cycle whose phase
  equals the period; `tagBankCheckRefresh` takes its start point from the data
  array; all banks refresh at once, since `getRefreshStartPoint` returns 0.
- `wakeUpBuffers` wakes only ports of lower rank but erases the registrations of
  all. The L2 and the directory stall only on rank 0 and wake from higher ranks, so
  nothing is lost (`NoMessageForgotten`); an L1 that used it would lose messages.

## 7. Plan

Built, in this order: banks and refresh; the one-line hierarchy with its
invariants; the abstract memory and refinement; clusters, DMA and prefetch;
liveness; proofs about banks, directory and abstract memory; buffers, stalls and
wakeups; the exploration; the bank organisation; their proofs. To come, most
important first:

1. the L0/L1 inclusion of one core (ordered buffers), then `AcksBalance`, each
   with its own inductive invariant over the type invariant proved here;
2. an inductive invariant for `SingleWriter`, and the refinement proof;
3. the sequencer's request table and the prefetcher's streams;
4. the GT and AMD protocol variants.
