# TLA+ models of the DAMOV simulator's timing core and prefetchers

This directory holds TLA+ models of the code under `src/simulator/src/`:
the graph prefetcher (`graph_prefetcher.{h,cpp}`), the timing core that
drives it (`timing_core.cpp`), and the stream prefetcher with its timing event (`prefetcher.h`).
TLC checks them. `PROJECT.json` lists the components, the runs, the mutants
that show each property can fail, the map from every TLA+ definition to the
source lines it models, the findings, and the hazards.

## 1. Inventory

### Components and their state

| Component | Source | State | Operations |
|---|---|---|---|
| Graph Prefetcher | `graph_prefetcher.h/.cpp` | `srcInfo`, `destInfo` (FIFO descriptor queues); `srcEntry` {propertyAvailCycle, offsetAvailCycle, endEvent, offsetEndEvent}; ring `destArray[nEntries]` of {readyBits, three ready cycles, three end events}; `startIndex`, `endIndex` | `pushSrcInfo`, `pushDestInfo`, `srcAccess`, `destAccess`, `load(field, cycle)`, `store(field, cycle)`; `access`/`invalidate`/`setChildren` only panic |
| Timing Core | `timing_core.cpp` | `curCycle`, `instrs`, `phaseEndCycle`, `offload_region`, `offload_instrs`; a contention recorder `cRec` | `loadAndRecord`, `storeAndRecord` (dispatch to the prefetcher window or the L1d), `bblAndRecord` (count instructions, fetch the block's lines through the L1i), `BblAndRecordFunc` (phase barrier loop, context switch), `join`, `leave`, `contextSwitch`, the predicated and offload entry points |
| Stream Prefetcher | `prefetcher.h` (the `access` body is in `prefetcher.cpp`, not in the sources) | per entry: stride, `SatCounter<3,2,1>` confidence, 64-line valid bitmap and times, lastPos, lastLastPos, lastPrefetchPos, ts; tag array; LRU timestamp | `access`, `invalidate`, `Entry::alloc`, `SatCounter::{inc,dec,reset,pred}` |
| StreamPrefetcherEvent | `prefetcher.h` | three TimingRecords, onGoingCycle | `setAccessRecord`, `setNextFetchRecord`, `setStrideFetchRecord`, `coupleEvents`, `chainEvents` |
| SimpleCore | `simple_core.h` | declaration only | forwards descriptor pushes to the prefetcher |
| External | not in the sources | memory hierarchy (`parent->access`), event recorder and TimingEvent nodes, barrier/scheduler, instrumentation front end | — |

### How they interact

The instrumented program calls the timing core for every basic block, load and
store, and calls `PrefetcherLoadSrcFunc`/`PrefetcherLoadDestFunc` to queue
descriptors. A load or store whose address lies in the prefetcher window goes
to `GraphPrefetcher::load/store` with field index `(addr - base) / 8`. Other
addresses go to the L1d. `curCycle` takes the cycle that comes back. Inside the
prefetcher, `store(SRC_NODE)` runs `srcAccess` (property and offset-range
accesses to the parent memory object). It then fills every empty ring slot with
`destAccess` (edge, weight and destination-property accesses). A demand
`load` of a destination field clears one readiness bit of the slot at
`startIndex`. The load that clears the last bit recycles the slot and launches
the next queued descriptor. Every access is a synchronous call that returns a
completion cycle. Beside the cycles, the code builds an event graph of
`TimingEvent` nodes that are released by hand.

### What is hard

* **Ordering between two producers and one consumer.** The front end queues
  descriptors, the program issues demand reads, and prefetches are launched
  from three places: the store's fill loop, the drain of a slot, and a
  SRC_PROPERTY/UPDATES_SIZE load that finds the ring drained. Which
  source entry a destination is timed against depends on how these interleave.
* **A ring with no count.** When `startIndex == endIndex`, only the
  `readyBits` of that slot tell a full ring from an empty one.
* **Manual event lifetime.** `srcEntry`'s two end events are released on two
  different paths, and `srcAccess` overwrites them unconditionally.
* **Phases and barriers** (timing core): a core catches up several phases in a
  loop and may be context-switched in the middle.
* **Bounded counters and alignment**: the saturating confidence counter, and an
  instruction-fetch loop that starts at an unaligned address.

### What makes each component correct

* Graph prefetcher: a demand read never finds its slot empty (no assertion
  fires). The slot at the head holds the neighbour the program is reading.
  Every edge is timed after its own source's offsets. No event handle is
  overwritten while it is held. Everything drains. The ring behaves as a
  bounded FIFO.
* Timing core: curCycle never decreases. Every line a basic block covers is
  fetched. No core simulates past its phase end without taking the barrier.
  Cores stay within one phase of each other.
* Stream prefetcher: confidence stays in [0, 3]. It predicts only at or above
  2. The stride switches only when confidence is 0. A re-prefetch of a valid
  line is a no-op. A hit returns max(cycle + latency, ready cycle).

## 2. Plan

Modules are listed in build order. The most important behaviour comes first.

1. **GraphPrefetcher** (done): the component, with pure operators
   `SrcAccess`, `DestAccess`, `FillSlots`, `AfterLoad`, `LoadOp` and `StoreOp`
   over the object's state, and actions `PushSrcInfo`, `PushDestInfo`, `Load`
   and `Store`.
2. **GraphPipeline** (done): the abstract specification. A FIFO of
   destination descriptors with at most `NEntries` in flight, each field read
   once, oldest first.
3. **GraphCore** (done): the timing core's window dispatch composed with the
   prefetcher and a graph workload, plus the properties and the refinement
   `GraphPipeline` under a mapping from the ring. **MCGraphCore** instantiates
   it.
4. **TimingCore** (done): `bblAndRecord` with its instruction-fetch loop,
   checked against the set of lines a block covers; `BblAndRecordFunc`'s
   phase loop for several cores with a barrier and context switches, plus
   `join`; the L1 path. **MCTimingCore** instantiates it.
5. **StreamPrefetcher** (done): `SatCounter`, `Entry::alloc` and the
   calloc'd table from `prefetcher.h`. `access` and `invalidate` are modelled
   from the spec (`spec_modelled`, because `prefetcher.cpp` is not in the
   sources). **MCStreamPrefetcher** instantiates it, and **StreamScenarioB**
   runs Scenario B of the spec.
6. **Event recorder / TimingRecord slot** (judged shallow): GraphEvents pops
   every record the parent pushes within the same access, and the core's
   contention recorder consumes each call's own record after the call. With
   strictly sequential calls the slot is empty at every push, so a property
   about it would hold by the shape of the model.
7. Further GraphCore runs: no event recorder (`HasEvRec = FALSE`, the
   SimpleCore configuration; done: `graph_core_norec`); a workload that reads
   UPDATES_SIZE before its first SRC_NODE store, and larger latencies (to do).
8. **GraphEvents** (done): the event subgraph that `srcAccess`, `destAccess`
   and `load` build beside their cycle arithmetic, with the weave replay
   modelled from the spec, checked against the scalar cycles.
9. **StreamPrefetcherEvent** (done): the event the stream prefetcher builds
   for one access, with its three records, `coupleEvents` and `chainEvents`,
   replayed as in GraphEvents.

## 3. What is modelled

### GraphPrefetcher.tla

The state is one record variable `gp` whose fields are named after the members
of `GraphPrefetcher`: `srcInfo`, `destInfo`, `srcEntry`, `destArray`,
`startIndex` and `endIndex`. `resp` is the cycle the last call returned.
`fault` is the assertion or panic that stopped the simulator.

* A descriptor is represented by its identity: `[src, split]` for a source,
  where `split` means the offset range spans two lines, and `<<u, i>>` for
  neighbour `i` of source `u`. The addresses only select lines.
* `parent->access` returns `req + l` with `l` drawn from `MemLatency`.
* An event pointer of `srcEntry` (`endEvent`, `offsetEndEvent`) is `Null`,
  `Wild` (a non-null value no `srcAccess` created) or the source whose
  `srcAccess` created the event. `StoredEv` is what `srcAccess` leaves in it:
  the new event when the core has an event recorder (the `if(evRec)` block at
  graph_prefetcher.cpp:61-86), the old value otherwise. Both branches of
  `canAddChild()` (hand the node to the graph with `setFreeElem`, or `freeEv`)
  release the handle and null the pointer. A slot's three end events are held
  exactly while their readiness bits are set, so the bits stand for them.
* The readiness bitmask is a set of `GraphDataMask` names.
* `GPInit` is the constructor. It sets the indices and resizes `destArray`,
  but leaves `srcEntry` uninitialised, so each of its two event pointers
  starts `Null` or `Wild`, whichever the allocation leaves (the allocator is
  not in the sources). `src = Null` marks an entry no
  `srcAccess` has written.
* `load` and `store` are the operators `LoadOp` and `StoreOp`, and each returns
  an `Outcome`. An assertion or panic is a fault that leaves the object
  unchanged and stops the model.
* `store(SRC_NODE)` is `SrcAccess` followed by the recursive `FillSlots`, which
  is the `while` loop at graph_prefetcher.cpp:432.
* `load` is its `switch` followed by `AfterLoad`, the
  `readyBits == 0` tail at graph_prefetcher.cpp:373-402.

### GraphPipeline.tla

The abstract promise has two sequences. `pending` holds the queued
descriptors. `inflight` holds the launched descriptors, each with the fields
still to read. The actions are `Push`, `Launch` (of k descriptors) and `Read`
(one field of the oldest descriptor, which is retired when no field is left,
possibly followed by k launches).

### GraphCore.tla

The descriptors are `SrcInfos` (`struct SrcInfo` as the source it names and
whether its offset range spans two lines; `numNeighbors` is never read) and
`DestInfos` (`struct DestInfo` as neighbour `i` of source `u`); `TypeOK`
requires both queues to hold only these. The timing core's `loadAndRecord`/`storeAndRecord` for window addresses and
the `PrefetcherLoad*Func` entry points. The instrumented graph program is not
in this repository, so it is modelled as the workload the spec describes:

* sources are processed in order;
* a source descriptor is queued only after the previous one was consumed;
* a source's destination descriptors are queued before its SRC_NODE store;
* while a source is processed, the program reads SRC_PROPERTY once and, for
  each neighbour in order, reads its three fields in any order;
* the program may also issue one other window access: the UPDATES_SIZE load or
  a latency-only store.

With `RunAhead = FALSE`, the next source's destination descriptors are queued
only after the program's last access of the current source. The
history
variables are `offsetAt`, the offset cycle `srcAccess` computed for each
source, and `leaked`, the handles `srcAccess` overwrote while they were held.

Properties:

| Property | Kind | What it says |
|---|---|---|
| `TypeOK` | invariant | types of the ring, indices, event pointers and workload state |
| `NoFault` | invariant | no assertion or panic of `load`/`store` fires |
| `HeadIsNextNeighbour` | invariant | the neighbour the program reads next is in flight at the ring's head, with exactly the bits the program has not read yet |
| `EdgeAfterOwnOffset` | invariant | every in-flight destination's edge is ready strictly after its own source's offsets were available |
| `NoLeakedEvent` | invariant | `srcAccess` never overwrites a held end event |
| `NoWildRelease` | action | `load` never releases (nulls) an event pointer of `srcEntry` that still holds a value no `srcAccess` stored. Checked only by `graph_core_norec`: with a recorder, the first SRC_NODE store overwrites both pointers before any window load of the modelled workload, so it would restate that store |
| `Quiescent` | liveness | eventually nothing is queued or in flight and the source entry holds no event |
| `PipelineRefinement` | refinement | `GraphPipeline!PipeSpec` under the mapping `pending <- destInfo`, `inflight <- the InFlight slots from startIndex` |

### TimingCore.tla

Several cores, each running `BblAndRecordFunc` and the program's L1d
accesses. The variables are `curCycle`, `phaseEndCycle`, `pc` (where the
core's thread is), `unchecked` (cycles the loads added since the last phase
check) and the history variable `fetched` (the lines the last block occupies
and the lines it fetched).

* Cycles are stored relative to `zinfo->globPhaseCycles`. The end of a phase
  subtracts `PhaseLength` from the cycles of the cores that keep running. This
  keeps the state space finite with no bound on simulated time. Every property
  compares cycles of one core with the same phase's boundaries, so the
  subtraction does not change what it says.
* `BblAndRecord` is `bblAndRecord`: `curCycle += instrs`, then the
  recursive `FetchAddrs` gives the addresses of the fetch loop
  (timing_core.cpp:137), and each `l1i->load` adds a latency from `ICacheLat`.
  The core then enters its phase loop.
* `LoadAndRecord` is the L1d branch of `loadAndRecord`/`storeAndRecord`: it
  adds a latency from `DCacheLat`. At most one is allowed between blocks.
* `PhaseCheck` is one test of the `while` at timing_core.cpp:176. If the core
  is behind the phase end, it advances `phaseEndCycle` and waits in the
  barrier. Otherwise it returns to the program.
* `TakeBarrier` and `NotifyJoin` come from code outside the sources
  (`zsim.cpp`, the scheduler and the contention recorder), so they are
  modelled from the spec. The barrier opens once every core with a thread
  waits. The phase ends. Each released thread either stays on its core, in
  which case the loop tests again, or is switched away: `newCid != cid`, the
  loop breaks and the core is idle. `Join` is `join()`. The joining thread
  starts at the beginning of the current phase, and `phaseEndCycle` is reset to
  the current phase's end.

Properties:

| Property | Kind | What it says |
|---|---|---|
| `TypeOK` | invariant | types; running cores never lag behind the global phase, and `phaseEndCycle` is within two phases |
| `LockStep` | invariant | every core running its program is in the global phase; a core in the barrier has already advanced to the next one |
| `CaughtUp` | invariant | a core returns to its program only once its last block's cycles lie within the current phase, however many phases the block overran |
| `NoFetchPastBlock` | invariant | the fetch loop never fetches a line the block does not occupy |
| `FetchCoversBlock` | invariant | every line the block occupies is fetched (the spec's statement; violated) |
| `BarrierReleases` | liveness | every core waiting in the barrier eventually leaves it |

### StreamPrefetcher.tla

The variables are `tag`, `array` (per entry: `stride`, `conf`, `valid`,
`lastPos`) and `lru`, the entries ordered from least to most recently used.
`lru` stands for the `ts`/`timestamp` pair, without an unbounded counter.

* `SatInc`, `SatDec`, `SatReset` and `Pred` are `SatCounter<3, 2, 1>`
  (prefetcher.h:131-142). `Alloc` is `Entry::alloc`.
* `Init` is what `createArray` leaves. `gm_calloc` runs no constructor, so
  every entry is all-zero: tag 0, stride 0 and count 0. The count is not
  SatCounter's initial 1. All timestamps tie, and ties go by index.
* `Access(a)` follows spec §4.2, because its code is not in the sources.
  1. A line maps to region `a \div Window` and position `a % Window`.
  2. On a tag miss, the LRU entry is allocated.
  3. On every access, hit or miss, `Train` compares `pos - lastPos` with the
     stride. If they are equal, the count is incremented. Otherwise it is
     decremented, and if it reaches 0 the stride becomes the new delta.
  4. When `pred()` holds, `Train` prefetches `pos + stride` if that position
     lies in the region. A line that is already valid is left as it is.

  The accessed entry becomes the most recently used. `Invalidate(a)` clears
  the line's valid bit.
* Cycles, the profiling counters, `lastLastPos` and `lastPrefetchPos` are
  left out, because nothing the spec describes reads them.
* The history variables are:
  * `issued`: the lines prefetched and not invalidated since;
  * `streak`: per region, the run of equal deltas since its allocation.

| Property | Kind | What it says |
|---|---|---|
| `TypeOK` | invariant | types; the count stays within 0..3 |
| `HitOnlyOnPrefetched` | invariant | a valid line of an entry was prefetched for the entry's current region and not invalidated since (no stale valid bit survives a replacement) |
| `StrideDetected` | invariant | after `WarmUp` = 5 consecutive equal deltas K in a tracked region, whatever the entry's state before, the entry predicts with stride K |
| `PrefetchByThirdAccess` | invariant | Scenario B: offsets 0, 1, 2, 3 prefetch offset 4 by the third access (violated) |

### GraphEvents.tla

The graph prefetcher keeps every cycle twice: as a scalar (`srcEntry`'s
avail cycles, a slot's ready cycles, the cycle `load` returns) and as timing
events that the contention simulator replays later. GraphEvents models the
events.

* The state is the event graph `g`: a node is `[delay, minStart]`, an edge
  `<<p, c>>` is `p->addChild(c)`. Node ids are tuples headed by the number of
  the call that created them. Beside it: `srcEntry`, one ring slot (a ring of
  one entry), the number of queued destination descriptors, the program's
  cycle and `weaved`, the cycle up to which weave phases have simulated the
  graph.
* `PopRecord`, `Fetch` and `Request` are the three patterns the code repeats
  for every access: hang a record the parent pushed behind the request event
  by `DelayEvent(rec.reqCycle - req)`, end the access in a `DummyEvent` at
  `resp` reached by `DelayEvent(resp - req)`, and chain a destination request
  behind the caller's start event and the source's offset end event.
  `SrcAccess` and `DestAccess` are `srcAccess` and `destAccess` built from
  them, line by line. `SrcAccess` keeps the delay of the property record as
  the code writes it: `srcAcc.reqCycle - srcAcc.reqCycle`.
* `Store` is `store(SRC_NODE)` with its fill loop. `Load(f)` is `load` of
  SRC_PROPERTY or a destination field: its own start, delay and end events,
  the link from the held end event when `canAddChild()`, and the
  refill or release tail. `PhaseEnd` is a phase boundary.
* `DoneIn` is the replay, from the spec: a node starts at its minimum start
  cycle or when its last parent is done, whichever is later, and is done
  `delay` cycles later. `DoneIn(G, n, r, dl)` delays the start of `r` by
  `dl`. `CanAddChild` is "not yet simulated by a weave phase".
* The parent cache is a latency from `ParentLat`. For each call it pushes a
  record for every access or for none, starting `RecOffsets` cycles after
  the request.

A step adds edges only into the events it creates. So the replay of events
that already exist never changes, and the properties are checked, as action
properties, on the events and scalars each step creates.

| Property | Kind | What it says |
|---|---|---|
| `TypeOK` | invariant | every delay and minimum start cycle is a natural number; edges join existing events (no null child); `toplevel` holds existing events or null |
| `ReplayMatchesScalars` | action | every scalar cycle a step computes is the cycle at which the replay, without contention, finishes the event mirroring it |
| `ContentionPropagates` | action | delaying a call's start event by `Contention` delays every event the call built behind it by exactly that much (violated) |

### StreamPrefetcherEvent.tla

`StreamPrefetcherEvent` (prefetcher.h:38-124) is the timing event that the
stream prefetcher creates for one access. It keeps the TimingRecords of the
demand access, the next-line fetch and the stride fetch.

* The state is the event graph: `ev` maps an event to `[delay, minStart]`,
  and `children` is a bag of `<<parent, child>>` pairs, one copy per
  `addChild` call. The weave counts a child's parents by those calls, so a
  duplicate matters. Beside it: `theRecords`, `onGoingCycle`, the caller's
  `toplevel` record and whether `chainEvents` has run.
* `Init` is the constructor: `TimingEvent(0, 0, domain)` with minimum start
  `startMinCycle` and three cleared records.
* `SetRecord(s)` is any of the three setters. It stores a record in its slot
  and runs `CoupleEvents`. That raises the minimum start cycle to the
  record's `reqCycle` when it lies after `onGoingCycle`, and adds the event as
  a parent of the record's start and end events, once when they are the same.
  Each `addChild` call adds one copy of its edge to the bag `children`
  (`AddChild`), so the branches of the code decide the multiplicities.
* `ChainEvents` is `chainEvents(toplevel)` with all its branches.
* The caller (`StreamPrefetcher::access`, in `prefetcher.cpp`) is not in the
  sources. It is modelled as any subset and order of the setters, each once,
  then one `chainEvents`. A record the parent returns is requested no
  earlier than the event's creation cycle. It has either one event, done at
  `respCycle`, or a start event, a delay of the latency and an end event
  (`Records`, `RecordEvents`, spec_modelled).
* `Done` is the replay of GraphEvents. `simulate(startCycle)` is
  `done(startCycle)`: the event is done when it starts.

| Property | Kind | What it says |
|---|---|---|
| `TypeOK` | invariant | every delay and minimum start cycle is a natural number; edges join existing events (no null child); `toplevel` holds existing events or null |
| `NoDuplicateChild` | invariant | no `addChild` call names a parent-child pair an earlier call named: the `startEvent == endEvent` tests of `coupleEvents` and of `chainEvents` (for a one-event next fetch behind a one-event incoming request) keep every child's parent count right |
| `CoupledRecordsOnTime` | invariant | without contention every coupled record ends at the cycle the parent returned for it (violated) |

## 4. Runs

| Run | Config | Expect | Shows |
|---|---|---|---|
| `graph_core` | `MCGraphCore.cfg` | pass | `TypeOK`, `NoFault`, `HeadIsNextNeighbour`, `EdgeAfterOwnOffset`, `NoLeakedEvent`, `Quiescent`, `PipelineRefinement`. About 3.7k distinct states, in seconds |
| `graph_core_runahead` | `MCGraphCoreRA.cfg` | violation | `EdgeAfterOwnOffset` fails when destination descriptors run ahead (finding below) |
| `graph_core_norec` | `MCGraphCoreNoRec.cfg` | violation | `NoWildRelease` fails without an event recorder: the first drained ring frees the constructor's `offsetEndEvent` (finding below) |
| `timing_core_phases` | `MCTimingCore.cfg` | pass | `TypeOK`, `LockStep`, `CaughtUp`, `NoFetchPastBlock`, `BarrierReleases`. About 2.3k distinct states |
| `timing_core_fetch` | `MCTimingCoreFetch.cfg` | violation | `FetchCoversBlock` fails for a block that starts mid-line (finding below) |
| `stream_lru` | `MCStreamLru.cfg` | pass | `TypeOK`, `HitOnlyOnPrefetched`. About 470k distinct states, about 1 min |
| `stream_stride` | `MCStreamStride.cfg` | pass | `StrideDetected`. About 400k distinct states, about 1 min |
| `stream_scenario_b` | `StreamScenarioB.cfg` | violation | Scenario B does not hold under the spec's update rule (finding below) |
| `graph_events` | `GraphEvents.cfg` | pass | `TypeOK`, `ReplayMatchesScalars`. About 80k distinct states, about 1 min |
| `graph_events_contention` | `GraphEventsContention.cfg` | violation | `ContentionPropagates` fails at the source-property record (finding below) |
| `stream_event` | `StreamPrefetcherEvent.cfg` | pass | `TypeOK`, `NoDuplicateChild`. About 7.8k distinct states, in seconds |
| `stream_event_coupling` | `StreamPrefetcherEventOnTime.cfg` | violation | `CoupledRecordsOnTime` fails when a later record raises the event's minimum start cycle (finding below) |

**Bounds (GraphCore).** There are three sources with `Degree = <<3, 0, 1>>` and a ring of
`NEntries = 2`. The first source has more neighbours than the ring has slots,
so the ring fills, wraps and refills on a drain, and `startIndex == endIndex`
happens both full and empty. The source with no neighbours makes SRC_PROPERTY
find the ring drained, which is the path that must not advance `startIndex`.
The last source follows a degree-0 source. `MemLatency = {2}` and
`Latency = 1`. Latencies only shift cycles: the properties compare cycles of
the same run. A run with two latencies multiplies the launch choices and is
left to the plan. Every mutant in `PROJECT.json` is killed under these bounds. `graph_core_norec` uses the same
bounds with `HasEvRec = FALSE`. Every run explores the four initial choices
of the two pointers (`Null` or `Wild` each).

**Bounds (TimingCore).** There are two cores and `PhaseLength = 2`. Lines
are 4 bytes (`LineBits = 2`). Three blocks are used: one aligned line, two
lines, and 4 bytes from address 2. `ICacheLat = {0, 2}` and `DCacheLat = {1}`.
One block plus its misses can overrun the phase by more than a whole phase, so
the loop takes two barriers in a row. The two cores reach the barrier in
either order, and either thread can be switched out and joined again.

**Bounds (StreamPrefetcher).** The code has 64 lines per region. The model
uses a smaller `Window`, which changes only how far a stride can go.

* `stream_lru` has two entries and three regions: regions 0 and 1 with two
  lines each, and region 2 with one line. Region 0 is the tag the calloc'd
  entries start with. Every order of hits, misses and invalidations over these
  lines is explored, so each entry is replaced while the other holds valid lines.
* `stream_stride` has one entry, a 6-line region and one line of a second
  region that evicts it. A region of 6 lines holds a stride-1 run of
  `WarmUp + 1` positions. All access sequences are explored, from the calloc'd
  entry and from every state that the other sequences reach.

**Bounds (GraphEvents).** One source with two destinations on a ring of
one slot. The store fetches the first destination, and the load that drains
it fetches the second, so `destAccess` runs from both callers. The program
reads SRC_PROPERTY at any point and each neighbour's fields in any order. A
phase boundary can fall between any two calls, so held events are both
linked and found already simulated. `latency = 1`, `ParentLat = {2}` and
`RecOffsets = {1}`: a record starts a cycle after its request, which is
exactly the case the `srcAcc` delay gets wrong. Without it the record's
start event would have no slack to lose.

**Bounds (StreamPrefetcherEvent).** `Cycles = {0, 1, 3}` for the creation
cycle and the request cycles, `Lats = {1, 3}`, and each record may have one
event or two. Records are requested at the creation cycle or later, in every
order and subset, so a record is coupled both before and after one that
raises the minimum start cycle. A latency of 3 against 1 lets a next-line
fetch requested early end before a slow demand access, which is what the
end-to-end link must prevent.

**Fairness (TimingCore).** Each core step and the barrier are weakly fair.
Every simulated thread runs on its own host thread and keeps executing
blocks, and the barrier opens as soon as everyone has arrived.

**Fairness (GraphCore).** `WF_vars(Step)`. The simulated thread keeps executing its
program, and every call is synchronous, so some step of the program or the
front end is always taken until the workload is finished. No fairness is
assumed for anything else.

## 5. Findings

* **Destination run-ahead is timed against the wrong source** (spec gap,
  `graph_core_runahead`). `destAccess` uses `srcEntry.offsetAvailCycle` and
  `srcEntry.offsetEndEvent` of whichever source is current
  (graph_prefetcher.cpp:143, 156). Suppose a destination descriptor of source
  u+1 is queued before the program's last access of source u. Then a load of u
  launches it before `srcAccess(u+1)` has run. That load can be SRC_PROPERTY
  or UPDATES_SIZE on a drained ring, or the load that drains u's last slot. The
  edge is requested before u+1's offsets are available, and it is chained to
  u's offset event, which is then overwritten unreleased. The spec only says
  that descriptors are "pushed ahead of the demand stream" and that at most one
  source descriptor is unconsumed. It does not state the rule the code needs.
  `SrcInfo` carries `numNeighbors` (graph_prefetcher.h:59), which would let
  the prefetcher tell one source's destinations from the next, but no code
  reads it.

* **Without an event recorder, load frees a pointer no srcAccess set**
  (code bug, `graph_core_norec`). `srcAccess` stores `srcEntry.endEvent` and
  `srcEntry.offsetEndEvent` only inside `if(evRec)` (graph_prefetcher.cpp:61-86),
  and the constructor never initialises `srcEntry` (graph_prefetcher.h:113,
  122-130). The drain tail of `load` (387-398) tests `offsetEndEvent` and calls
  `canAddChild()` and `setFreeElem`/`freeEv` on it with no `evRec` test; the
  SRC_PROPERTY case guards the same handling with `if(evRec)` (261). A
  SimpleCore holds a graph prefetcher and no recorder (simple_core.h:42).
  TLC's trace, 11 steps of the ordinary workload:
  1. the front end queues source 1 and its three destinations;
  2. the SRC_NODE store fills both slots, leaving `offsetEndEvent` as it was;
  3. the program reads the fields of neighbours 1 and 2; the drain of slot 1
     launches neighbour 3, and the drain of slot 2 finds nothing queued and
     releases `offsetEndEvent`, which still holds the allocation's value.

  With a recorder, the modelled workload cannot break `NoWildRelease`: its
  first window access is the SRC_NODE store, which overwrites both pointers. A load
  before the first SRC_NODE store would reach the same release with a
  recorder present; the modelled program does not issue one.

* **The instruction-fetch loop misses the last line of some blocks**
  (spec/code divergence, `timing_core_fetch`). The spec says instruction
  fetch iterates the block's line-aligned address range. The loop at
  timing_core.cpp:137 starts at the unaligned `bblAddr` and steps by a line
  while `fetchAddr < endBblAddr`. A block that starts k bytes into a line and
  ends fewer than k bytes into the next line never fetches that next line.
  For example, with 4-byte lines, a 4-byte block at address 2 fetches line 0
  only.

* **Scenario B does not follow from the spec's update rule** (spec gap,
  `stream_scenario_b`). The rule computes the delta on every access. Alloc
  sets `lastPos` to 0 and the count to 1 (prefetcher.h:174-182). Then:
  1. The first access of a fresh region at offset 0 gives delta 0. The count
     drops to 0 and the stride switches to 0.
  2. The second access switches the stride back to 1.
  3. The third access raises the count to 1.
  4. Offset 4 is prefetched only with the fourth access.

  Even if a miss skipped the update, one prefetch at `pos + stride` per access
  would reach offset 4 only on the fourth access. Scenario B holds only if an
  access may prefetch several lines ahead ("prefetch(es) ... within the window
  budget"), and the spec does not say how many.

* **A contention delay of the store is lost at the source-property
  record** (code bug, `graph_events_contention`). `srcAccess` hangs the
  parent's record of the property access behind its start event by
  `DelayEvent(srcAcc.reqCycle - srcAcc.reqCycle)`, which is always 0
  (graph_prefetcher.cpp:76). The five other records use
  `rec.reqCycle - reqCycle` (lines 95, 108, 164, 196, 222). Without
  contention the record's minimum start cycle hides the difference, and
  `ReplayMatchesScalars` holds. When the store's start event is delayed by a
  cycle, TLC shows the record's start event replayed at its old cycle
  instead of a cycle later. With the delay written as
  `srcAcc.reqCycle - reqCycle` the property holds under the same bounds.

* **Coupling a later record delays the earlier ones** (spec gap,
  `stream_event_coupling`). `coupleEvents` makes the prefetcher event a
  parent of every record's start event. For each record requested after
  `onGoingCycle` it sets the event's minimum start cycle to that record's
  `reqCycle` (prefetcher.h:77-79). That is one value, which the last such
  record overwrites. A record coupled before it with a smaller `reqCycle`
  then cannot start in the replay before the later `reqCycle`. TLC shows the
  demand access requested at cycle 0 with latency 1 replayed to end at 2
  once a next-line fetch requested at 1 is coupled. The spec says the replay
  attributes time to contention, and nothing states the caller order that
  avoids this.

## 6. Not modelled (yet) and why

* The TimingRecord slot of the event recorder: see plan item 6. Freeing
  events and the free-element flag: no property is about memory reuse.
* Of the timing core: `leave` and `contextSwitch`, which only notify the
  contention recorder and flush the filter caches; the offload counters and
  the locality monitor, which are statistics; the predicated entry points,
  which only guard calls that are already modelled.
* The memory hierarchy, contention recorder, barrier implementation,
  statistics and locality monitor are external or only observe.
* `initStats`, `setParents`, `setChildren`, `access` and `invalidate` of the
  graph prefetcher are setup or unconditional panics.
* SimpleCore beyond its configuration: `simple_core.h` only declares the
  class. Its descriptor forwarders (75-76) are the pushes GraphCore models,
  and the absence of an event recorder is `HasEvRec = FALSE`
  (`graph_core_norec`). Its `load`, `store`, `bbl` and phase loop are in
  `simple_core.cpp`, which is not in the sources.
