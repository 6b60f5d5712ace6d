----------------------------- MODULE GraphCore -----------------------------
(***************************************************************************)
(* One simulated core driving the graph prefetcher.                       *)
(*                                                                         *)
(* TimingCore::loadAndRecord / storeAndRecord (timing_core.cpp) send an   *)
(* address of the prefetcher window to GraphPrefetcher::load / store with *)
(* field index (addr - base) / GRAPH_PREFETCHER_ELE_SIZE and set curCycle *)
(* to the cycle returned; PrefetcherLoadSrcFunc / PrefetcherLoadDestFunc  *)
(* queue descriptors.                                                      *)
(*                                                                         *)
(* Who calls these is the instrumented graph program, which is not part   *)
(* of this repository; it is modelled as the workload the spec describes: *)
(* sources 1..Len(Degree) are processed in order; source u has Degree[u]  *)
(* neighbours; its source descriptor is queued once the previous one was  *)
(* consumed and its destination descriptors before its SRC_NODE store;    *)
(* while u is processed the program reads SRC_PROPERTY once and, for each *)
(* neighbour in order, its three fields in any order, and may issue one   *)
(* other access of the window (the UPDATES_SIZE load or a latency-only    *)
(* store).  RunAhead says whether the next source's destination           *)
(* descriptors may be queued before the program has issued its last       *)
(***************************************************************************)
EXTENDS GraphPrefetcher

CONSTANTS
  Degree,    \* Degree[u]: number of neighbours of source u
  RunAhead   \* destinations of source u+1 may be queued while u is processed

ASSUME Degree \in Seq(Nat) /\ RunAhead \in BOOLEAN

NumSrc == Len(Degree)
Sources == 1 .. NumSrc

\* struct SrcInfo {property, offsetStart, offsetEnd, numNeighbors}: the
\* source it names, and whether offsetStart and offsetEnd lie on different
\* lines (srcAccess then issues a second offset access).  numNeighbors is
\* never read by the prefetcher.
SrcInfos == [src : Sources, split : BOOLEAN]

\* struct DestInfo {edge, weight, property}: neighbour i of source u.
DestInfos == UNION {{<<u, i>> : i \in 1 .. Degree[u]} : u \in Sources}

VARIABLES
  curCycle,    \* TimingCore::curCycle
  pushedSrc,   \* sources whose descriptor has been queued
  pushedDest,  \* pushedDest[u]: destination descriptors of u queued
  cur,         \* the source whose SRC_NODE store was issued last (0: none)
  propRead,    \* SRC_PROPERTY of cur has been read
  nbr,         \* the neighbour of cur whose fields are being read
  fieldsRead,  \* readiness bits of neighbour nbr the program has read
  misc,        \* the one other window access of cur has been issued
  offsetAt,    \* history: offsetAvailCycle srcAccess computed for each source
  leaked       \* history: event handles srcAccess overwrote while held

coreVars == <<curCycle, pushedSrc, pushedDest, cur, propRead, nbr, fieldsRead, misc>>
vars == <<gpVars, coreVars, offsetAt, leaked>>

GRAPH_PREFETCHER_ELE_SIZE == 8

\* The field index of a byte offset into the prefetcher window.
FieldOfAddr(a) == a \div GRAPH_PREFETCHER_ELE_SIZE

SourceDone(u) == u = cur /\ propRead /\ nbr > Degree[u]

\* The next source may start (store SRC_NODE) once the current one is done.
MayStart == cur = 0 \/ SourceDone(cur)

\* A destination descriptor of the next source is queued already.
NextQueued == cur < NumSrc /\ pushedDest[cur + 1] > 0

Init ==
  /\ GPInit
  /\ curCycle = 0
  /\ pushedSrc = 0
  /\ pushedDest = [u \in Sources |-> 0]
  /\ cur = 0
  /\ propRead = FALSE
  /\ nbr = 1
  /\ fieldsRead = {}
  /\ misc = FALSE
  /\ offsetAt = [u \in Sources |-> Null]
  /\ leaked = {}

(***************************************************************************)
(* TimingCore dispatch of one window access: curCycle takes the returned  *)
(* cycle.  (cRec.record and the locality monitor only observe.)            *)
(***************************************************************************)
LoadAndRecord(a) ==
  /\ Load(FieldOfAddr(a), curCycle)
  /\ curCycle' = resp'

StoreAndRecord(a) ==
  /\ Store(FieldOfAddr(a), curCycle)
  /\ curCycle' = resp'

(***************************************************************************)
(* Front end: PrefetcherLoadSrcFunc / PrefetcherLoadDestFunc.              *)
(***************************************************************************)
PrefetcherLoadSrc ==
  /\ pushedSrc < NumSrc
  /\ pushedSrc = cur
  /\ \E d \in {x \in SrcInfos : x.src = pushedSrc + 1} : PushSrcInfo(d)
  /\ pushedSrc' = pushedSrc + 1
  /\ UNCHANGED <<curCycle, pushedDest, cur, propRead, nbr, fieldsRead, misc, offsetAt, leaked>>

PrefetcherLoadDest ==
  LET u == cur + 1 IN
  /\ u <= pushedSrc
  /\ pushedDest[u] < Degree[u]
  /\ RunAhead \/ MayStart
  /\ PushDestInfo(<<u, pushedDest[u] + 1>>)
  /\ pushedDest' = [pushedDest EXCEPT ![u] = @ + 1]
  /\ UNCHANGED <<curCycle, pushedSrc, cur, propRead, nbr, fieldsRead, misc, offsetAt, leaked>>

(***************************************************************************)
(* Program: the accesses of the window.                                    *)
(***************************************************************************)
EvFields == {"endEvent", "offsetEndEvent"}

\* Handles srcAccess finds held in srcEntry and overwrites (an earlier
\* srcAccess created them; the constructor's leftovers are no handles).
Overwritten ==
  {[ev |-> e, src |-> gp.srcEntry[e]] : e \in {h \in EvFields : gp.srcEntry[h] \notin {Null, Wild}}}

StoreSrcNode ==
  LET u == cur + 1 IN
  /\ u <= NumSrc
  /\ MayStart
  /\ u <= pushedSrc
  /\ pushedDest[u] = Degree[u]
  /\ StoreAndRecord(SRC_NODE_INDEX * GRAPH_PREFETCHER_ELE_SIZE)
  /\ cur' = u
  /\ propRead' = FALSE
  /\ nbr' = 1
  /\ fieldsRead' = {}
  /\ misc' = FALSE
  /\ offsetAt' = IF fault' = Null
                 THEN [offsetAt EXCEPT ![u] = gp'.srcEntry.offsetAvailCycle]
                 ELSE offsetAt
  /\ leaked' = IF fault' = Null THEN leaked \cup Overwritten ELSE leaked
  /\ UNCHANGED <<pushedSrc, pushedDest>>

LoadSrcProperty ==
  /\ cur >= 1
  /\ ~propRead
  /\ LoadAndRecord(SRC_PROPERTY_INDEX * GRAPH_PREFETCHER_ELE_SIZE)
  /\ propRead' = TRUE
  /\ UNCHANGED <<pushedSrc, pushedDest, cur, nbr, fieldsRead, misc, offsetAt, leaked>>

LoadDestField ==
  \E f \in DOMAIN MaskOf :
    /\ cur >= 1
    /\ nbr <= Degree[cur]
    /\ MaskOf[f] \notin fieldsRead
    /\ LoadAndRecord(f * GRAPH_PREFETCHER_ELE_SIZE)
    /\ IF fieldsRead \cup {MaskOf[f]} = GRAPH_DATA_READY
       THEN nbr' = nbr + 1 /\ fieldsRead' = {}
       ELSE nbr' = nbr /\ fieldsRead' = fieldsRead \cup {MaskOf[f]}
    /\ UNCHANGED <<pushedSrc, pushedDest, cur, propRead, misc, offsetAt, leaked>>

\* The one other access of the window while a source is processed.
OtherAccess ==
  /\ ~misc
  /\ cur >= 1
  /\ RunAhead \/ ~NextQueued
  /\ \/ LoadAndRecord(UPDATES_SIZE_INDEX * GRAPH_PREFETCHER_ELE_SIZE)
     \/ \E f \in {OFFSET_INDEX, EDGE_INDEX, WEIGHT_INDEX, PROPERTY_INDEX} :
          StoreAndRecord(f * GRAPH_PREFETCHER_ELE_SIZE)
  /\ misc' = TRUE
  /\ UNCHANGED <<pushedSrc, pushedDest, cur, propRead, nbr, fieldsRead, offsetAt, leaked>>

\* The program has processed every source.
Finished == cur = NumSrc /\ MayStart /\ pushedSrc = NumSrc

\* The program ends, or an assertion has stopped the simulator.
Terminated == (Finished \/ fault /= Null) /\ UNCHANGED vars

Step ==
  \/ PrefetcherLoadSrc \/ PrefetcherLoadDest
  \/ StoreSrcNode \/ LoadSrcProperty \/ LoadDestField \/ OtherAccess

Next == Step \/ Terminated

\* The simulated thread keeps executing its instrumented program.
Spec == Init /\ [][Next]_vars /\ WF_vars(Step)

(***************************************************************************)
(* Properties.                                                              *)
(***************************************************************************)
TypeOK ==
  /\ gp.srcInfo \in Seq(SrcInfos) /\ gp.destInfo \in Seq(DestInfos)
  /\ gp.startIndex \in Slots /\ gp.endIndex \in Slots
  /\ \A s \in Slots : gp.destArray[s].readyBits \subseteq GRAPH_DATA_READY
  /\ \A h \in EvFields : gp.srcEntry[h] \in {Null, Wild} \cup Sources
  /\ curCycle \in Nat /\ cur \in 0 .. NumSrc /\ pushedSrc \in 0 .. NumSrc
  /\ fieldsRead \subseteq GRAPH_DATA_READY /\ fault \in STRING \cup {Null}

\* No assertion or panic of load / store ever fires: the prefetch pipeline
\* always has the slot and the source entry a demand read needs.
NoFault == fault = Null

\* The neighbour the program reads next is already in flight at the head of
\* the ring, with exactly the bits the program has not read yet: demand is
\* always served from its own descriptor, so load(DEST_*) never reads a
\* recycled or overwritten slot.
HeadIsNextNeighbour ==
  (cur >= 1 /\ nbr <= Degree[cur]) =>
     /\ InFlight >= 1
     /\ SlotAt(1).d = <<cur, nbr>>
     /\ SlotAt(1).readyBits = GRAPH_DATA_READY \ fieldsRead

\* destAccess times every destination after its own source's offset range:
\* the edge is never ready before the offsets that locate it (timing of
\* reqCycle = max(cycle, srcEntry.offsetAvailCycle)).
EdgeAfterOwnOffset ==
  \A k \in 1 .. InFlight :
     LET u == SlotAt(k).d[1] IN
     offsetAt[u] /= Null /\ SlotAt(k).ready[DEST_NODE] > offsetAt[u]

\* srcAccess never overwrites an end event of the source entry the
\* prefetcher still holds: each is released (by load of SRC_PROPERTY, or
\* when the last slot drains) before the next SRC_NODE store.
NoLeakedEvent == leaked = {}

\* Once the program has finished, the prefetcher is quiescent: nothing is
\* queued or in flight and the source entry holds no event.
Quiescent ==
  <>[](/\ gp.destInfo = << >> /\ gp.srcInfo = << >> /\ InFlight = 0
       /\ \A h \in EvFields : gp.srcEntry[h] \in {Null, Wild})

\* load releases an event pointer of srcEntry (setFreeElem or freeEv, then
\* nulls it) only if srcAccess stored it: a pointer still holding the
\* constructor's leftover value is never dereferenced as an event, it can
\* only be overwritten by the next srcAccess.  Checks that the release in
\* load's drain tail and at SRC_PROPERTY agrees with the stores that
\* srcAccess makes under if(evRec).
NoWildRelease ==
  [][\A h \in EvFields : gp.srcEntry[h] = Wild => gp'.srcEntry[h] /= Null]_vars

(***************************************************************************)
(* The ring implements the abstract pipeline of GraphPipeline.             *)
(***************************************************************************)
Pipe == INSTANCE GraphPipeline
          WITH pending <- gp.destInfo,
               inflight <- [k \in 1 .. InFlight |->
                              [d |-> SlotAt(k).d, left |-> SlotAt(k).readyBits]],
               Fields <- GRAPH_DATA_READY,
               Descs <- DestInfos

PipelineRefinement == Pipe!PipeSpec

=============================================================================
