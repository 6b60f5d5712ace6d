-------------------------- MODULE GraphPrefetcher --------------------------
(***************************************************************************)
(* The graph prefetcher of src/simulator/src/graph_prefetcher.cpp.        *)
(*                                                                         *)
(* The front end queues one source descriptor per source node (srcInfo)   *)
(* and one destination descriptor per neighbour (destInfo).  A store to   *)
(* SRC_NODE_INDEX consumes the source descriptor (srcAccess) and launches *)
(* destination prefetches (destAccess) into the empty slots of the ring   *)
(* destArray[0..nEntries-1]; demand loads of the three destination        *)
(* fields clear the readiness bits of the slot at startIndex, and the     *)
(* load that clears the last bit recycles the slot and launches the next  *)
(* queued descriptor.                                                     *)
(*                                                                         *)
(* Abstractions.  A descriptor is represented by its identity (the        *)
(* addresses it carries only select which line the memory object is      *)
(* asked for); the latency the memory object answers with is an input     *)
(* drawn from MemLatency.  An event pointer of srcEntry is Null, Wild     *)
(* (the non-null value the uninitialised constructor may leave) or the    *)
(* source whose srcAccess created the event: both branches of the         *)
(* canAddChild() test release the handle and null the pointer, so the     *)
(* branch does not change the prefetcher's state.  The three per-field    *)
(* end events of a slot are held exactly while the field's readiness    *)
(* bit is set (destAccess sets both, load clears both), so the bits       *)
(* stand for them.  The event graph built                                  *)
(* alongside and the TimingRecord pushed for the core are not state of    *)
(* the prefetcher and are left out.  An assertion or panic stops the      *)
(* simulator: it is the fault returned by an operation.                   *)
(***************************************************************************)
EXTENDS Naturals, Sequences, TLC

CONSTANTS
  NEntries,    \* nEntries: capacity of the destination ring destArray
  Latency,     \* latency: the prefetcher's own access latency
  MemLatency,  \* cycles the parent memory object may take for one access
  HasEvRec,    \* zinfo->eventRecorders[srcId] is non-null (weave timing)
  Null,
  Wild         \* a non-null pointer value no srcAccess created

ASSUME NEntries \in Nat \ {0}
ASSUME Latency \in Nat /\ MemLatency \subseteq Nat \ {0} /\ MemLatency /= {}
ASSUME HasEvRec \in BOOLEAN /\ Wild /= Null

VARIABLES
  gp,     \* the GraphPrefetcher object: its queues, srcEntry, destArray, indices
  resp,   \* the cycle returned by the last load or store
  fault   \* Null, or the assertion / panic that stopped the simulator

gpVars == <<gp, resp, fault>>

\* enum GraphDataIndex: the field an address of the prefetcher window names.
OFFSET_INDEX == 0
EDGE_INDEX == 1
WEIGHT_INDEX == 2
PROPERTY_INDEX == 3
SRC_NODE_INDEX == 4
UPDATES_SIZE_INDEX == 5
SRC_PROPERTY_INDEX == 6
DEST_NODE_INDEX == 7
WEIGHT_VALUE_INDEX == 8
DEST_PROPERTY_INDEX == 9

\* enum GraphDataMask: the readiness bits of a destination slot, as a set.
DEST_NODE == "DEST_NODE"
WEIGHT_VALUE == "WEIGHT_VALUE"
DEST_PROPERTY == "DEST_PROPERTY"
GRAPH_DATA_READY == {DEST_NODE, WEIGHT_VALUE, DEST_PROPERTY}

\* The bit a demand load of a destination field tests and clears.
MaskOf == DEST_NODE_INDEX :> DEST_NODE @@ WEIGHT_VALUE_INDEX :> WEIGHT_VALUE
            @@ DEST_PROPERTY_INDEX :> DEST_PROPERTY

Slots == 0 .. NEntries - 1

MaxOf(a, b) == IF a >= b THEN a ELSE b

\* The ring index after i: (i + 1) % nEntries.
NextSlot(i) == (i + 1) % NEntries

\* A DestEntryInfo: readyBits, the three ready cycles (edgeReadyCycle,
\* weightReadyCycle, propertyReadyCycle) by bit, and the descriptor it holds.
EmptySlot == [readyBits |-> {}, d |-> Null, ready |-> [m \in GRAPH_DATA_READY |-> 0]]

\* The constructor: destArray.resize(nEntries) value-initialises every slot,
\* startIndex = endIndex = 0.  srcEntry is left uninitialised: its event
\* pointers hold whatever the allocation left there, null or not, and no
\* srcAccess has written it (src = Null).  Its cycles are taken as 0, the
\* earliest they can be: a destination timed against them is then never
\* held back by them.
GPInit ==
  /\ \E eh, oh \in {Null, Wild} :
       gp = [srcInfo    |-> << >>,
             destInfo   |-> << >>,
             srcEntry   |-> [src |-> Null, propertyAvailCycle |-> 0,
                             offsetAvailCycle |-> 0,
                             endEvent |-> eh, offsetEndEvent |-> oh],
             destArray  |-> [s \in Slots |-> EmptySlot],
             startIndex |-> 0,
             endIndex   |-> 0]
  /\ resp = 0
  /\ fault = Null

(***************************************************************************)
(* srcAccess: a property access and one offset access, plus a second one  *)
(* when offsetStart and offsetEnd lie on different lines; srcEntry is      *)
(* given new cycles and the descriptor is dequeued; the two event         *)
(* pointers are written only when there is an event recorder.  lat is the  *)
(* sequence of latencies the memory object answers with.                   *)
(***************************************************************************)
\* mutant: the pointer names the event of the previous source.
StoredEvStale(old, d) == IF HasEvRec THEN d.src - 1 ELSE old

\* An event pointer of srcEntry after srcAccess of descriptor d: the event
\* it creates when there is a recorder, the old value otherwise.
StoredEv(old, d) == IF HasEvRec THEN d.src ELSE old

SrcAccess(st, cycle, lat) ==
  LET d == Head(st.srcInfo)
      offsetResp == IF d.split THEN MaxOf(cycle + lat[2], cycle + lat[3])
                               ELSE cycle + lat[2]
  IN [st EXCEPT !.srcEntry = [src |-> d.src,
                              propertyAvailCycle |-> cycle + lat[1],
                              offsetAvailCycle |-> offsetResp,
                              endEvent |-> StoredEv(@.endEvent, d),
                              offsetEndEvent |-> StoredEv(@.offsetEndEvent, d)],
                !.srcInfo = Tail(@)]

\* mutant: the edge request does not wait for the offset range.
DestReqCycleNoWait(st, cycle) == cycle

\* The edge request waits until the source's offset range is available.
DestReqCycle(st, cycle) == MaxOf(cycle, st.srcEntry.offsetAvailCycle)

(***************************************************************************)
(* destAccess: edge at reqCycle, weight one cycle later, the destination  *)
(* property once the edge has answered; the slot at endIndex is filled    *)
(* with all three bits set and endIndex advances.                          *)
(***************************************************************************)
DestAccess(st, cycle, lat) ==
  LET req == DestReqCycle(st, cycle)
      edgeResp == req + lat[1]
  IN [st EXCEPT !.destArray[st.endIndex] =
                  [readyBits |-> GRAPH_DATA_READY, d |-> Head(st.destInfo),
                   ready |-> DEST_NODE :> edgeResp
                             @@ WEIGHT_VALUE :> req + 1 + lat[2]
                             @@ DEST_PROPERTY :> edgeResp + lat[3]],
                !.destInfo = Tail(@),
                !.endIndex = NextSlot(@)]

\* mutant: the loop does not test that the slot at endIndex is free.
CanLaunchNoSlotCheck(st) == st.destInfo /= << >>

\* The condition of store's launch loop.
CanLaunch(st) == st.destInfo /= << >> /\ st.destArray[st.endIndex].readyBits = {}

\* while(!destInfo.empty() && destArray[endIndex].readyBits == 0) destAccess(..)
RECURSIVE FillSlots(_, _, _)
FillSlots(st, cycle, lats) ==
  IF CanLaunch(st) THEN FillSlots(DestAccess(st, cycle, Head(lats)), cycle, Tail(lats))
                   ELSE st

\* mutant: the pointer is not nulled when the handle is given up.
ReleaseOffsetEvKept(st) == st

\* Release srcEntry.offsetEndEvent (setFreeElem or freeEv) and null it.
ReleaseOffsetEv(st) == [st EXCEPT !.srcEntry.offsetEndEvent = Null]

\* mutant: every load moves startIndex past a drained slot.
AdvancesStartAlways(f) == TRUE

\* Only a destination-field load moves startIndex past a drained slot.
AdvancesStart(f) == f \notin {UPDATES_SIZE_INDEX, SRC_PROPERTY_INDEX}

\* mutant: a drained slot is recycled but the next descriptor not launched.
AfterLoadNoRefill(st, f, cycle, lat) ==
  IF st.destArray[st.startIndex].readyBits = {}
  THEN LET st2 == IF AdvancesStart(f)
                  THEN [st EXCEPT !.startIndex = NextSlot(@)] ELSE st
       IN IF st2.srcEntry.offsetEndEvent /= Null /\ st2.destInfo = << >>
          THEN ReleaseOffsetEv(st2) ELSE st2
  ELSE st

(***************************************************************************)
(* The tail of load: when the slot at startIndex is drained, recycle it   *)
(* and launch the next queued descriptor, or, with none queued, release   *)
(* the offset-end event of the source entry.                               *)
(***************************************************************************)
AfterLoad(st, f, cycle, lat) ==
  IF st.destArray[st.startIndex].readyBits = {}
  THEN LET st2 == IF AdvancesStart(f)
                  THEN [st EXCEPT !.startIndex = NextSlot(@)] ELSE st
       IN IF st2.destInfo /= << >> THEN DestAccess(st2, cycle, lat)
                                   ELSE IF st2.srcEntry.offsetEndEvent /= Null
                                        THEN ReleaseOffsetEv(st2) ELSE st2
  ELSE st

\* The outcome of an operation: next object state, returned cycle, fault.
Outcome(st, r, flt) == [st |-> st, resp |-> r, fault |-> flt]

(***************************************************************************)
(* load(offset, cycle).  lat: latencies of the destAccess it may launch.  *)
(***************************************************************************)
LoadOp(st, f, cycle, lat) ==
  LET r0 == cycle + Latency
      s == st.startIndex
  IN CASE f = UPDATES_SIZE_INDEX ->
            Outcome(AfterLoad(st, f, cycle, lat), r0, Null)
       [] f = SRC_PROPERTY_INDEX /\ HasEvRec /\ st.srcEntry.endEvent = Null ->
            Outcome(st, r0, "load: srcEntry.endEvent is null")
       [] f = SRC_PROPERTY_INDEX ->
            Outcome(AfterLoad([st EXCEPT !.srcEntry.endEvent =
                                  IF HasEvRec THEN Null ELSE @], f, cycle, lat),
                    MaxOf(r0, st.srcEntry.propertyAvailCycle), Null)
       [] f \in DOMAIN MaskOf /\ MaskOf[f] \notin st.destArray[s].readyBits ->
            Outcome(st, r0, "load: readiness bit already clear")
       [] f \in DOMAIN MaskOf ->
            Outcome(AfterLoad([st EXCEPT !.destArray[s].readyBits = @ \ {MaskOf[f]}],
                              f, cycle, lat),
                    MaxOf(r0, st.destArray[s].ready[MaskOf[f]]), Null)
       [] OTHER -> Outcome(st, r0, "panic: Invalid load index")

(***************************************************************************)
(* store(offset, cycle): the field stores are latency-only; SRC_NODE runs *)
(* srcAccess and fills every empty slot.  The returned cycle is always     *)
(* cycle + latency.                                                         *)
(***************************************************************************)
StoreOp(st, f, cycle, srcLat, destLats) ==
  LET r0 == cycle + Latency
  IN CASE f \in {OFFSET_INDEX, EDGE_INDEX, WEIGHT_INDEX, PROPERTY_INDEX} ->
            Outcome(st, r0, Null)
       [] f = SRC_NODE_INDEX /\ st.srcInfo = << >> ->
            Outcome(st, r0, "srcAccess: srcInfo is empty")
       [] f = SRC_NODE_INDEX ->
            Outcome(FillSlots(SrcAccess(st, cycle, srcLat), cycle, destLats), r0, Null)
       [] OTHER -> Outcome(st, r0, "panic: invalid store offset")

\* Apply an outcome; a fault stops the simulator with the object untouched.
Apply(o) ==
  /\ fault = Null
  /\ fault' = o.fault
  /\ gp' = IF o.fault = Null THEN o.st ELSE gp
  /\ resp' = o.resp

Triples == MemLatency \X MemLatency \X MemLatency

(***************************************************************************)
(* The operations as actions.                                               *)
(***************************************************************************)
PushSrcInfo(d) ==
  /\ fault = Null
  /\ gp' = [gp EXCEPT !.srcInfo = Append(@, d)]
  /\ UNCHANGED <<resp, fault>>

PushDestInfo(d) ==
  /\ fault = Null
  /\ gp' = [gp EXCEPT !.destInfo = Append(@, d)]
  /\ UNCHANGED <<resp, fault>>

Load(f, cycle) == \E lat \in Triples : Apply(LoadOp(gp, f, cycle, lat))

Store(f, cycle) ==
  \E srcLat \in Triples, destLats \in [1 .. Len(gp.destInfo) -> Triples] :
    Apply(StoreOp(gp, f, cycle, srcLat, destLats))

(***************************************************************************)
(* Derived views used by the properties and the refinement.                *)
(***************************************************************************)
Occupied(s) == gp.destArray[s].readyBits /= {}

\* Number of slots in flight, told apart the way the code does: when the
\* indices meet, the ring is full exactly if the slot at startIndex is busy.
InFlight ==
  IF gp.startIndex = gp.endIndex
  THEN IF Occupied(gp.startIndex) THEN NEntries ELSE 0
  ELSE (gp.endIndex - gp.startIndex + NEntries) % NEntries

\* The k-th slot in flight, k = 1 being the oldest.
SlotAt(k) == gp.destArray[(gp.startIndex + k - 1) % NEntries]

=============================================================================
