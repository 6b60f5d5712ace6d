----------------------------- MODULE GraphEvents -----------------------------
(***************************************************************************)
(* The event subgraph the graph prefetcher builds beside its cycle         *)
(* arithmetic (graph_prefetcher.cpp, with an event recorder present).      *)
(*                                                                         *)
(* Every prefetch of srcAccess / destAccess and every demand load computes *)
(* a scalar cycle (propertyAvailCycle, offsetAvailCycle, the slot's ready  *)
(* cycles, the cycle load returns) and mirrors it by timing events: a      *)
(* DelayEvent(resp - req) from the request's event to a DummyEvent whose   *)
(* minimum start cycle is resp, and, when the parent cache pushed a        *)
(* TimingRecord for the access, a DelayEvent(rec.reqCycle - req) from the  *)
(* request's event to rec.startEvent and an edge from rec.endEvent to the  *)
(* same DummyEvent.  The contention simulator replays the graph later.     *)
(*                                                                         *)
(* A node is [delay, minStart]; an edge <<p, c>> is p->addChild(c).  The   *)
(* TimingEvent classes and the weave replay are not in the sources; the    *)
(* replay is modelled from the spec: a node starts at its minimum start    *)
(* cycle or when the last of its parents is done, whichever is later, and  *)
(* is done delay cycles after it starts (a DummyEvent has delay 0).  A     *)
(* record pushed by the parent cache is its start event, a DelayEvent of   *)
(* the cache's latency, and its end event.                                 *)
(*                                                                         *)
(* Node ids are tuples headed by the number of the call (store or load)    *)
(* that created them.                                                      *)
(***************************************************************************)
EXTENDS Naturals, Sequences, FiniteSets, FiniteSetsExt, TLC

CONSTANTS
  Degree,     \* destination descriptors of the one source, queued before its store
  latency,    \* GraphPrefetcher::latency
  ParentLat,  \* latencies the parent cache may answer with
  RecOffsets, \* how much later than the request a pushed record may start
  Gaps,       \* cycles the program may spend between two accesses
  Contention, \* the delay the replay may add to a call's start event
  Null,       \* model value: nullptr
  NoRec       \* model value: the parent pushed no record

\* How the parent cache answers the accesses of one call: its latency,
\* and the offset of the record it pushes for each (NoRec: none).
Inputs == [lat : ParentLat, rec : {NoRec} \cup RecOffsets]

VARIABLES
  g,         \* the event graph: [ev : id -> [delay, minStart], edges]
  srcEntry,  \* GraphPrefetcher::srcEntry
  slot,      \* destArray[0] (a ring of one entry: nEntries = 1)
  destLeft,  \* destination descriptors still queued in destInfo
  stored,    \* the SRC_NODE store has been issued
  propRead,  \* the SRC_PROPERTY load has been issued
  curCycle,  \* the program's current cycle (TimingCore::curCycle)
  calls,     \* number of store / load calls so far
  weaved,    \* the weave phases so far have simulated every event done by this cycle
  claims     \* history: <<event, cycle>> pairs the scalars say the event is done at

vars == <<g, srcEntry, slot, destLeft, stored, propRead, curCycle, calls, weaved, claims>>

GRAPH_DATA_READY == {"DEST_NODE", "WEIGHT_VALUE", "DEST_PROPERTY"}

(***************************************************************************)
(* Graph construction.                                                     *)
(***************************************************************************)
Node(d, m) == [delay |-> d, minStart |-> m]

AddNodes(G, f) == [G EXCEPT !.ev = @ @@ f]
AddEdges(G, es) == [G EXCEPT !.edges = @ \cup es]

\* a->addChild(b)->addChild(c)
Chain(a, b, c) == {<<a, b>>, <<b, c>>}

RecReq(req, x) == req + x.rec
Resp(req, x) == req + x.lat

\* if (evRec->hasRecord()): pop the record of the access, hang its start
\* event behind from by a DelayEvent(dly) and its end event before to.
PopRecord(G, id, from, req, dly, x, to) ==
  IF x.rec = NoRec THEN G
  ELSE LET d == Append(id, "dAcc")  s == Append(id, "S")  e == Append(id, "E")
       IN AddEdges(AddNodes(G, (d :> Node(dly, req)) @@
                               (s :> Node(Resp(req, x) - RecReq(req, x), RecReq(req, x))) @@
                               (e :> Node(0, Resp(req, x)))),
                   Chain(from, d, s) \cup {<<s, e>>, <<e, to>>})

\* Mutant: the delay subtracted the wrong way round.
FetchSwapped(G, id, from, req, resp) ==
  AddEdges(AddNodes(G, (Append(id, "d") :> Node(req - resp, req)) @@
                       (Append(id, "end") :> Node(0, resp))),
           Chain(from, Append(id, "d"), Append(id, "end")))

\* The end event of an access: DummyEvent with minimum start resp, reached
\* from `from` by a DelayEvent(resp - req).
Fetch(G, id, from, req, resp) ==
  AddEdges(AddNodes(G, (Append(id, "d") :> Node(resp - req, req)) @@
                       (Append(id, "end") :> Node(0, resp))),
           Chain(from, Append(id, "d"), Append(id, "end")))

EndOf(id) == Append(id, "end")

(***************************************************************************)
(* Replay (weave phase): the cycle node n is done at, when the contention  *)
(* simulator delays the start of event r by dl cycles.                     *)
(***************************************************************************)
RECURSIVE DoneIn(_, _, _, _)
DoneIn(G, n, r, dl) ==
  LET start == Max({G.ev[n].minStart + (IF n = r THEN dl ELSE 0)} \cup
                   {DoneIn(G, p, r, dl) : p \in {q \in DOMAIN G.ev : <<q, n>> \in G.edges}})
  IN start + G.ev[n].delay

Done(G, n) == DoneIn(G, n, n, 0)

\* h && h->canAddChild(): an event stops taking children once a weave
\* phase has simulated it.
CanAddChild(G, h) == h /= Null /\ Done(G, h) > weaved

(***************************************************************************)
(* srcAccess(cycle, offset, acc): the property of the source and its       *)
(* offset range, one or two lines (split: offsetStart and offsetEnd lie in *)
(* different lines).  Returns the graph, srcEntry and the scalars claimed. *)
(***************************************************************************)
SrcAccess(G, k, req, split, x) ==
  LET start == <<k, "start">>
      propResp == Resp(req, x["prop"])
      offResp == IF split THEN Max({Resp(req, x["off0"]), Resp(req, x["off1"])})
                 ELSE Resp(req, x["off0"])
      G1 == AddNodes(G, start :> Node(0, req))
      \* srcAcc: DelayEvent(srcAcc.reqCycle - srcAcc.reqCycle)
      G2 == PopRecord(G1, <<k, "prop">>, start, req,
                      RecReq(req, x["prop"]) - RecReq(req, x["prop"]),
                      x["prop"], EndOf(<<k, "prop">>))
      G3 == Fetch(G2, <<k, "prop">>, start, req, propResp)
      G4 == PopRecord(G3, <<k, "off0">>, start, req, RecReq(req, x["off0"]) - req,
                      x["off0"], EndOf(<<k, "off">>))
      G5 == IF split
            THEN PopRecord(G4, <<k, "off1">>, start, req, RecReq(req, x["off1"]) - req,
                           x["off1"], EndOf(<<k, "off">>))
            ELSE G4
      G6 == Fetch(G5, <<k, "off">>, start, req, offResp)
  IN [g |-> G6,
      entry |-> [propertyAvailCycle |-> propResp, offsetAvailCycle |-> offResp,
                 endEvent |-> EndOf(<<k, "prop">>), offsetEndEvent |-> EndOf(<<k, "off">>)],
      claims |-> {<<EndOf(<<k, "prop">>), propResp>>, <<EndOf(<<k, "off">>), offResp>>}]

\* One request event of destAccess: reqEv (minimum start at) behind the
\* call's start event by a DelayEvent(at - cycle), and behind the source's
\* offset end event when that can still take a child.
Request(G, id, startEv, cycle, at, offEv, link) ==
  AddEdges(AddNodes(G, (Append(id, "dReq") :> Node(at - cycle, cycle)) @@
                       (Append(id, "req") :> Node(0, at))),
           Chain(startEv, Append(id, "dReq"), Append(id, "req")) \cup
           (IF offEv /= Null /\ link THEN {<<offEv, Append(id, "req")>>} ELSE {}))

(***************************************************************************)
(* destAccess(cycle, startEv): edge, then weight one cycle later, then the *)
(* neighbour's property once the edge is there.  link: the source's offset *)
(* end event can still take a child.                                       *)
(***************************************************************************)
DestAccess(G, k, se, cycle, startEv, x, link) ==
  LET r0 == Max({cycle, se.offsetAvailCycle})
      r1 == r0 + 1
      eReq == <<k, "edge", "req">>
      wReq == <<k, "weight", "req">>
      edgeResp == Resp(r0, x["edge"])
      weightResp == Resp(r1, x["weight"])
      propResp == Resp(edgeResp, x["dprop"])
      edgeEnd == EndOf(<<k, "edge">>)
      G1 == Request(G, <<k, "edge">>, startEv, cycle, r0, se.offsetEndEvent, link)
      G2 == PopRecord(G1, <<k, "edge">>, eReq, r0, RecReq(r0, x["edge"]) - r0,
                      x["edge"], edgeEnd)
      G3 == Fetch(G2, <<k, "edge">>, eReq, r0, edgeResp)
      G4 == Request(G3, <<k, "weight">>, startEv, cycle, r1, se.offsetEndEvent, link)
      G5 == PopRecord(G4, <<k, "weight">>, wReq, r1, RecReq(r1, x["weight"]) - r1,
                      x["weight"], EndOf(<<k, "weight">>))
      G6 == Fetch(G5, <<k, "weight">>, wReq, r1, weightResp)
      G7 == Fetch(G6, <<k, "dprop">>, edgeEnd, edgeResp, propResp)
      G8 == PopRecord(G7, <<k, "dprop">>, edgeEnd, edgeResp,
                      RecReq(edgeResp, x["dprop"]) - edgeResp,
                      x["dprop"], EndOf(<<k, "dprop">>))
  IN [g |-> G8,
      slot |-> [readyBits |-> GRAPH_DATA_READY,
                ready |-> [DEST_NODE |-> edgeResp, WEIGHT_VALUE |-> weightResp,
                           DEST_PROPERTY |-> propResp],
                ev |-> [DEST_NODE |-> edgeEnd, WEIGHT_VALUE |-> EndOf(<<k, "weight">>),
                        DEST_PROPERTY |-> EndOf(<<k, "dprop">>)]],
      claims |-> {<<edgeEnd, edgeResp>>, <<EndOf(<<k, "weight">>), weightResp>>,
                  <<EndOf(<<k, "dprop">>), propResp>>}]

(***************************************************************************)
(* The program: one SRC_NODE store, then the SRC_PROPERTY load and the     *)
(* three field loads of each neighbour, as the ring hands them over.       *)
(***************************************************************************)
\* srcEntry is left uninitialised by the constructor; the store writes it
\* before any load here reads it, so its initial value is immaterial.
\* destArray.resize value-initialises the slot.
Init ==
  /\ g = [ev |-> << >>, edges |-> {}]
  /\ srcEntry = [propertyAvailCycle |-> 0, offsetAvailCycle |-> 0,
                 endEvent |-> Null, offsetEndEvent |-> Null]
  /\ slot = [readyBits |-> {},
             ready |-> [f \in GRAPH_DATA_READY |-> 0],
             ev |-> [f \in GRAPH_DATA_READY |-> Null]]
  /\ destLeft = Degree
  /\ stored = FALSE
  /\ propRead = FALSE
  /\ curCycle = 0
  /\ calls = 0
  /\ weaved = 0
  /\ claims = {}

DestAccesses == {"edge", "weight", "dprop"}
Accesses == {"prop", "off0", "off1"} \cup DestAccesses

\* store(SRC_NODE_INDEX, cycle): srcAccess, then destAccess while a
\* descriptor is queued and the slot is free; the store returns after
\* latency cycles.
Store ==
  \E gap \in Gaps, split \in BOOLEAN, y \in Inputs :
    LET k == calls + 1
        x == [a \in Accesses |-> y]
        req == curCycle + gap
        s == SrcAccess(g, k, req, split, x)
        fill == destLeft > 0
        d == DestAccess(s.g, k, s.entry, req, <<k, "start">>, x, TRUE)
    IN /\ ~stored
       /\ g' = IF fill THEN d.g ELSE s.g
       /\ srcEntry' = s.entry
       /\ slot' = IF fill THEN d.slot ELSE slot
       /\ destLeft' = IF fill THEN destLeft - 1 ELSE destLeft
       /\ claims' = claims \cup s.claims \cup (IF fill THEN d.claims ELSE {})
       /\ stored' = TRUE
       /\ curCycle' = req + latency
       /\ calls' = k
       /\ UNCHANGED <<propRead, weaved>>

\* The event and ready cycle load(f) waits for.
Held(f) == IF f = "SRC_PROPERTY" THEN srcEntry.endEvent ELSE slot.ev[f]
ReadyCycle(f) == IF f = "SRC_PROPERTY" THEN srcEntry.propertyAvailCycle ELSE slot.ready[f]

\* Mutant: the held end event never takes the load's end event as a child.
LinkHeldNever(G, h, endEv, can) == G

\* if (canAddChild()) h->addChild(endEv), else h is done and freed.
LinkHeld(G, h, endEv, can) == IF can THEN AddEdges(G, {<<h, endEv>>}) ELSE G

\* load(f, cycle) of SRC_PROPERTY or a field of the head slot.
Load(f) ==
  \E gap \in Gaps, y \in Inputs :
    LET k == calls + 1
        x == [a \in DestAccesses |-> y]
        req == curCycle + gap
        start == <<k, "start">>
        endEv == <<k, "end">>
        respCycle == Max({req + latency, ReadyCycle(f)})
        G1 == AddEdges(AddNodes(g, (start :> Node(0, req)) @@
                                   (<<k, "delay">> :> Node(latency, req)) @@
                                   (endEv :> Node(0, req + latency))),
                       Chain(start, <<k, "delay">>, endEv))
        bits == IF f = "SRC_PROPERTY" THEN slot.readyBits ELSE slot.readyBits \ {f}
        drained == bits = {}
        refill == drained /\ destLeft > 0
    IN /\ IF f = "SRC_PROPERTY" THEN stored /\ ~propRead ELSE f \in slot.readyBits
       /\ LET G2 == LinkHeld(G1, Held(f), endEv, CanAddChild(g, Held(f)))
              d == DestAccess(G2, k, srcEntry, req, start, x,
                              CanAddChild(g, srcEntry.offsetEndEvent))
          IN /\ g' = IF refill THEN d.g ELSE G2
             /\ slot' = IF refill THEN d.slot
                        ELSE [slot EXCEPT !.readyBits = bits,
                                          !.ev = IF f = "SRC_PROPERTY" THEN @ ELSE [@ EXCEPT ![f] = Null]]
             /\ claims' = claims \cup {<<endEv, respCycle>>} \cup (IF refill THEN d.claims ELSE {})
       /\ srcEntry' = [srcEntry EXCEPT
                         !.endEvent = IF f = "SRC_PROPERTY" THEN Null ELSE @,
                         !.offsetEndEvent = IF drained /\ destLeft = 0 THEN Null ELSE @]
       /\ destLeft' = IF refill THEN destLeft - 1 ELSE destLeft
       /\ propRead' = (propRead \/ f = "SRC_PROPERTY")
       /\ curCycle' = respCycle
       /\ calls' = k
       /\ UNCHANGED <<stored, weaved>>

\* A phase boundary: the weave phase simulates the events done by now.
\* (The store's own events lie after its request cycle, so it always
\* links to the offset end event it has just created.)
PhaseEnd ==
  /\ weaved < curCycle
  /\ weaved' = curCycle
  /\ UNCHANGED <<g, srcEntry, slot, destLeft, stored, propRead, curCycle, calls, claims>>

\* The program has read everything.
Finished ==
  /\ stored /\ propRead /\ slot.readyBits = {} /\ destLeft = 0
  /\ UNCHANGED vars

Next ==
  \/ Store
  \/ \E f \in {"SRC_PROPERTY"} \cup GRAPH_DATA_READY : Load(f)
  \/ PhaseEnd
  \/ Finished

Spec == Init /\ [][Next]_vars

(***************************************************************************)
(* Properties.                                                              *)
(***************************************************************************)
TypeOK ==
  /\ \A n \in DOMAIN g.ev : g.ev[n].delay \in Nat /\ g.ev[n].minStart \in Nat
  /\ g.edges \subseteq (DOMAIN g.ev) \X (DOMAIN g.ev)
  /\ slot.readyBits \subseteq GRAPH_DATA_READY
  /\ destLeft \in 0 .. Degree

\* Dual bookkeeping: every cycle a store or load computes for an access
\* and keeps as a scalar (srcEntry's avail cycles, the slot's ready cycles,
\* the cycle load returns) is the cycle at which the replay, with nothing
\* delayed by contention, finishes the event that mirrors it.  (A step
\* adds edges only into the events it creates, so the replay of earlier
\* events never changes: checking each step's new scalars checks them all.)
ReplayMatchesScalars ==
  [][\A c \in claims' \ claims : Done(g', c[1]) = c[2]]_vars

\* A contention delay of a call's start event reaches every event the call
\* builds behind it: in the replay each is done exactly Contention cycles
\* later (the load's own end event, which also waits for the prefetched
\* data, aside).  Checked for the events each step creates.
ContentionPropagates ==
  [][\A n \in DOMAIN g'.ev \ DOMAIN g.ev :
       n /= <<n[1], "end">> =>
         DoneIn(g', n, <<n[1], "start">>, Contention) = Done(g', n) + Contention]_vars

=============================================================================
