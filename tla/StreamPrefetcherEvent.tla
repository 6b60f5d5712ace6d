------------------------ MODULE StreamPrefetcherEvent ------------------------
(***************************************************************************)
(* StreamPrefetcherEvent (prefetcher.h): the timing event the stream       *)
(* prefetcher creates for one access.  It keeps the TimingRecords of the   *)
(* incoming request, the next-line fetch and the stride fetch, becomes a   *)
(* parent of each record's events (coupleEvents), and chains the next-line *)
(* fetch behind the incoming request (chainEvents).                        *)
(*                                                                         *)
(* The caller, StreamPrefetcher::access in prefetcher.cpp, is not in the   *)
(* sources: it is modelled as any order of the three setters, each called  *)
(* at most once with a record the parent returned, then one chainEvents.  *)
(* A record is its request and response cycle and either one event        *)
(* (startEvent == endEvent, done at respCycle) or a start event at         *)
(* reqCycle, a DelayEvent of the latency and an end event at respCycle.    *)
(* The replay is the one of GraphEvents: an event starts at its minimum    *)
(* start cycle or when its last parent is done, and the weave counts a     *)
(* child's parents by its addChild calls.                                  *)
(***************************************************************************)
EXTENDS Naturals, FiniteSets, FiniteSetsExt, Bags, BagsExt, TLC

CONSTANTS
  Cycles,  \* cycles the event is created at and the parent's requests start at
  Lats,    \* latencies of the parent's answers
  Null     \* model value: nullptr

PF_INCOMING_REQ == "PF_INCOMING_REQ"
PF_NEXT_REQ == "PF_NEXT_REQ"
PF_STRIDE_REQ == "PF_STRIDE_REQ"
Slots == {PF_INCOMING_REQ, PF_NEXT_REQ, PF_STRIDE_REQ}

\* The prefetcher event itself.
PFE == <<"pfe", "event">>

VARIABLES
  ev,            \* event -> [delay, minStart]
  children,      \* bag of <<parent, child>>: one copy per addChild call
  theRecords,    \* theRecords[slot]: the TimingRecord stored there
  onGoingCycle,  \* StreamPrefetcherEvent::onGoingCycle
  toplevel,      \* the caller's TimingRecord that chainEvents fills
  chained        \* chainEvents has been called

vars == <<ev, children, theRecords, onGoingCycle, toplevel, chained>>

Node(d, m) == [delay |-> d, minStart |-> m]

\* TimingRecord::clear()
Cleared == [reqCycle |-> 0, respCycle |-> 0, startEvent |-> Null, endEvent |-> Null]

\* The records the parent may return for a fetch stored in slot s: the
\* fetch is issued no earlier than the access the event was created for.
Records(s) ==
  {[reqCycle |-> c, respCycle |-> c + l,
    startEvent |-> <<s, "start">>, endEvent |-> IF one THEN <<s, "start">> ELSE <<s, "end">>] :
     c \in {x \in Cycles : x >= onGoingCycle}, l \in Lats, one \in BOOLEAN}

\* The parent's events of record r.
RecordEvents(r) ==
  IF r.startEvent = r.endEvent
  THEN r.startEvent :> Node(r.respCycle - r.reqCycle, r.reqCycle)
  ELSE (r.startEvent :> Node(0, r.reqCycle)) @@
       (<<r.startEvent[1], "d">> :> Node(r.respCycle - r.reqCycle, r.reqCycle)) @@
       (r.endEvent :> Node(0, r.respCycle))

RecordEdges(r) ==
  IF r.startEvent = r.endEvent THEN {}
  ELSE {<<r.startEvent, <<r.startEvent[1], "d">>>>, <<<<r.startEvent[1], "d">>, r.endEvent>>}

\* Add one copy of each pair in es.
AddChildren(B, es) == B (+) SetToBag(es)

\* StreamPrefetcherEvent(domain, startMinCycle, evRec): TimingEvent(0, 0,
\* domain), minimum start startMinCycle, records cleared.
Init ==
  \E c \in Cycles :
    /\ onGoingCycle = c
    /\ ev = PFE :> Node(0, c)
    /\ children = EmptyBag
    /\ theRecords = [s \in Slots |-> Cleared]
    /\ toplevel = Cleared
    /\ chained = FALSE

\* p->addChild(c): one more copy of the edge, one per call.
AddChild(B, p, c) == B (+) SetToBag({<<p, c>>})

\* Mutant: coupleEvents adds the end event without testing start == end.
CoupleEventsTwice(r) ==
  /\ ev' = [ev EXCEPT ![PFE].minStart =
              IF onGoingCycle < r.reqCycle THEN r.reqCycle ELSE @] @@ RecordEvents(r)
  /\ children' = AddChild(AddChild(AddChildren(children, RecordEdges(r)),
                                   PFE, r.startEvent), PFE, r.endEvent)

\* coupleEvents(record): raise the minimum start cycle to the record's
\* request when that lies after onGoingCycle, and become a parent of the
\* record's start event and, when it is a different event, its end event.
CoupleEvents(r) ==
  /\ ev' = [ev EXCEPT ![PFE].minStart =
              IF onGoingCycle < r.reqCycle THEN r.reqCycle ELSE @] @@ RecordEvents(r)
  /\ children' =
       LET B == AddChild(AddChildren(children, RecordEdges(r)), PFE, r.startEvent)
       IN IF r.startEvent = r.endEvent THEN B ELSE AddChild(B, PFE, r.endEvent)

\* setAccessRecord / setNextFetchRecord / setStrideFetchRecord: store the
\* record in its slot and couple its events.  The caller sets each record
\* once, before it chains the events.
SetRecord(s) ==
  \E r \in Records(s) :
    /\ ~chained
    /\ theRecords[s] = Cleared
    /\ theRecords' = [theRecords EXCEPT ![s] = r]
    /\ CoupleEvents(r)
    /\ UNCHANGED <<onGoingCycle, toplevel, chained>>

\* The edges chainEvents adds (mutant: without the test of
\* theRecords[PF_NEXT_REQ].startEvent against null).
ChainEventsNoNullCheck ==
  LET inc == theRecords[PF_INCOMING_REQ]
      nxt == theRecords[PF_NEXT_REQ]
  IN /\ ~chained
     /\ IF inc.startEvent /= Null /\ inc.endEvent /= Null
        THEN /\ children' =
                  IF nxt.startEvent = nxt.endEvent
                  THEN AddChild(children, inc.startEvent, nxt.startEvent)
                  ELSE LET B == AddChild(children, inc.startEvent, nxt.startEvent)
                       IN IF nxt.endEvent /= Null
                          THEN AddChild(B, inc.endEvent, nxt.endEvent) ELSE B
             /\ toplevel' = [toplevel EXCEPT !.startEvent = inc.startEvent,
                                             !.endEvent = inc.endEvent]
        ELSE UNCHANGED <<children, toplevel>>
     /\ chained' = TRUE
     /\ UNCHANGED <<ev, theRecords, onGoingCycle>>

\* chainEvents(toplevel): with a complete incoming record, the next fetch
\* starts behind the incoming request's start (one edge when the fetch is
\* one event) and, when it has an end event of its own, ends behind the
\* incoming request's end; toplevel takes the incoming request's events.
\* Otherwise nothing changes.
ChainEvents ==
  LET inc == theRecords[PF_INCOMING_REQ]
      nxt == theRecords[PF_NEXT_REQ]
  IN /\ ~chained
     /\ IF inc.startEvent /= Null /\ inc.endEvent /= Null
        THEN /\ children' =
                  CASE nxt.startEvent = Null -> children
                    [] nxt.startEvent = nxt.endEvent ->
                         AddChild(children, inc.startEvent, nxt.startEvent)
                    [] OTHER ->
                         LET B == AddChild(children, inc.startEvent, nxt.startEvent)
                         IN IF nxt.endEvent /= Null
                            THEN AddChild(B, inc.endEvent, nxt.endEvent) ELSE B
             /\ toplevel' = [toplevel EXCEPT !.startEvent = inc.startEvent,
                                             !.endEvent = inc.endEvent]
        ELSE UNCHANGED <<children, toplevel>>
     /\ chained' = TRUE
     /\ UNCHANGED <<ev, theRecords, onGoingCycle>>

\* The access is over: every record set and the events chained.
Finished ==
  /\ chained
  /\ UNCHANGED vars

Next ==
  \/ \E s \in Slots : SetRecord(s)
  \/ ChainEvents
  \/ Finished

Spec == Init /\ [][Next]_vars

(***************************************************************************)
(* Replay (weave): simulate(startCycle) is done(startCycle), so the event  *)
(* is done when it starts; a start is the minimum start cycle or the last  *)
(* parent's done cycle, whichever is later.                                *)
(***************************************************************************)
RECURSIVE Done(_)
Done(n) ==
  Max({ev[n].minStart} \cup {Done(e[1]) : e \in {f \in BagToSet(children) : f[2] = n}})
  + ev[n].delay

(***************************************************************************)
(* Properties.                                                              *)
(***************************************************************************)
TypeOK ==
  /\ \A n \in DOMAIN ev : ev[n].delay \in Nat /\ ev[n].minStart \in Nat
  /\ IsABag(children) /\ \A e \in BagToSet(children) : {e[1], e[2]} \subseteq DOMAIN ev
  /\ {toplevel.startEvent, toplevel.endEvent} \subseteq DOMAIN ev \cup {Null}

\* The weave releases a child when as many parents are done as addChild
\* calls named it: no parent is ever added twice to the same child, or the
\* child would wait forever for a second done().  coupleEvents tests
\* record.startEvent == record.endEvent, and chainEvents tests it for the
\* next fetch, where a one-event incoming request would otherwise get the
\* same child twice.
NoDuplicateChild ==
  \A e \in BagToSet(children) : CopiesIn(e, children) = 1

\* Without contention the replay ends every coupled record at the cycle
\* the parent returned for it: being a child of the prefetcher event does
\* not delay the access (coupleEvents sets the event's minimum start to
\* the request cycle of the last record that starts after onGoingCycle).
CoupledRecordsOnTime ==
  \A s \in Slots :
    theRecords[s] /= Cleared => Done(theRecords[s].endEvent) = theRecords[s].respCycle

=============================================================================
