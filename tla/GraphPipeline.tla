--------------------------- MODULE GraphPipeline ---------------------------
(***************************************************************************)
(* What the graph prefetcher promises its demand stream, with no ring,    *)
(* no indices and no cycles: destination descriptors are queued in        *)
(* order, at most NEntries of them are in flight, they are launched in    *)
(* queue order, and each field of a descriptor in flight is read once,    *)
(* oldest descriptor first; a descriptor leaves once all its fields have  *)
(* been read.  A read may be followed, in the same step, by launches.     *)
(***************************************************************************)
EXTENDS Naturals, Sequences

CONSTANTS
  NEntries,  \* capacity: the most descriptors in flight
  Fields,    \* the fields of a destination descriptor
  Descs      \* the descriptors the front end may queue

VARIABLES
  pending,   \* descriptors queued and not yet launched, oldest first
  inflight   \* launched descriptors with the fields still to be read

pipeVars == <<pending, inflight>>

PipeInit == pending = << >> /\ inflight = << >>

Push(d) ==
  /\ pending' = Append(pending, d)
  /\ UNCHANGED inflight

\* Move the k oldest queued descriptors into flight.
LaunchK(k, inf) ==
  /\ k <= Len(pending)
  /\ Len(inf) + k <= NEntries
  /\ inflight' = inf \o [i \in 1 .. k |-> [d |-> pending[i], left |-> Fields]]
  /\ pending' = SubSeq(pending, k + 1, Len(pending))

Launch == \E k \in 1 .. NEntries : LaunchK(k, inflight)

\* Read field f of the oldest descriptor in flight, retire it when it has
\* no field left, then launch k >= 0 more.
Read ==
  \E f \in Fields, k \in 0 .. NEntries :
    /\ inflight /= << >>
    /\ f \in Head(inflight).left
    /\ LET left == Head(inflight).left \ {f}
           inf == IF left = {} THEN Tail(inflight)
                  ELSE [inflight EXCEPT ![1].left = left]
       IN LaunchK(k, inf)

PipeNext == (\E d \in Descs : Push(d)) \/ Launch \/ Read

PipeSpec == PipeInit /\ [][PipeNext]_pipeVars

=============================================================================
