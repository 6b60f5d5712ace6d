-------------------------- MODULE StreamPrefetcher --------------------------
(***************************************************************************)
(* The stream prefetcher (prefetcher.h): a table of pfEntries entries,    *)
(* one per tracked region of Window lines, each with a stride, a          *)
(* SatCounter<3, 2, 1> confidence, a valid bit per line of the region and *)
(* the last position accessed; LRU replacement.                           *)
(*                                                                         *)
(* SatCounter, Entry::alloc and the table created by createArray are      *)
(* translated from prefetcher.h.  createArray allocates tag and array     *)
(* with gm_calloc, so no constructor runs: every entry starts all-zero    *)
(* (tag 0, stride 0, count 0), not as SatCounter() or alloc would leave   *)
(* it.  The body of access and invalidate (prefetcher.cpp) is not in the  *)
(* sources; it is modelled from the spec's description of access:         *)
(*   - tag miss: allocate the LRU entry (alloc);                          *)
(*   - regardless of hit or miss, delta = pos - lastPos; equal to the     *)
(*     stride: inc; otherwise dec, and when the count bottoms out the     *)
(*     stride becomes delta;                                              *)
(*   - when pred(), prefetch pos + stride if it lies in the region; a    *)
(*     line already valid is not prefetched again;                       *)
(*   - invalidate clears the line's valid bit.                             *)
(* Cycles (AccessTimes, lastCycle, the parent access) and the counters    *)
(* are left out: no property is about them.  lastLastPos and               *)
(* lastPrefetchPos are written by alloc but read by nothing the spec      *)
(* describes, so they are left out too.                                   *)
(***************************************************************************)
EXTENDS Naturals, Integers, Sequences, SequencesExt

CONSTANTS
  NEntries,  \* pfEntries
  Window,    \* lines per region (64 in the code)
  Lines      \* the line addresses the requests use

Entries == 1 .. NEntries
Regions == {a \div Window : a \in Lines}
Positions == 0 .. Window - 1

VARIABLES
  tag,      \* tag[e]: region tracked by entry e
  array,    \* array[e]: [stride, conf, valid, lastPos]
  lru,      \* the entries, least recently used first (Entry::ts, timestamp)
  issued,   \* history: <<region, pos>> prefetched and not invalidated since
  streak    \* history: streak[r]: last position accessed in r, and how many
            \* consecutive deltas (at most WarmUp) since its allocation were delta

pfVars == <<tag, array, lru>>
vars == <<pfVars, issued, streak>>

(***************************************************************************)
(* SatCounter<M, T, I> with M = 3, T = 2, I = 1 (Entry::conf).            *)
(***************************************************************************)
CONF_MAX == 3
CONF_THRESHOLD == 2
CONF_INIT == 1

SatReset == CONF_INIT
\* Mutants: dec and inc without the clamp.
SatDecNoClamp(c) == c - 1
SatIncNoClamp(c) == c + 1

SatDec(c) == IF c - 1 > 0 THEN c - 1 ELSE 0
SatInc(c) == IF c + 1 < CONF_MAX THEN c + 1 ELSE CONF_MAX
Pred(c) == c >= CONF_THRESHOLD

\* Mutant: alloc forgets valid.reset().
AllocNoValidReset(en) == [en EXCEPT !.stride = 1, !.conf = SatReset, !.lastPos = 0]

\* Entry::alloc, in place: stride 1, positions 0, conf.reset(), valid.reset().
Alloc(en) == [en EXCEPT !.stride = 1, !.conf = SatReset, !.valid = {}, !.lastPos = 0]

\* An entry as gm_calloc leaves it.
ZeroEntry == [stride |-> 0, conf |-> 0, valid |-> {}, lastPos |-> 0]

\* The number of equal deltas after which StrideDetected expects a
\* prediction.
WarmUp == 5

\* The streak of a region with no access since its allocation.
NoStreak == [pos |-> 0, delta |-> 0, n |-> 0]

\* The streak after an access at pos.
Extend(sk, pos) ==
  LET d == pos - sk.pos IN
  [pos |-> pos, delta |-> d,
   n |-> IF sk.n > 0 /\ d = sk.delta THEN IF sk.n < WarmUp THEN sk.n + 1 ELSE WarmUp
         ELSE 1]

Init ==
  /\ tag = [e \in Entries |-> 0]
  /\ array = [e \in Entries |-> ZeroEntry]
  /\ lru = [i \in 1 .. NEntries |-> i]  \* all ts are 0: ties go by index
  /\ issued = {}
  /\ streak = [r \in Regions |-> NoStreak]

\* Make e the most recently used entry.
Touch(e) == SelectSeq(lru, LAMBDA x : x /= e) \o <<e>>

\* The predictor update and prefetch of one access at position pos.
Train(en, pos) ==
  LET delta == pos - en.lastPos
      match == delta = en.stride
      conf == IF match THEN SatInc(en.conf) ELSE SatDec(en.conf)
      stride == IF ~match /\ conf = 0 THEN delta ELSE en.stride
      pf == pos + stride
      doPf == Pred(conf) /\ pf \in Positions
  IN [stride |-> stride, conf |-> conf, lastPos |-> pos,
      valid |-> IF doPf THEN en.valid \cup {pf} ELSE en.valid]

\* The line Train prefetches, as a set (empty when none).
Prefetched(en, pos) == Train(en, pos).valid \ en.valid

(***************************************************************************)
(* access(req) for line a: region a \div Window, position a % Window.     *)
(***************************************************************************)
Access(a) ==
  LET r == a \div Window
      pos == a % Window
      hits == {e \in Entries : tag[e] = r}
      miss == hits = {}
  IN \E e \in IF miss THEN {Head(lru)} ELSE hits :
       LET en == IF miss THEN Alloc(array[e]) ELSE array[e]
           evicted == IF miss THEN {tag[e]} \cap Regions ELSE {}
       IN /\ tag' = [tag EXCEPT ![e] = r]
          /\ array' = [array EXCEPT ![e] = Train(en, pos)]
          /\ lru' = Touch(e)
          /\ issued' = issued \cup {<<r, p>> : p \in Prefetched(en, pos)}
          /\ streak' = [x \in Regions |->
                          IF x = r THEN (IF miss THEN [NoStreak EXCEPT !.pos = pos]
                                         ELSE Extend(streak[r], pos))
                          ELSE IF x \in evicted THEN NoStreak ELSE streak[x]]

\* invalidate(req) for line a: clear the line's valid bit.
Invalidate(a) ==
  LET r == a \div Window
      pos == a % Window
  IN /\ array' = [e \in Entries |->
                    IF tag[e] = r THEN [array[e] EXCEPT !.valid = @ \ {pos}]
                    ELSE array[e]]
     /\ issued' = issued \ {<<r, pos>>}
     /\ UNCHANGED <<tag, lru, streak>>

Next == \E a \in Lines : Access(a) \/ Invalidate(a)

Spec == Init /\ [][Next]_vars

(***************************************************************************)
(* Properties.                                                              *)
(***************************************************************************)
TypeOK ==
  /\ tag \in [Entries -> Nat]
  /\ \A e \in Entries :
       /\ array[e].conf \in 0 .. CONF_MAX
       /\ array[e].valid \subseteq Positions
       /\ array[e].lastPos \in Positions
  /\ lru \in [1 .. NEntries -> Entries] /\ Len(lru) = NEntries

\* A line is valid in an entry (a later access of it is a prefetch hit)
\* only if it was prefetched for the region the entry tracks now and not
\* invalidated since: alloc's valid.reset() keeps an evicted region's
\* prefetches from being taken as hits of the region that replaces it.
HitOnlyOnPrefetched ==
  \A e \in Entries : \A p \in array[e].valid : <<tag[e], p>> \in issued

\* Dominant-stride detection (SatCounter<3,2,1> with the stride switch):
\* after WarmUp consecutive accesses to a tracked region with the same
\* delta K, whatever the entry's state before them, the entry predicts
\* with stride K.
StrideDetected ==
  \A r \in Regions :
    streak[r].n = WarmUp =>
      \E e \in Entries : /\ tag[e] = r
                         /\ array[e].stride = streak[r].delta
                         /\ Pred(array[e].conf)

=============================================================================
