----------------------------- MODULE TimingCore -----------------------------
(***************************************************************************)
(* The timing core's basic-block accounting and its phase loop, for a set *)
(* of cores that advance in lock-step phases (timing_core.cpp).           *)
(*                                                                         *)
(*  - bblAndRecord: instrs cycles for the block, then one L1i fetch per   *)
(*    iteration of the loop fetchAddr = bblAddr; fetchAddr < endBblAddr;  *)
(*    fetchAddr += 1 << lineBits;                                          *)
(*  - BblAndRecordFunc: after the block, while curCycle > phaseEndCycle,  *)
(*    advance phaseEndCycle by phaseLength and take the barrier; stop     *)
(*    when TakeBarrier moved the thread to another core (context switch); *)
(*  - loadAndRecord / storeAndRecord: curCycle takes the cycle the L1d    *)
(*    (or the prefetcher window, see GraphCore) returns;                  *)
(*  - join: curCycle = cRec.notifyJoin(curCycle), phaseEndCycle =         *)
(*    globPhaseCycles + phaseLength.                                       *)
(*                                                                         *)
(* TakeBarrier, the scheduler and the contention recorder are not in the  *)
(* sources and are modelled from the spec: the barrier releases when     *)
(* every core that runs a thread has reached it, the phase then ends      *)
(* (globPhaseCycles += phaseLength), and each released thread may be      *)
(* context-switched away from its core; a core joined later starts at the *)
(* beginning of the current phase.                                        *)
(*                                                                         *)
(* Cycles are kept relative to zinfo->globPhaseCycles: curCycle[c] = 2    *)
(* means two cycles into the current phase.  The end of a phase subtracts *)
(* PhaseLength from every running core's cycles.  This keeps the state    *)
(* space finite without a bound on simulated time.                        *)
(***************************************************************************)
EXTENDS Naturals, Integers, Sequences, Functions

CONSTANTS
  Cores,        \* the simulated cores
  PhaseLength,  \* zinfo->phaseLength
  LineBits,     \* lineBits of the L1i
  Blocks,       \* basic blocks: [addr, bytes, instrs] (BblInfo, bblAddr)
  ICacheLat,    \* cycles an l1i->load may add (hit, miss)
  DCacheLat,    \* cycles an l1d->load / store may add
  CanSwitch     \* the scheduler may context-switch a thread at a barrier

ASSUME PhaseLength >= 1 /\ CanSwitch \in BOOLEAN

VARIABLES
  curCycle,       \* curCycle[c] - globPhaseCycles
  phaseEndCycle,  \* phaseEndCycle[c] - globPhaseCycles
  pc,             \* "prog": the program runs; "loop": in the phase loop;
                  \* "barrier": waiting in TakeBarrier; "idle": no thread
  unchecked,      \* cycles loads/stores added since the last phase check
  fetched         \* history: lines the last block occupies and lines it fetched

vars == <<curCycle, phaseEndCycle, pc, unchecked, fetched>>

LineSize == 2 ^ LineBits

(***************************************************************************)
(* The fetch loop of bblAndRecord: the addresses handed to l1i->load.    *)
(***************************************************************************)
\* Mutant: the loop also fetches at endBblAddr (<= for <).
RECURSIVE FetchAddrsInclusive(_, _)
FetchAddrsInclusive(fetchAddr, endBblAddr) ==
  IF fetchAddr <= endBblAddr
  THEN <<fetchAddr>> \o FetchAddrsInclusive(fetchAddr + LineSize, endBblAddr)
  ELSE << >>

RECURSIVE FetchAddrs(_, _)
FetchAddrs(fetchAddr, endBblAddr) ==
  IF fetchAddr < endBblAddr
  THEN <<fetchAddr>> \o FetchAddrs(fetchAddr + LineSize, endBblAddr)
  ELSE << >>

\* The cache lines a sequence of fetch addresses touches.
LinesOf(addrs) == {addrs[i] \div LineSize : i \in DOMAIN addrs}

\* The lines a block's bytes occupy (the reference for the fetch loop).
BlockLines(b) == {a \div LineSize : a \in b.addr .. b.addr + b.bytes - 1}

Init ==
  /\ curCycle = [c \in Cores |-> 0]
  /\ phaseEndCycle = [c \in Cores |-> PhaseLength]
  /\ pc = [c \in Cores |-> "prog"]
  /\ unchecked = [c \in Cores |-> 0]
  /\ fetched = [want |-> {}, lines |-> {}]

(***************************************************************************)
(* bblAndRecord: curCycle += instrs, then one l1i->load per fetch address,*)
(* each returning a cycle lat \in ICacheLat later.  BblAndRecordFunc then *)
(* enters its phase loop.                                                  *)
(***************************************************************************)
\* Mutant: the block's instruction count is not added to curCycle.
BblAndRecordNoInstrs(c) ==
  \E b \in Blocks :
    LET fa == FetchAddrs(b.addr, b.addr + b.bytes) IN
    \E lats \in [DOMAIN fa -> ICacheLat] :
      /\ pc[c] = "prog"
      /\ curCycle' = [curCycle EXCEPT ![c] = @ + SumFunction(lats)]
      /\ pc' = [pc EXCEPT ![c] = "loop"]
      /\ unchecked' = [unchecked EXCEPT ![c] = 0]
      /\ fetched' = [want |-> BlockLines(b), lines |-> LinesOf(fa)]
      /\ UNCHANGED phaseEndCycle

BblAndRecord(c) ==
  \E b \in Blocks :
    LET fa == FetchAddrs(b.addr, b.addr + b.bytes) IN
    \E lats \in [DOMAIN fa -> ICacheLat] :
      /\ pc[c] = "prog"
      /\ curCycle' = [curCycle EXCEPT ![c] = @ + b.instrs + SumFunction(lats)]
      /\ pc' = [pc EXCEPT ![c] = "loop"]
      /\ unchecked' = [unchecked EXCEPT ![c] = 0]
      /\ fetched' = [want |-> BlockLines(b), lines |-> LinesOf(fa)]
      /\ UNCHANGED phaseEndCycle

(***************************************************************************)
(* One data access of the program through the L1d: curCycle takes the     *)
(* returned cycle.  At most one per block, so that the cycles not yet     *)
(* checked against the phase end stay bounded.                            *)
(***************************************************************************)
LoadAndRecord(c) ==
  \E lat \in DCacheLat :
    /\ pc[c] = "prog"
    /\ unchecked[c] = 0
    /\ curCycle' = [curCycle EXCEPT ![c] = @ + lat]
    /\ unchecked' = [unchecked EXCEPT ![c] = lat]
    /\ UNCHANGED <<phaseEndCycle, pc, fetched>>

(***************************************************************************)
(* One test of the while loop of BblAndRecordFunc: behind the phase end,  *)
(* advance it and take the barrier; otherwise return to the program.      *)
(***************************************************************************)
\* Mutant: the barrier is taken without advancing phaseEndCycle.
PhaseCheckNoAdvance(c) ==
  /\ pc[c] = "loop"
  /\ IF curCycle[c] > phaseEndCycle[c]
     THEN pc' = [pc EXCEPT ![c] = "barrier"] /\ UNCHANGED phaseEndCycle
     ELSE pc' = [pc EXCEPT ![c] = "prog"] /\ UNCHANGED phaseEndCycle
  /\ UNCHANGED <<curCycle, unchecked, fetched>>

PhaseCheck(c) ==
  /\ pc[c] = "loop"
  /\ IF curCycle[c] > phaseEndCycle[c]
     THEN /\ phaseEndCycle' = [phaseEndCycle EXCEPT ![c] = @ + PhaseLength]
          /\ pc' = [pc EXCEPT ![c] = "barrier"]
     ELSE /\ pc' = [pc EXCEPT ![c] = "prog"]
          /\ UNCHANGED phaseEndCycle
  /\ UNCHANGED <<curCycle, unchecked, fetched>>

(***************************************************************************)
(* TakeBarrier (not in the sources): once every core with a thread waits, *)
(* the phase ends and each waiting thread returns from TakeBarrier, on    *)
(* its own core (newCid = cid: the while loop tests again) or moved away  *)
(* (newCid /= cid: the loop breaks and the core is left without thread).  *)
(***************************************************************************)
Shift(f, running) == [c \in Cores |-> IF c \in running THEN f[c] - PhaseLength ELSE f[c]]

\* Mutant: "if" for "while": a released thread returns to its program
\* without testing the phase end again.
TakeBarrierNoRetest ==
  LET waiting == {c \in Cores : pc[c] = "barrier"} IN
  /\ waiting /= {}
  /\ \A c \in Cores : pc[c] \in {"barrier", "idle"}
  /\ \E switched \in SUBSET waiting :
       /\ CanSwitch \/ switched = {}
       /\ pc' = [c \in Cores |-> IF c \in switched THEN "idle"
                                 ELSE IF c \in waiting THEN "prog" ELSE pc[c]]
       /\ curCycle' = Shift(curCycle, waiting \ switched)
       /\ phaseEndCycle' = Shift(phaseEndCycle, waiting \ switched)
  /\ UNCHANGED <<unchecked, fetched>>

TakeBarrier ==
  LET waiting == {c \in Cores : pc[c] = "barrier"} IN
  /\ waiting /= {}
  /\ \A c \in Cores : pc[c] \in {"barrier", "idle"}
  /\ \E switched \in SUBSET waiting :
       /\ CanSwitch \/ switched = {}
       /\ pc' = [c \in Cores |-> IF c \in switched THEN "idle"
                                 ELSE IF c \in waiting THEN "loop" ELSE pc[c]]
       /\ curCycle' = Shift(curCycle, waiting \ switched)
       /\ phaseEndCycle' = Shift(phaseEndCycle, waiting \ switched)
  /\ UNCHANGED <<unchecked, fetched>>

(***************************************************************************)
(* join: a thread is scheduled on an idle core; notifyJoin starts it at   *)
(* the beginning of the current phase, and phaseEndCycle =                 *)
(* globPhaseCycles + phaseLength.                                          *)
(***************************************************************************)
NotifyJoin(c) == 0

\* Mutant: join does not reset phaseEndCycle.
JoinNoPhaseReset(c) ==
  /\ pc[c] = "idle"
  /\ curCycle' = [curCycle EXCEPT ![c] = NotifyJoin(c)]
  /\ pc' = [pc EXCEPT ![c] = "prog"]
  /\ unchecked' = [unchecked EXCEPT ![c] = 0]
  /\ UNCHANGED <<phaseEndCycle, fetched>>

Join(c) ==
  /\ pc[c] = "idle"
  /\ curCycle' = [curCycle EXCEPT ![c] = NotifyJoin(c)]
  /\ phaseEndCycle' = [phaseEndCycle EXCEPT ![c] = PhaseLength]
  /\ pc' = [pc EXCEPT ![c] = "prog"]
  /\ unchecked' = [unchecked EXCEPT ![c] = 0]
  /\ UNCHANGED fetched

CoreStep(c) == BblAndRecord(c) \/ LoadAndRecord(c) \/ PhaseCheck(c) \/ Join(c)

Next == (\E c \in Cores : CoreStep(c)) \/ TakeBarrier

\* Each simulated thread runs on its own host thread and keeps executing
\* blocks; the barrier releases once everyone has arrived.
Spec == Init /\ [][Next]_vars
             /\ \A c \in Cores : WF_vars(CoreStep(c))
             /\ WF_vars(TakeBarrier)

(***************************************************************************)
(* Properties.                                                              *)
(***************************************************************************)
TypeOK ==
  /\ pc \in [Cores -> {"prog", "loop", "barrier", "idle"}]
  /\ curCycle \in [Cores -> Nat]
  /\ phaseEndCycle \in [Cores -> 1 .. 2 * PhaseLength]
  /\ unchecked \in [Cores -> Nat]
  /\ fetched.want \subseteq Nat /\ fetched.lines \subseteq Nat

\* Lock-step phases (BblAndRecordFunc with join): every core that runs its
\* program is in the current global phase (phaseEndCycle = globPhaseCycles
\* + phaseLength), and a core waiting in TakeBarrier has already advanced
\* its phaseEndCycle to the end of the next one; no core runs a phase
\* ahead of or behind the others.
LockStep ==
  \A c \in Cores :
     /\ pc[c] \in {"prog", "loop"} => phaseEndCycle[c] = PhaseLength
     /\ pc[c] = "barrier" => phaseEndCycle[c] = 2 * PhaseLength

\* The while loop of BblAndRecordFunc catches up: when a core returns to
\* its program, the cycles it has simulated up to its last block lie
\* within the current phase, however many phases that block overran; only
\* the loads and stores issued since then may run past phaseEndCycle.
CaughtUp ==
  \A c \in Cores : pc[c] = "prog" => curCycle[c] - unchecked[c] <= phaseEndCycle[c]

\* The fetch loop of bblAndRecord never fetches a line the block does not
\* occupy (no fetch at or past endBblAddr).
NoFetchPastBlock == fetched.lines \subseteq fetched.want

\* The spec: instruction fetch iterates the block's line-aligned address
\* range through the L1i, so every line the block occupies is fetched.
FetchCoversBlock == fetched.want \subseteq fetched.lines

\* Every core that waits in TakeBarrier eventually leaves it: the other
\* cores' blocks always add cycles, so they reach the phase end too.
BarrierReleases ==
  \A c \in Cores : pc[c] = "barrier" ~> pc[c] \in {"prog", "idle"}

=============================================================================
