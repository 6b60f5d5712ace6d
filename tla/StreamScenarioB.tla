-------------------------- MODULE StreamScenarioB --------------------------
(***************************************************************************)
(* Scenario B of the spec: the stream prefetcher is given accesses at     *)
(* offsets 0, 1, 2, 3 of one region (region 1, so that the first access   *)
(* allocates an entry) and is expected to have prefetched offset 4 by the *)
(* third access.                                                           *)
(***************************************************************************)
EXTENDS StreamPrefetcher

VARIABLE done  \* accesses of the scenario issued so far

ScenarioLen == 4

ScenarioInit == Init /\ done = 0

ScenarioNext ==
  /\ done < ScenarioLen
  /\ Access(Window + done)
  /\ done' = done + 1

ScenarioSpec == ScenarioInit /\ [][ScenarioNext]_<<vars, done>>

\* Spec, Scenario B: by the third access, a prefetch of offset 4 has been
\* issued (access's forward prefetch at position + stride).
PrefetchByThirdAccess == done >= 3 => <<1, 4>> \in issued

=============================================================================
