---------------------------- MODULE MCGraphCore ----------------------------
(***************************************************************************)
(* Model-checking instance of GraphCore.                                    *)
(***************************************************************************)
EXTENDS GraphCore

\* Three sources: one with more neighbours than the ring has slots (the
\* ring fills, wraps and refills on drain), one with none (SRC_PROPERTY
\* finds the ring empty), one with a single neighbour.
MCDegree == <<3, 0, 1>>

=============================================================================
