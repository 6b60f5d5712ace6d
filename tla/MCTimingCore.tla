---------------------------- MODULE MCTimingCore ----------------------------
EXTENDS TimingCore

\* Two lines of 4 bytes: an aligned block, a block ending on a line
\* boundary, and one starting mid-line and spilling into the next line.
MCBlocks ==
  { [addr |-> 0, bytes |-> 4, instrs |-> 1],
    [addr |-> 0, bytes |-> 8, instrs |-> 2],
    [addr |-> 2, bytes |-> 4, instrs |-> 1] }

=============================================================================
