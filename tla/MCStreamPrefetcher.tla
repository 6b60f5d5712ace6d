------------------------- MODULE MCStreamPrefetcher -------------------------
EXTENDS StreamPrefetcher

\* Lru: three regions competing for two entries (regions 0 and 1 of two
\* lines, region 2 of one), region 0 being the tag the calloc'd entries
\* start with.
MCLinesLru == 0 .. 4

\* Stride: a region of six lines, so that a stream of WarmUp + 1 positions
\* fits in it, and one line of a second region that evicts it from the
\* single entry.
MCLinesStride == (0 .. 5) \cup {6}

=============================================================================
