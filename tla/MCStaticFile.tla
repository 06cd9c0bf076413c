---------------------------- MODULE MCStaticFile ----------------------------
(***************************************************************************)
(* A small instance of StaticFile: a file of at most five bytes, read two  *)
(* bytes at a time (three in a range), ranges on both sides of its end.    *)
(***************************************************************************)
EXTENDS StaticFile

Range(a, b) == [start |-> a, end |-> b]

\* bytes=0-, a field without '-', 0-1, the last position, one past it, far
\* past it, an inverted range, a suffix, a negative end, a start past INT_MAX
\* minus MAX_STREAM_SIZE.
MCRanges ==
  {Range(0, -1), Range(0, 0), Range(0, 1), Range(1, 4), Range(1, 5),
   Range(6, 8), Range(4, 1), Range(-1, 2), Range(1, -3), Range(IntMax, -1)}
=============================================================================
