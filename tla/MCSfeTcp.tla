------------------------------ MODULE MCSfeTcp ------------------------------
(***************************************************************************)
(* SfeTcp on a sequence space of 64 numbers that wraps in the middle of    *)
(* the stream, with segments of 2 and a window of 2 segments.              *)
(***************************************************************************)
EXTENDS SfeTcp
=============================================================================
