---------------------------- MODULE MCAccumulator ----------------------------
(***************************************************************************)
(* Model-checking instance of Accumulator: a 4-byte scratch buffer (the    *)
(* capacity of the spec's own scenarios), two data values, up to two       *)
(* frames, windows of up to three bytes.                                   *)
(***************************************************************************)
EXTENDS Accumulator

MCData == {1, 2}
=============================================================================
