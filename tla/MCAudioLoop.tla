---------------------------- MODULE MCAudioLoop ----------------------------
(***************************************************************************)
(* Model-checking instance of AudioLoop: the real 200-sample idata and     *)
(* 1024-sample buffers (so the cycle offset takes the values 0, 24, 48,    *)
(* ... and wraps), with the loop cut to fewer accepted passes than 1000.   *)
(***************************************************************************)
EXTENDS AudioLoop
=============================================================================
