-------------------------- MODULE MCSyscallChannel --------------------------
(***************************************************************************)
(* Model-checking instance of SyscallChannel: two callers that preempt     *)
(* each other anywhere in raw_syscall, two calls each.                     *)
(***************************************************************************)
EXTENDS SyscallChannel, TLC

CONSTANTS c1, c2

MCCallers == {c1, c2}

Symmetry == Permutations(MCCallers)
=============================================================================
