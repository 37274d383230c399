----------------------------- MODULE SyscallSlot -----------------------------
(***************************************************************************)
(* What the Syscall Channel promises (spec 4.4 and 8), with the steps of   *)
(* raw_syscall abstracted away: the four shared atomics form one slot      *)
(* guarded by a lock.  Every step is the step of one caller, the one whose *)
(* own progress moves.  A call takes the lock only when it is free and     *)
(* takes it for itself, only the holder changes the fields the lock        *)
(* guards, and the holder gives the lock back only with those fields idle, *)
(* so the next holder starts from a clean slot.                            *)
(***************************************************************************)
CONSTANTS
  Callers,  \* the contexts that may take the slot
  Null,     \* no holder
  Idle,     \* the value of the guarded fields in a free slot
  Fields,   \* the values the guarded fields may take
  Stages    \* where a caller may stand in its own call

\* Null is not a caller, and Idle is one of the Fields (as SyscallChannel's
\* mapping gives them).

VARIABLES
  holder,   \* the caller holding the slot, or Null
  fields,   \* the guarded fields
  stage     \* stage[c]: where caller c stands in its own call

vars == <<holder, fields, stage>>

Init == holder = Null /\ fields = Idle /\ stage \in [Callers -> Stages]

\* Caller c takes a step: its own stage moves, no other caller's does.
Moves(c) ==
  /\ stage' = [stage EXCEPT ![c] = stage'[c]]
  /\ stage'[c] # stage[c]

\* A step of c that leaves the slot alone.
Local(c) == Moves(c) /\ UNCHANGED <<holder, fields>>

\* A call takes the free slot for itself.
Acquire(c) == holder = Null /\ holder' = c /\ Moves(c) /\ UNCHANGED fields

\* The holder writes the guarded fields.
Write(c) == holder = c /\ fields' \in Fields /\ Moves(c) /\ UNCHANGED holder

\* The holder gives the slot back, with the fields idle.
Release(c) ==
  holder = c /\ fields = Idle /\ holder' = Null /\ Moves(c) /\ UNCHANGED fields

Next == \E c \in Callers : Local(c) \/ Acquire(c) \/ Write(c) \/ Release(c)

Spec == Init /\ [][Next]_vars

=============================================================================
