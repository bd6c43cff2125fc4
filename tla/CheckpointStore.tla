--------------------------- MODULE CheckpointStore ---------------------------
(***************************************************************************)
(* What checkpointing promises the user of one rank, without any of the    *)
(* machinery: a process makes progress, may be stopped at any moment, and  *)
(* comes back either from the start or from the checkpoint on disk.  That  *)
(* holds the progress of the process that took it, or, when it was cut     *)
(* short, nothing of it: who comes back from such a checkpoint is up, but  *)
(* without its memory, and makes no progress any more.                     *)
(***************************************************************************)
EXTENDS Naturals

CONSTANTS NULL,         \* "there is no checkpoint to come back to"
          LOST          \* "the memory with the progress is missing"

VARIABLES up,           \* is the process running?
          fresh,        \* was it started from the beginning?
          progress,     \* what the application has computed, or LOST
          stable        \* the progress held by the checkpoint on disk,
                        \* LOST for a cut one, NULL for none

vars == <<up, fresh, progress, stable>>

Init ==
  /\ up = FALSE
  /\ fresh = FALSE
  /\ progress = 0
  /\ stable = NULL

\* The process is started from the beginning; what is on disk stays.
Start ==
  /\ ~up
  /\ up' = TRUE
  /\ fresh' = TRUE
  /\ progress' = 0
  /\ UNCHANGED stable

\* The process comes back with what the checkpoint holds.
Recover ==
  /\ ~up
  /\ stable # NULL
  /\ up' = TRUE
  /\ fresh' = FALSE
  /\ progress' = stable
  /\ UNCHANGED stable

Work ==
  /\ up
  /\ progress # LOST
  /\ progress' = progress + 1
  /\ UNCHANGED <<up, fresh, stable>>

\* A checkpoint begins: the previous one is given up.
Discard ==
  /\ up
  /\ stable # NULL
  /\ stable' = NULL
  /\ UNCHANGED <<up, fresh, progress>>

\* A checkpoint is there: it holds the present or, as long as it is not
\* finished, none; never an older state.
Save ==
  /\ up
  /\ stable' \in {progress, LOST}
  /\ UNCHANGED <<up, fresh, progress>>

\* The process stops.  Stopping never alters what is on disk.
Stop ==
  /\ up
  /\ up' = FALSE
  /\ fresh' = FALSE
  /\ progress' = 0
  /\ UNCHANGED stable

Next == Start \/ Recover \/ Work \/ Discard \/ Save \/ Stop

Spec == Init /\ [][Next]_vars
=============================================================================
