--------------------------- MODULE MCCkptRestart ---------------------------
(***************************************************************************)
(* Instances of CkptRestart for TLC: which events an environment contains  *)
(* and how often each may happen.                                          *)
(***************************************************************************)
EXTENDS CkptRestart

NoSignal == {}
AppSignal == {"app"}
AnySignal == Contexts

LibStackApp == <<"lib", "stack", "app">>
AppLibStack == <<"app", "lib", "stack">>

\* A budget that allows nothing but the events of b.
With(b) == [e \in Events |-> IF e \in DOMAIN b THEN b[e] ELSE 0]

\* doCheckpoint only, three lives of the process, nothing fails; mmap and libc
\* are used twice, before or after a restart.
CallBudget == With([work |-> 2, call |-> 3, mmap |-> 2, run |-> 3])
\* Everything at once.
FullBudget == With([work |-> 1, call |-> 2, signal |-> 2, fault |-> 1, run |-> 3])
\* A signal's checkpoint is restored, then the application asks for one.
SignalThenCallBudget == With([call |-> 1, signal |-> 1, run |-> 2])
=============================================================================
