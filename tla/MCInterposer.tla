---------------------------- MODULE MCInterposer ----------------------------
(***************************************************************************)
(* Instances of Interposer for TLC: a process with two threads, and one it *)
(* may fork.                                                               *)
(***************************************************************************)
EXTENDS InterposerInvariants, TLC

CONSTANTS p1, p2, t1, t2, t3

MCHome == [t \in Threads |-> IF t = t3 THEN p2 ELSE p1]

OneCall == [t \in Threads |-> 1]
RootCalls == [t \in Threads |-> IF t = t3 THEN 0 ELSE 1]

\* The first thread ends its process, in every way there is.
FirstEnds == {t1} \X {"exit", "_exit", "return", "execve"}

\* A process that is forked and does not exec ends with _exit().
EveryEnd == FirstEnds \cup {<<t3, "_exit">>}
=============================================================================
