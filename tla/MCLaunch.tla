------------------------------ MODULE MCLaunch ------------------------------
(***************************************************************************)
(* Instances of Launch for TLC: an observer, and a second one in a process *)
(* that the first may have come to observe.                                *)
(***************************************************************************)
EXTENDS LaunchInvariants, TLC

CONSTANTS p0, p1, p2, c1, c2

MCOwner == [c \in Contexts |-> IF c = c1 THEN p0 ELSE p1]

Ask(e, o, b) == [event |-> e, opts |-> o, cb |-> b]

\* exec with the environment and with a bit that is not passed on, open with the
\* working directory, and a callback withdrawn.
SomeRequests == {Ask("exec", 34, TRUE), Ask("open", 1, TRUE), Ask("exec", 4, FALSE)}

\* Only the process that may be observed and observe is followed through an exec.
FewStarts == [p \in Procs |-> IF p = p1 THEN 2 ELSE 1]

\* So many that two libraries are cut and three refused.
SomePreload == {<<"liba", "libb", "libc">>}
=============================================================================
