---------------------------- MODULE TreeProperties ----------------------------
(***************************************************************************)
(* What an observer can conclude from the callbacks about the processes    *)
(* they come from, and the inductive invariant behind it.                  *)
(***************************************************************************)
EXTENDS ProcessTree

States == {"unborn", "runs", "reports", "execs", "spawned", "exits", "ended"}

Reports == Conns \X Nat

\* Every variable has its type, and a process spawns on a connection that
\* voyeur_init_posix_spawn() or that of a parent has made.
TypeOK ==
    /\ state \in [Procs -> States]
    /\ call \in [Procs -> Names]
    /\ made \in [Procs -> 0..MaxConns]
    /\ cached \in [Procs -> Conns \cup {None}]
    /\ \A p \in Procs : cached[p] # None => cached[p][2] <= made[cached[p][1]]
    /\ lineage \in [Procs -> SUBSET Reports]
    /\ before \in [Conns -> SUBSET Reports]
    /\ unreported \subseteq Procs
    /\ posted \in [Conns -> Nat]
    /\ seen \in [Conns -> SUBSET Conns]
    /\ log \in Seq(Conns \X (Nat \ {0}))
    /\ lost \subseteq Conns
    /\ over \in BOOLEAN

\* The observer hears nothing from a program before it has heard of every
\* reported exec() that led to it, in this process and in those it was forked or
\* spawned from, on whichever connections the programs on the way reported,
\* unless the server gave up the connection of that report.
LineageFirst ==
    \A i \in DOMAIN log : \A r \in before[log[i][1]] :
        r[1] \in lost \/ \E j \in 1 .. i - 1 : log[j] = r

\* A program that an exec*() or posix_spawn*() started was reported: "Make sure
\* this exec() call could succeed before reporting the event."
EveryImageReported == unreported = {}

-----------------------------------------------------------------------------
(* The inductive invariant. *)

\* The connection of an exec() or exit() is there and carries at most its report,
\* and a process spawns on a connection of its own.
OneShot ==
    \A p \in Procs :
        /\ state[p] \in {"reports", "execs", "exits"} => made[p] > 0
        /\ state[p] = "reports" => posted[Latest(p)] = 0
        /\ state[p] = "execs" => posted[Latest(p)] <= 1
        /\ state[p] = "spawned" => cached[p] # None /\ cached[p][1] = p

\* What led to a process are first events that were sent in full, and when the
\* process connects the server has them all before it.
Lineages ==
    /\ \A p \in Procs : \A r \in lineage[p] : r[2] = 1 /\ posted[r[1]] > 0
    /\ \A c \in Conns : \A r \in before[c] : r[2] = 1 /\ r[1] \in seen[c]

\* A connection is called back from its first event on, after the first events
\* of those it was made after.
Ordered ==
    \A i \in DOMAIN log :
        /\ posted[log[i][1]] > 0
        /\ \E j \in 1 .. i : log[j] = <<log[i][1], 1>>
        /\ \A d \in seen[log[i][1]] : d \in lost \/ \E j \in 1 .. i - 1 : log[j] = <<d, 1>>

TreeInv == TypeOK /\ OneShot /\ Lineages /\ Ordered
===============================================================================
