----------------------------- MODULE ProcessTree -----------------------------
(***************************************************************************)
(* The observed child and the processes that come of it by fork(), exec()  *)
(* and posix_spawn(), what they report of it, and when the observer's      *)
(* callbacks learn of it.  The server and its sockets are the channel of   *)
(* EventChannel, which VoyeurServer implements; a process connects to it   *)
(* anew for each exec() and exit(), and once for all its posix_spawn().    *)
(* Interposer has what the threads of one process do inside these calls;   *)
(* here a call is its visible steps, and any thread may take the next one. *)
(***************************************************************************)
EXTENDS Integers, Sequences, FiniteSets

CONSTANTS
    Procs,       \* processes
    Root,        \* the observed child
    MaxConns,    \* bound: connections that each process makes
    MaxSpawns,   \* bound: reports after which a process does not spawn
    NOACCESS,    \* OBSERVE_EXEC_NOACCESS is set
    MaxLost,     \* bound: connections the server drops while it runs
    None

ASSUME ProcessTreeAssumption ==
    /\ Root \in Procs
    /\ MaxConns \in Nat
    /\ MaxSpawns \in Nat
    /\ NOACCESS \in BOOLEAN
    /\ MaxLost \in Nat
    /\ None \notin Procs \X (1..MaxConns)

\* The k-th connection that a process makes.
Conns == Procs \X (1..MaxConns)

VARIABLES
    state,       \* per process: where it is in its life and in a call
    call,        \* per process: of the exec() or posix_spawn() it is in, see Names
    made,        \* per process: connections made
    cached,      \* per process: voyeur_posix_spawn_sock
    lineage,     \* history: per process, the reports of the exec()s that led to
                 \* its image, its ancestors' included: <<connection, number>>
    before,      \* history: per connection, the lineage of who made it
    unreported,  \* history: processes whose image was never reported
    posted, seen, log, lost, over   \* of the channel

Channel == INSTANCE EventChannel WITH Writers <- Conns, MayLose <- (MaxLost > 0)

historyVars == <<lineage, before, unreported>>
procVars == <<state, call, made, cached, historyVars>>
chanVars == <<posted, seen, log, lost, over>>
vars == <<procVars, chanVars>>

-----------------------------------------------------------------------------
(* Connections. *)

Latest(p) == <<p, made[p]>>

\* voyeur_create_client_socket()
Connect(p) ==
    /\ made[p] < MaxConns
    /\ made' = [made EXCEPT ![p] = @ + 1]
    /\ before' = [before EXCEPT ![<<p, made[p] + 1>>] = lineage[p]]
    /\ Channel!Connect(<<p, made[p] + 1>>)

\* All fields of an event; when the server's end is closed nothing is sent.
Report(c) == IF c \in lost THEN UNCHANGED chanVars ELSE Channel!Post(c)

Goto(p, at) == state' = [state EXCEPT ![p] = at]

-----------------------------------------------------------------------------
(* execve(), execl(), execvp() and the others. *)

\* A program as it is named: what access() says of the name, and whether it
\* starts.  A name that is looked up in PATH may start though access(), which
\* knows nothing of PATH, finds no such file.
Names == [accessible : BOOLEAN, starts : BOOLEAN]

\* write_exec_event() reports what access() says could succeed.
Told(n) == NOACCESS \/ n.accessible
NoCall == [accessible |-> FALSE, starts |-> FALSE]

\* A report on the connection that posix_spawn() keeps.
Exec_Cached(p, n) ==
    /\ state[p] = "runs"
    /\ Goto(p, "reports")
    /\ call' = [call EXCEPT ![p] = n]
    /\ IF cached[p] # None /\ cached[p][1] = p
       THEN UNCHANGED <<made, before, chanVars>> ELSE Connect(p)
    /\ UNCHANGED <<cached, lineage, unreported>>

\* The connection is made for this one report, and closed after it.
Exec(p, n) ==
    /\ state[p] = "runs"
    /\ Goto(p, "reports")
    /\ call' = [call EXCEPT ![p] = n]
    /\ Connect(p)
    /\ UNCHANGED <<cached, lineage, unreported>>

ReportExec(p) ==
    /\ state[p] = "reports"
    /\ Goto(p, "execs")
    /\ IF Told(call[p]) THEN Report(Latest(p)) ELSE UNCHANGED chanVars
    /\ UNCHANGED <<call, made, cached, historyVars>>

\* The new image starts with its sockets closed, or the old one goes on.
RealExec(p) ==
    LET report == {<<c, posted[c]>> : c \in {d \in {Latest(p)} : posted[d] > 0}} IN
    /\ state[p] = "execs"
    /\ Goto(p, "runs")
    /\ IF call[p].starts
       THEN /\ cached' = [cached EXCEPT ![p] = None]
            /\ lineage' = [lineage EXCEPT ![p] = @ \cup report]
            /\ unreported' = IF Told(call[p]) THEN unreported \ {p} ELSE unreported \cup {p}
       ELSE UNCHANGED <<cached, lineage, unreported>>
    /\ call' = [call EXCEPT ![p] = NoCall]
    /\ UNCHANGED <<made, before, chanVars>>

-----------------------------------------------------------------------------
(* posix_spawn() and posix_spawnp(). *)

InitSpawn_Unconnected(p) ==
    /\ state[p] = "runs"
    /\ cached[p] = None
    /\ made[p] < MaxConns
    /\ cached' = [cached EXCEPT ![p] = <<p, made[p] + 1>>]
    /\ UNCHANGED <<state, call, made, lineage, before, unreported, chanVars>>

\* voyeur_init_posix_spawn()
InitSpawn(p) ==
    /\ state[p] = "runs"
    /\ cached[p] = None
    /\ cached' = [cached EXCEPT ![p] = <<p, made[p] + 1>>]
    /\ Connect(p)
    /\ UNCHANGED <<state, call, lineage, unreported>>

\* The new process q may run before it is reported, and a call that failed is
\* reported too.  A process forked with its parent's connection does not spawn
\* before it execs: what two processes write on one connection is VoyeurServer's.
Spawn(p, q, n) ==
    /\ state[p] = "runs"
    /\ cached[p] # None /\ cached[p][1] = p
    /\ posted[cached[p]] < MaxSpawns
    /\ call' = [call EXCEPT ![p] = n]
    /\ IF n.starts
       THEN /\ state[q] = "unborn"
            /\ state' = [state EXCEPT ![p] = "spawned", ![q] = "runs"]
            /\ lineage' = [lineage EXCEPT ![q] = lineage[p]]
            /\ unreported' = IF Told(n) THEN unreported ELSE unreported \cup {q}
       ELSE Goto(p, "spawned") /\ UNCHANGED <<lineage, unreported>>
    /\ UNCHANGED <<made, cached, before, chanVars>>

ReportSpawn(p) ==
    /\ state[p] = "spawned"
    /\ Goto(p, "runs")
    /\ IF Told(call[p]) THEN Report(cached[p]) ELSE UNCHANGED chanVars
    /\ call' = [call EXCEPT ![p] = NoCall]
    /\ UNCHANGED <<made, cached, historyVars>>

-----------------------------------------------------------------------------
(* fork() and the ends of a process. *)

Fork(p, q) ==
    /\ state[p] = "runs"
    /\ state[q] = "unborn"
    /\ Goto(q, "runs")
    /\ cached' = [cached EXCEPT ![q] = cached[p]]
    /\ lineage' = [lineage EXCEPT ![q] = lineage[p]]
    /\ unreported' = IF p \in unreported THEN unreported \cup {q} ELSE unreported
    /\ UNCHANGED <<call, made, before, chanVars>>

\* exit(), _exit() and a return from main()
Exit(p) ==
    /\ state[p] = "runs"
    /\ Goto(p, "exits")
    /\ Connect(p)
    /\ UNCHANGED <<call, cached, lineage, unreported>>

ReportExit(p) ==
    /\ state[p] = "exits"
    /\ Goto(p, "ended")
    /\ Report(Latest(p))
    /\ UNCHANGED <<call, made, cached, historyVars>>

\* A signal, at any point.
Die(p) ==
    /\ state[p] \notin {"unborn", "ended"}
    /\ Goto(p, "ended")
    /\ call' = [call EXCEPT ![p] = NoCall]
    /\ UNCHANGED <<made, cached, historyVars, chanVars>>

-----------------------------------------------------------------------------
(* The observer. *)

Callback(c) == Channel!Deliver(c) /\ UNCHANGED procVars

Lose ==
    /\ ~over
    /\ Channel!Lose
    /\ Cardinality(lost') <= MaxLost
    /\ UNCHANGED procVars

\* voyeur_start() ends with the child, see ReturnsAfterExit.
Stop ==
    /\ state[Root] = "ended"
    /\ Channel!Stop
    /\ UNCHANGED procVars

-----------------------------------------------------------------------------
Init ==
    /\ state = [p \in Procs |-> IF p = Root THEN "runs" ELSE "unborn"]
    /\ call = [p \in Procs |-> NoCall]
    /\ made = [p \in Procs |-> 0]
    /\ cached = [p \in Procs |-> None]
    /\ lineage = [p \in Procs |-> {}]
    /\ before = [c \in Conns |-> {}]
    /\ unreported = {}
    /\ Channel!Init

ProcStep(p) ==
    \/ \E n \in Names : Exec(p, n)
    \/ ReportExec(p)
    \/ RealExec(p)
    \/ InitSpawn(p)
    \/ \E q \in Procs, n \in Names : Spawn(p, q, n)
    \/ ReportSpawn(p)
    \/ \E q \in Procs : Fork(p, q)
    \/ Exit(p)
    \/ ReportExit(p)
    \/ Die(p)

Next ==
    \/ \E p \in Procs : ProcStep(p)
    \/ \E c \in Conns : Callback(c)
    \/ Lose
    \/ Stop

Spec == Init /\ [][Next]_vars
==============================================================================
