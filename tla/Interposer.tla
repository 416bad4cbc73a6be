------------------------------ MODULE Interposer ------------------------------
(***************************************************************************)
(* One instrumented process and the processes it forks: the interposed     *)
(* functions with a cached connection (open, close and posix_spawn, called *)
(* hooks here), the one-shot reports of execve() and exit(), and the       *)
(* destructors that run when a process exits.                              *)
(*                                                                         *)
(* Each hook lives in a library of its own with its own mutex and socket.  *)
(* The libraries call close() like everyone else, so that closing a socket *)
(* of one of them is a call of the interposed close().  A thread is a      *)
(* stack of such calls.  Arguments, results and the texts of the reports   *)
(* are left out; a process that is killed is one that takes no more steps. *)
(***************************************************************************)
EXTENDS Integers, Sequences, FiniteSets

CONSTANTS
    Procs,        \* processes that run the same program image
    Root,         \* the first of them; the others are forked
    Threads,
    Home,         \* the process of each thread
    Hooks,        \* the hooks whose library is loaded
    MaySkip,      \* those that may find that there is nothing to report
    Exits,        \* <<t, how>>: t may end its process with exit(), _exit(), a return
                  \* from main(), or execve() of another image
    MaxCalls,     \* bound: calls after which a thread begins none of its own
    SocketsFail,  \* those whose socket() may fail for want of descriptors: hooks,
                  \* or the reports of exit() and execve()
    None

\* A forked process has one thread, the copy of the one that called fork().
ASSUME InterposerAssumption ==
    /\ Root \in Procs
    /\ Home \in [Threads -> Procs]
    /\ \A p \in Procs \ {Root} : \A t, u \in Threads :
          Home[t] = p /\ Home[u] = p => t = u
    /\ Hooks \subseteq {"open", "close", "posix_spawn"}
    /\ MaySkip \subseteq Hooks
    /\ Exits \subseteq Threads \X {"exit", "_exit", "return", "execve"}
    /\ MaxCalls \in [Threads -> Nat]
    /\ SocketsFail \subseteq Hooks \cup {"exit", "exec"}
    /\ None \notin Threads

VARIABLES
    proc,       \* per process: unborn, alive, exited, replaced or crashed
    lib,        \* per process and hook: the static variables of its library
    voyeur_close_finalized,
    did_exit_already,
    stack,      \* per thread: the calls it is inside of, the innermost first
    made,       \* per thread: calls of interposed functions begun
    wire,       \* per connection ever made: the items sent on it
    shared,     \* history: connections that a fork() has shared
    fini,       \* per process: libraries whose destructor exit() has called
    effects     \* history: per process and hook, the real calls in order, each
                \* with the connection its library had

vars == <<proc, lib, voyeur_close_finalized, did_exit_already, stack, made, wire, shared, fini, effects>>
\* What most steps of a call leave alone.
processVars == <<proc, voyeur_close_finalized, did_exit_already, shared, fini>>

\* A connection is named by who made it, a process and a hook or report, and by
\* a number.
NoConn == <<>>
Conns == DOMAIN wire
Item(ev, k) == [kind |-> k, ev |-> ev]

-----------------------------------------------------------------------------
(* Stacks of calls. *)

Runs(t) == proc[Home[t]] = "alive"
Idle(t) == Runs(t) /\ stack[t] = <<>>

Call(op, hook, at, ev) == [op |-> op, hook |-> hook, at |-> at, ev |-> ev, conn |-> NoConn]
NewEvent(t) == <<t, made[t] + 1>>

Top(t) == Head(stack[t])
Lib(t) == lib[Home[t]][Top(t).hook]
SetLib(t, l) == lib' = [lib EXCEPT ![Home[t]][Top(t).hook] = l]

In(t, op, at) ==
    /\ Runs(t)
    /\ stack[t] # <<>>
    /\ Top(t).op = op
    /\ Top(t).at = at

Moved(t, at) == <<[Top(t) EXCEPT !.at = at]>> \o Tail(stack[t])
Goto(t, at) == stack' = [stack EXCEPT ![t] = Moved(t, at)] /\ UNCHANGED made
Return(t) == stack' = [stack EXCEPT ![t] = Tail(@)] /\ UNCHANGED made
Enter(t, call, rest) ==
    /\ stack' = [stack EXCEPT ![t] = <<call>> \o rest]
    /\ made' = [made EXCEPT ![t] = @ + 1]

\* Where a call of a hook begins: only close() looks before it locks.
Entry(h) == IF h = "close" THEN "check" ELSE "lock"

\* voyeur_close_socket(), with the calls that go on after it.
CloseSocket(t, rest) ==
    IF "close" \in Hooks
    THEN Enter(t, Call("call", "close", Entry("close"), NewEvent(t)), rest)
    ELSE stack' = [stack EXCEPT ![t] = rest] /\ UNCHANGED made

-----------------------------------------------------------------------------
(* The connections of the libraries. *)

\* voyeur_create_client_socket(), called by p for a hook or a report.
NewConn(p, what) ==
    <<p, what, 1 + Cardinality({c \in Conns : c[1] = p /\ c[2] = what})>>

Connect(c) == wire' = [d \in Conns \cup {c} |-> IF d = c THEN <<>> ELSE wire[d]]

\* The outcomes of socket().
Sockets(p, what) == {NewConn(p, what)} \cup {c \in {NoConn} : what \in SocketsFail}

Write(c, item) == wire' = [wire EXCEPT ![c] = Append(@, item)]

-----------------------------------------------------------------------------
(* A call of a hook. *)

\* By the program itself, or by a destructor or exit handler of its own.
CallHook(t, h) ==
    /\ Idle(t) \/ In(t, "exit", "fini")
    /\ made[t] < MaxCalls[t]
    /\ Enter(t, Call("call", h, Entry(h), NewEvent(t)), stack[t])
    /\ UNCHANGED <<processVars, lib, wire, effects>>

\* close() tests voyeur_close_finalized without the lock.
CheckFinalized(t) ==
    /\ In(t, "call", "check")
    /\ ~voyeur_close_finalized[Home[t]]
    /\ Goto(t, "lock")
    /\ UNCHANGED <<processVars, lib, wire, effects>>

\* "We're in the process of shutting down, so just forward to the real close",
\* through a pointer that is null unless close() was called before.
Forward_Locks(t) ==
    /\ In(t, "call", "check")
    /\ voyeur_close_finalized[Home[t]]
    /\ Goto(t, "lock")
    /\ UNCHANGED <<processVars, lib, wire, effects>>

Forward(t) ==
    /\ In(t, "call", "check")
    /\ voyeur_close_finalized[Home[t]]
    /\ \/ /\ Lib(t).next
          /\ Return(t)
          /\ UNCHANGED proc
       \/ /\ ~Lib(t).next
          /\ proc' = [proc EXCEPT ![Home[t]] = "crashed"]
          /\ UNCHANGED <<stack, made>>
    /\ UNCHANGED <<lib, voyeur_close_finalized, did_exit_already, shared, fini, wire, effects>>

\* The mutex, and at the first call of the hook in this process, or the first
\* since its destructor, the connection and the next function.
Lock(t) ==
    /\ In(t, "call", "lock")
    /\ Lib(t).mutex = None
    /\ \/ /\ Lib(t).initialized
          /\ SetLib(t, [Lib(t) EXCEPT !.mutex = t])
          /\ UNCHANGED <<wire>>
       \/ /\ ~Lib(t).initialized
          /\ \E c \in Sockets(Home[t], Top(t).hook) :
               /\ IF c = NoConn THEN UNCHANGED wire ELSE Connect(c)
               /\ SetLib(t, [mutex |-> t, initialized |-> TRUE, next |-> TRUE, sock |-> c])
    /\ Goto(t, "real")
    /\ UNCHANGED <<processVars, effects>>

\* The real function.  The report follows, unless there is no socket or
\* write_exec_event() finds that there is nothing to report.
RealCall_Unlocks(t) ==
    /\ In(t, "call", "real")
    /\ effects' = [effects EXCEPT ![Home[t]][Top(t).hook] =
                     Append(@, <<Top(t).ev, Lib(t).sock>>)]
    /\ Goto(t, IF Lib(t).sock # NoConn THEN "EVENT" ELSE "unlock")
    /\ SetLib(t, [Lib(t) EXCEPT !.mutex = None])
    /\ UNCHANGED <<processVars, wire>>

RealCall_NoSocketTest(t) ==
    /\ In(t, "call", "real")
    /\ effects' = [effects EXCEPT ![Home[t]][Top(t).hook] =
                     Append(@, <<Top(t).ev, Lib(t).sock>>)]
    /\ Goto(t, "EVENT")
    /\ UNCHANGED <<processVars, lib, wire>>

RealCall(t) ==
    /\ In(t, "call", "real")
    /\ effects' = [effects EXCEPT ![Home[t]][Top(t).hook] =
                     Append(@, <<Top(t).ev, Lib(t).sock>>)]
    /\ \/ Lib(t).sock # NoConn /\ Goto(t, "EVENT")
       \/ /\ Lib(t).sock = NoConn \/ Top(t).hook \in MaySkip
          /\ Goto(t, "unlock")
    /\ UNCHANGED <<processVars, lib, wire>>

\* The fields of the event, in this order.
After(k) == CASE k = "EVENT" -> "TYPE"
              [] k = "TYPE"  -> "BODY"
              [] k = "BODY"  -> "unlock"

WriteField(t, k) ==
    /\ In(t, "call", k)
    /\ Write(Lib(t).sock, Item(Top(t).ev, k))
    /\ Goto(t, After(k))
    /\ UNCHANGED <<processVars, lib, effects>>

Unlock(t) ==
    /\ In(t, "call", "unlock")
    /\ SetLib(t, [Lib(t) EXCEPT !.mutex = None])
    /\ Return(t)
    /\ UNCHANGED <<processVars, wire, effects>>

-----------------------------------------------------------------------------
(* The destructors. *)

\* voyeur_cleanup_open(), _close() and _posix_spawn(); that of close() sets
\* voyeur_close_finalized.
CleanupLock_Lockless(t) ==
    /\ In(t, "cleanup", "lock")
    /\ voyeur_close_finalized' =
         [voyeur_close_finalized EXCEPT ![Home[t]] = @ \/ Top(t).hook = "close"]
    /\ Goto(t, IF Lib(t).initialized /\ Lib(t).sock # NoConn THEN "done" ELSE "reset")
    /\ UNCHANGED <<proc, lib, did_exit_already, shared, fini, wire, effects>>

CleanupLock(t) ==
    /\ In(t, "cleanup", "lock")
    /\ Lib(t).mutex = None
    /\ SetLib(t, [Lib(t) EXCEPT !.mutex = t])
    /\ voyeur_close_finalized' =
         [voyeur_close_finalized EXCEPT ![Home[t]] = @ \/ Top(t).hook = "close"]
    /\ Goto(t, IF Lib(t).initialized /\ Lib(t).sock # NoConn THEN "done" ELSE "reset")
    /\ UNCHANGED <<proc, did_exit_already, shared, fini, wire, effects>>

CleanupDone_Silent(t) ==
    /\ In(t, "cleanup", "done")
    /\ Goto(t, "close")
    /\ UNCHANGED <<processVars, lib, wire, effects>>

CleanupDone(t) ==
    /\ In(t, "cleanup", "done")
    /\ Write(Lib(t).sock, Item(Top(t).ev, "DONE"))
    /\ Goto(t, "close")
    /\ UNCHANGED <<processVars, lib, effects>>

CleanupClose(t) ==
    /\ In(t, "cleanup", "close")
    /\ CloseSocket(t, Moved(t, "reset"))
    /\ UNCHANGED <<processVars, lib, wire, effects>>

CleanupReset(t) ==
    /\ In(t, "cleanup", "reset")
    /\ SetLib(t, [Lib(t) EXCEPT !.mutex = None, !.initialized = FALSE, !.sock = NoConn])
    /\ Return(t)
    /\ UNCHANGED <<processVars, wire, effects>>

-----------------------------------------------------------------------------
(* One-shot reports, on a connection of their own. *)

\* write_exit_event() tests and sets did_exit_already without a lock.
ExitReportTest(t) ==
    /\ In(t, "report", "test")
    /\ IF did_exit_already[Home[t]] THEN Return(t) ELSE Goto(t, "connect")
    /\ UNCHANGED <<processVars, lib, wire, effects>>

\* An exec that is silent, or that access() says would fail, is not reported,
\* but its connection is made and ended all the same.
ReportConnect(t) ==
    /\ In(t, "report", "connect")
    /\ did_exit_already' =
         [did_exit_already EXCEPT ![Home[t]] = @ \/ Top(t).hook = "exit"]
    /\ \E c \in Sockets(Home[t], Top(t).hook) :
         /\ IF c = NoConn THEN UNCHANGED wire ELSE Connect(c)
         /\ \E at \in {"EVENT", "done"} :
              /\ at = "done" => c = NoConn \/ Top(t).hook = "exec"
              /\ stack' = [stack EXCEPT ![t] =
                             IF c = NoConn THEN Tail(@)
                             ELSE <<[Top(t) EXCEPT !.at = at, !.conn = c]>> \o Tail(@)]
    /\ UNCHANGED <<proc, lib, voyeur_close_finalized, made, shared, fini, effects>>

ReportField(t, k) ==
    /\ In(t, "report", k)
    /\ Write(Top(t).conn, Item(Top(t).ev, k))
    /\ Goto(t, IF k = "BODY" THEN "done" ELSE After(k))
    /\ UNCHANGED <<processVars, lib, effects>>

ReportDone(t) ==
    /\ In(t, "report", "done")
    /\ Write(Top(t).conn, Item(Top(t).ev, "DONE"))
    /\ Goto(t, "close")
    /\ UNCHANGED <<processVars, lib, effects>>

ReportClose(t) ==
    /\ In(t, "report", "close")
    /\ CloseSocket(t, Tail(stack[t]))
    /\ UNCHANGED <<processVars, lib, wire, effects>>

-----------------------------------------------------------------------------
(* Ends of a process, and beginnings. *)

\* exit() reports first and _exit() then ends the process at once; a return from
\* main() calls the real exit(), which leaves the report to voyeur_exit_handler.
Exit_Unreported(t, how) ==
    /\ Idle(t)
    /\ <<t, how>> \in Exits
    /\ LET end == Call("exit", how, IF how = "_exit" THEN "end" ELSE "fini", NewEvent(t))
       IN  Enter(t, end, <<>>)
    /\ UNCHANGED <<processVars, lib, wire, effects>>

Exit(t, how) ==
    /\ Idle(t)
    /\ <<t, how>> \in Exits
    /\ LET end    == Call("exit", how, IF how = "_exit" THEN "end" ELSE "fini", NewEvent(t))
           report == Call("report", "exit", "test", NewEvent(t))
       IN  IF how = "return" THEN Enter(t, end, <<>>) ELSE Enter(t, report, <<end>>)
    /\ UNCHANGED <<processVars, lib, wire, effects>>

\* The real exit() runs the destructors, in an order that depends on how the
\* libraries were loaded, and then voyeur_exit_handler, the first one registered.
Fini(t, h) ==
    /\ In(t, "exit", "fini")
    /\ h \notin fini[Home[t]]
    /\ fini' = [fini EXCEPT ![Home[t]] = @ \cup {h}]
    /\ Enter(t, Call("cleanup", h, "lock", NewEvent(t)), stack[t])
    /\ UNCHANGED <<proc, lib, voyeur_close_finalized, did_exit_already, wire,
                   shared, effects>>

ExitHandler(t) ==
    /\ In(t, "exit", "fini")
    /\ fini[Home[t]] = Hooks
    /\ Enter(t, Call("report", "exit", "test", NewEvent(t)), Moved(t, "end"))
    /\ UNCHANGED <<processVars, lib, wire, effects>>

\* The process ends, wherever its other threads are.
End(t) ==
    /\ In(t, "exit", "end")
    /\ proc' = [proc EXCEPT ![Home[t]] = "exited"]
    /\ UNCHANGED <<lib, voyeur_close_finalized, did_exit_already, shared, fini, stack,
                   made, wire, effects>>

Execve(t) ==
    /\ Idle(t)
    /\ <<t, "execve">> \in Exits
    /\ made[t] < MaxCalls[t]
    /\ LET image == Call("exec", "exec", "real", NewEvent(t))
       IN  Enter(t, Call("report", "exec", "connect", NewEvent(t)), <<image>>)
    /\ UNCHANGED <<processVars, lib, wire, effects>>

\* The real execve() replaces the process, other threads included, or fails.
RealExecve(t) ==
    /\ In(t, "exec", "real")
    /\ \/ /\ proc' = [proc EXCEPT ![Home[t]] = "replaced"]
          /\ UNCHANGED <<stack, made>>
       \/ Return(t) /\ UNCHANGED proc
    /\ UNCHANGED <<lib, voyeur_close_finalized, did_exit_already, shared, fini, wire, effects>>

\* fork(), or vfork(), which is replaced by it: u goes on in the new process from
\* where t is.  The mutexes are copied as they are.
Fork(t, u) ==
    /\ Idle(t)
    /\ proc[Home[u]] = "unborn"
    /\ LET p == Home[t]
           q == Home[u]
       IN  /\ proc' = [proc EXCEPT ![q] = "alive"]
           /\ lib' = [lib EXCEPT ![q] = lib[p]]
           /\ voyeur_close_finalized' =
                [voyeur_close_finalized EXCEPT ![q] = voyeur_close_finalized[p]]
           /\ did_exit_already' = [did_exit_already EXCEPT ![q] = did_exit_already[p]]
           /\ fini' = [fini EXCEPT ![q] = fini[p]]
           /\ shared' = shared \cup ({lib[p][h].sock : h \in Hooks} \ {NoConn})
    /\ UNCHANGED <<stack, made, wire, effects>>

-----------------------------------------------------------------------------
Unloaded == [mutex |-> None, initialized |-> FALSE, next |-> FALSE, sock |-> NoConn]

Init ==
    /\ proc = [p \in Procs |-> IF p = Root THEN "alive" ELSE "unborn"]
    /\ lib = [p \in Procs |-> [h \in Hooks |-> Unloaded]]
    /\ voyeur_close_finalized = [p \in Procs |-> FALSE]
    /\ did_exit_already = [p \in Procs |-> FALSE]
    /\ stack = [t \in Threads |-> <<>>]
    /\ made = [t \in Threads |-> 0]
    /\ wire = <<>>
    /\ shared = {}
    /\ fini = [p \in Procs |-> {}]
    /\ effects = [p \in Procs |-> [h \in Hooks |-> <<>>]]

Fields == {"EVENT", "TYPE", "BODY"}

HookStep(t) ==
    \/ CheckFinalized(t)
    \/ Forward(t)
    \/ Lock(t)
    \/ RealCall(t)
    \/ \E k \in Fields : WriteField(t, k)
    \/ Unlock(t)

CleanupStep(t) ==
    \/ CleanupLock(t)
    \/ CleanupDone(t)
    \/ CleanupClose(t)
    \/ CleanupReset(t)

ReportStep(t) ==
    \/ ExitReportTest(t)
    \/ ReportConnect(t)
    \/ \E k \in Fields : ReportField(t, k)
    \/ ReportDone(t)
    \/ ReportClose(t)

\* What a thread goes on with once it has begun a call.
Proceed(t) ==
    \/ HookStep(t)
    \/ CleanupStep(t)
    \/ ReportStep(t)
    \/ \E h \in Hooks : Fini(t, h)
    \/ ExitHandler(t)
    \/ End(t)
    \/ RealExecve(t)

\* What it may begin.
Begin(t) ==
    \/ \E h \in Hooks : CallHook(t, h)
    \/ \E how \in {"exit", "_exit", "return"} : Exit(t, how)
    \/ Execve(t)
    \/ \E u \in Threads : Fork(t, u)

Next == \E t \in Threads : Proceed(t) \/ Begin(t)

Spec == Init /\ [][Next]_vars
=============================================================================
