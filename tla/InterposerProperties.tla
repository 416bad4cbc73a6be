------------------------ MODULE InterposerProperties ------------------------
(***************************************************************************)
(* What the interposers of one process promise its program, its observer   *)
(* and each other.                                                         *)
(***************************************************************************)
EXTENDS Interposer

Ops == {"call", "cleanup", "report", "exit", "exec"}
Labels == {"check", "lock", "real", "unlock", "done", "close", "reset",
           "test", "connect", "end", "fini"} \cup Fields
Names == Hooks \cup {"exit", "exec", "_exit", "return"}
Events == Threads \X (Nat \ {0})

ConnNames == (Procs \X Names \X Nat) \cup {NoConn}

Calls == [op : Ops, hook : Names, at : Labels, ev : Events, conn : ConnNames]
Library == [mutex : Threads \cup {None}, initialized : BOOLEAN, next : BOOLEAN,
            sock : ConnNames]

\* Every variable has its type, a socket that a library or a report holds is one
\* that was made, and what is about to be sent has a socket to be sent on.
TypeOK ==
    /\ proc \in [Procs -> {"unborn", "alive", "exited", "replaced", "crashed"}]
    /\ lib \in [Procs -> [Hooks -> Library]]
    /\ voyeur_close_finalized \in [Procs -> BOOLEAN]
    /\ did_exit_already \in [Procs -> BOOLEAN]
    /\ stack \in [Threads -> Seq(Calls)]
    /\ made \in [Threads -> Nat]
    /\ Conns \subseteq ConnNames \ {NoConn}
    /\ \A c \in Conns : wire[c] \in Seq([kind : Fields \cup {"DONE"}, ev : Events])
    /\ shared \subseteq Conns
    /\ fini \in [Procs -> SUBSET Hooks]
    /\ effects \in [Procs -> [Hooks -> Seq(Events \X ConnNames)]]
    /\ \A p \in Procs : \A h \in Hooks : lib[p][h].sock \in Conns \cup {NoConn}
    /\ \A t \in Threads : \A i \in DOMAIN stack[t] :
          stack[t][i].conn \in Conns \cup {NoConn}
    /\ \A t \in Threads : stack[t] # <<>> /\ Top(t).at \in Fields \cup {"done"} =>
          IF Top(t).op = "report" THEN Top(t).conn # NoConn ELSE Lib(t).sock # NoConn

-----------------------------------------------------------------------------
(* What is sent. *)

\* On a connection that no fork() has shared, the fields of an event follow each
\* other without those of another thread's event between them, whole but for the
\* last one, and nothing follows DONE: what run_server takes for granted of every
\* connection.
WholeFrames ==
    \A c \in Conns \ shared : \A i \in DOMAIN wire[c] :
        LET now == wire[c][i]
            last == wire[c][i - 1]
        IN  CASE now.kind = "EVENT" -> i > 1 => last.kind = "BODY"
              [] now.kind = "TYPE"  -> i > 1 /\ last = Item(now.ev, "EVENT")
              [] now.kind = "BODY"  -> i > 1 /\ last = Item(now.ev, "TYPE")
              [] now.kind = "DONE"  -> /\ i > 1 => last.kind = "BODY"
                                       /\ i = Len(wire[c])

Inside(ev) == \E t \in Threads : \E i \in DOMAIN stack[t] :
                 stack[t][i].op = "call" /\ stack[t][i].ev = ev

Sent(c, ev) == {i \in DOMAIN wire[c] : wire[c][i] = Item(ev, "BODY")}

\* A call that has returned was reported once, if its library had a socket; and
\* a connection nobody shares reports the calls in the order in which the real
\* function was called, because both happen under the mutex.
ReportedInOrder ==
    \A p \in Procs : \A h \in Hooks :
        LET real == effects[p][h] IN
        /\ \A a \in DOMAIN real : \A c \in {real[a][2]} \ {NoConn} :
              /\ Cardinality(Sent(c, real[a][1])) <= 1
              /\ h \notin MaySkip /\ ~Inside(real[a][1]) => Sent(c, real[a][1]) # {}
        /\ \A a, b \in DOMAIN real : \A c \in {real[a][2]} \ shared :
              a < b /\ c # NoConn =>
                  \A i \in Sent(c, real[a][1]) : \A j \in Sent(c, real[b][1]) : i < j

Ended(c) == wire[c] # <<>> /\ wire[c][Len(wire[c])].kind = "DONE"

\* A process leaves no connection behind without ending it: those a library made
\* in this process, but for the one it uses now, have been ended with DONE, and
\* so have those of the reports that are over.
OneOpenConnection ==
    \A c \in Conns \ shared :
        LET p == c[1]
            h == c[2]
        IN  \/ Ended(c)
            \/ h \in Hooks /\ lib[p][h].initialized /\ lib[p][h].sock = c
            \/ \E t \in Threads : Home[t] = p /\ \E i \in DOMAIN stack[t] :
                  stack[t][i].op = "report" /\ stack[t][i].conn = c

\* A process that ends through exit(), _exit() or a return from main() has sent
\* its exit event in full, once, by the time it ends, unless it had no socket, or
\* was forked while another one reported its exit, from which it has did_exit_already.
ExitReported ==
    \A p \in Procs : proc[p] = "exited" =>
        LET reports == {c \in Conns : c[1] = p /\ c[2] = "exit"} IN
        /\ did_exit_already[p]
        /\ Cardinality(reports) <= 1
        /\ "exit" \notin SocketsFail /\ reports = {} =>
              p # Root /\ \E c \in Conns : c[2] = "exit"
        /\ \A c \in reports : [i \in DOMAIN wire[c] |-> wire[c][i].kind]
                                = <<"EVENT", "TYPE", "BODY", "DONE">>

-----------------------------------------------------------------------------
(* What the program sees. *)

\* An interposed function never calls the next one before looking it up.
NoNullCall == \A p \in Procs : proc[p] # "crashed"

\* The thread that holds the mutex t waits for, if any.  In a forked process it
\* may be one that this process does not have.
Awaits(t) ==
    IF \E op \in {"call", "cleanup"} : In(t, op, "lock") THEN Lib(t).mutex ELSE None

\* No thread ever waits for itself, directly or through others: destructors hold
\* the mutex of their library while they close its socket through the close() of
\* another one, that of close() through its own.
NoWaitCycle ==
    \A S \in (SUBSET Threads) \ {{}} : \E t \in S : Awaits(t) \notin S
=============================================================================
