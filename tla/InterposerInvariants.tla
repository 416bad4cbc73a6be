------------------------- MODULE InterposerInvariants -------------------------
(***************************************************************************)
(* The inductive invariants behind the safety properties of               *)
(* InterposerProperties.                                                   *)
(***************************************************************************)
EXTENDS InterposerProperties

-----------------------------------------------------------------------------
(* Stacks. *)

CallsIn(s) == {s[i] : i \in DOMAIN s}

\* The places of each kind of call.
Form(c) ==
    \/ /\ c.op = "call" /\ c.hook \in Hooks
       /\ c.at \in {"check", "lock", "real", "unlock"} \cup Fields
       /\ c.at = "check" => c.hook = "close"
    \/ c.op = "cleanup" /\ c.hook \in Hooks /\ c.at \in {"lock", "done", "close", "reset"}
    \/ /\ c.op = "report" /\ c.hook \in {"exit", "exec"}
       /\ c.at \in {"test", "connect", "done", "close"} \cup Fields
       /\ c.conn = NoConn <=> c.at \in {"test", "connect"}
    \/ c.op = "exit" /\ c.hook \in {"exit", "_exit", "return"} /\ c.at \in {"fini", "end"}
    \/ c.op = "exec" /\ c.hook = "exec" /\ c.at = "real"

\* What a call may be inside of.  A destructor waits for the close() of its socket;
\* that of close() itself for one that does not lock.
Within(outer, inner) ==
    \/ outer.op = "exit" /\ inner.op \in {"call", "cleanup", "report"}
    \/ outer.op = "exec" /\ inner.op \in {"call", "report"}
    \/ /\ outer.op = "cleanup" /\ outer.at = "reset"
       /\ inner.op = "call" /\ inner.hook = "close"
       /\ outer.hook = "close" => inner.at = "check"

Shape(s) ==
    \A i \in DOMAIN s : Form(s[i]) /\ (i > 1 => Within(s[i], s[i - 1]))

StackInv ==
    \A t \in Threads : /\ Shape(stack[t])
                       /\ stack[t] # <<>> => proc[Home[t]] # "unborn"

-----------------------------------------------------------------------------
(* Mutexes. *)

\* Between lock and unlock.
Owns(c) ==
    \/ c.op = "call" /\ c.at \in {"real", "unlock"} \cup Fields
    \/ c.op = "cleanup" /\ c.at \in {"done", "close", "reset"}

\* The libraries whose mutex a thread with stack s should have.
Owned(s) == {c.hook : c \in {d \in CallsIn(s) : Owns(d)}}

Finalizes(c) == c.op = "cleanup" /\ c.hook = "close" /\ Owns(c)

Locked ==
    \A t \in Threads :
        /\ \A h \in Hooks : lib[Home[t]][h].mutex = t <=> h \in Owned(stack[t])
        /\ \A c \in CallsIn(stack[t]) : Finalizes(c) => voyeur_close_finalized[Home[t]]

\* A mutex may be held by a thread of another process, from which it was copied.
LibState(p, h) ==
    /\ lib[p][h].mutex # None => proc[Home[lib[p][h].mutex]] # "unborn"
    /\ ~lib[p][h].initialized => lib[p][h].sock = NoConn
    /\ proc[p] = "unborn" => lib[p][h] = Unloaded

LibInv == \A p \in Procs : \A h \in Hooks : LibState(p, h)

\* No two processes each have a mutex that was copied from the other, nor more
\* than two in a ring: a process is forked by one that is older.
CopiesFrom(p, P) ==
    \E h \in Hooks : lib[p][h].mutex # None /\ Home[lib[p][h].mutex] \in P \ {p}

NoRing == \A P \in (SUBSET Procs) \ {{}} : \E p \in P : ~CopiesFrom(p, P)

\* Connections are numbered from 1 on.
Made(p, what) == {c \in Conns : c[1] = p /\ c[2] = what}
Numbered ==
    /\ IsFiniteSet(Conns)
    /\ \A c \in Conns : c[3] \in 1 .. Cardinality(Made(c[1], c[2]))

CallInv == TypeOK /\ Numbered /\ StackInv /\ Locked /\ LibInv

-----------------------------------------------------------------------------
(* What is sent. *)

LastOf(w) == w[Len(w)]
AtRest(w) == w = <<>> \/ LastOf(w).kind = "BODY"

\* Where call c is in what it sends on w.
Midway(c, w) ==
    CASE c.at = "TYPE"               -> w # <<>> /\ LastOf(w) = Item(c.ev, "EVENT")
      [] c.at = "BODY"               -> w # <<>> /\ LastOf(w) = Item(c.ev, "TYPE")
      [] c.at \in {"close", "reset"} -> w # <<>> /\ LastOf(w).kind = "DONE"
      [] OTHER                       -> AtRest(w)

\* A connection of a library that no other process has.
LibConn(p, h) ==
    LET c == lib[p][h].sock IN
    c \in Conns \ shared =>
        /\ c[1] = p /\ c[2] = h
        /\ lib[p][h].mutex = None => AtRest(wire[c])
        /\ \A t \in Threads : \A d \in CallsIn(stack[t]) :
             Home[t] = p /\ Owns(d) /\ d.hook = h => Midway(d, wire[c])

LibConns ==
    /\ \A p \in Procs : \A h \in Hooks :
         /\ LibConn(p, h)
         /\ lib[p][h].sock # NoConn => lib[p][h].sock[2] \in Hooks
    /\ \A c \in shared : c[2] \in Hooks

\* The connection of a report is its own.
ReportConns ==
    \A t \in Threads : \A r \in CallsIn(stack[t]) :
        r.op = "report" /\ r.conn # NoConn =>
            /\ r.conn[1] = Home[t] /\ r.conn[2] = r.hook
            /\ Midway(r, wire[r.conn])
            /\ \A u \in Threads : \A q \in CallsIn(stack[u]) :
                  q.op = "report" /\ q.conn = r.conn => u = t

WireInv == LibConns /\ ReportConns /\ WholeFrames /\ OneOpenConnection

-----------------------------------------------------------------------------
(* What is reported. *)

\* A call or a report that has not sent its event in full yet.
Unsent(c) ==
    \/ c.op = "call" /\ c.at # "unlock"
    \/ c.op = "report" /\ c.at \notin {"done", "close"}

\* Events are numbered as they begin.
Begun(e) == e[2] <= made[e[1]]
EventNumbers == \A t \in Threads : \A c \in CallsIn(stack[t]) : c.ev[1] = t /\ Begun(c.ev)

\* Each is sent at most once on a connection.
SentOnce(w) ==
    \A i \in DOMAIN w : w[i].kind = "BODY" =>
        /\ Begun(w[i].ev)
        /\ \A j \in DOMAIN w : w[j] = w[i] => j = i
        /\ \A t \in Threads : \A c \in CallsIn(stack[t]) : Unsent(c) => c.ev # w[i].ev
EventsOnce == \A c \in Conns : SentOnce(wire[c])

\* The real calls, each of an event of its own, and each sent by its library.
Unmade(c) == c.op = "call" /\ c.at \in {"check", "lock", "real"}
RealEvents(p, h) == {effects[p][h][a][1] : a \in DOMAIN effects[p][h]}
RealCalls ==
    \A p \in Procs : \A h \in Hooks : \A a \in DOMAIN effects[p][h] :
        LET e == effects[p][h][a][1]
            s == effects[p][h][a][2]
        IN  /\ Home[e[1]] = p /\ Begun(e)
            /\ s # NoConn => s \in Conns /\ s[2] \in Hooks
            /\ \A b \in DOMAIN effects[p][h] : effects[p][h][b][1] = e => b = a
            /\ \A k \in Hooks \ {h} : e \notin RealEvents(p, k)
            /\ \A t \in Threads : \A c \in CallsIn(stack[t]) : Unmade(c) => c.ev # e

\* While a call reports, the real call it reports is the latest of its library.
Told(c) == c.op = "call" /\ c.at \in {"unlock"} \cup Fields
Reports(c, l, real) ==
    /\ real # <<>> /\ real[Len(real)] = <<c.ev, l.sock>>
    /\ c.at = "unlock" => l.sock = NoConn \/ c.hook \in MaySkip \/ Sent(l.sock, c.ev) # {}
Reporting ==
    \A t \in Threads : \A c \in CallsIn(stack[t]) :
        Told(c) => Reports(c, lib[Home[t]][c.hook], effects[Home[t]][c.hook])

\* What ReportedInOrder adds to this.
Complete ==
    \A p \in Procs : \A h \in Hooks \ MaySkip : \A a \in DOMAIN effects[p][h] :
        LET e == effects[p][h][a][1]
            s == effects[p][h][a][2]
        IN  s # NoConn => Inside(e) \/ Sent(s, e) # {}
Ordered ==
    \A p \in Procs : \A h \in Hooks : \A a, b \in DOMAIN effects[p][h] :
        LET s == effects[p][h][a][2] IN
        a < b /\ s \notin shared /\ s # NoConn =>
            \A i \in Sent(s, effects[p][h][a][1]) : \A j \in Sent(s, effects[p][h][b][1]) : i < j

OrderInv == EventNumbers /\ EventsOnce /\ RealCalls /\ Reporting /\ Complete /\ Ordered

-----------------------------------------------------------------------------
(* The exit. *)

\* The threads that may end their process, no two of them the same.
Enders == {e[1] : e \in {f \in Exits : f[2] # "execve"}}
OneEnder == \A t, u \in Enders : Home[t] = Home[u] => t = u

Reporter(c) == c.op = "report" /\ c.hook = "exit"
Ends(c) == c.op = "exit" \/ Reporter(c)
EndCalls(s) == {c \in CallsIn(s) : Ends(c)}

\* What a report has sent when it is at a place.
Whole == <<"EVENT", "TYPE", "BODY", "DONE">>
SentAt(at) ==
    CASE at = "EVENT" -> <<>>
      [] at = "TYPE"  -> <<"EVENT">>
      [] at = "BODY"  -> <<"EVENT", "TYPE">>
      [] at = "done"  -> <<"EVENT", "TYPE", "BODY">>
      [] at = "close" -> Whole
Kinds(w) == [i \in DOMAIN w |-> w[i].kind]

\* A report that passed the test is the first of its process, and the end of the
\* process waits for one unless there was one.
EndsIn(t, c) ==
    /\ t \in Enders
    /\ Reporter(c) /\ c.at = "connect" => ~did_exit_already[Home[t]]
    /\ Reporter(c) /\ c.conn # NoConn => Kinds(wire[c.conn]) = SentAt(c.at)
    /\ c.op = "exit" /\ c.at = "end" =>
          did_exit_already[Home[t]] \/ \E r \in EndCalls(stack[t]) : Reporter(r)
Endings == \A t \in Threads : \A c \in EndCalls(stack[t]) : EndsIn(t, c)

\* The connection that a thread reports the exit on.
ReportsOn(t, c) == \E r \in EndCalls(stack[t]) : Reporter(r) /\ r.conn = c

\* What did_exit_already says about a process.
ExitOnce(p) ==
    /\ \A c, d \in Made(p, "exit") : c = d
    /\ Made(p, "exit") # {} => did_exit_already[p] /\ proc[p] # "unborn"
    /\ did_exit_already[p] /\ "exit" \notin SocketsFail /\ Made(p, "exit") = {} =>
          p # Root /\ \E c \in Conns : c[2] = "exit"
    /\ \A c \in Made(p, "exit") :
          Kinds(wire[c]) = Whole \/ \E t \in Threads : Home[t] = p /\ ReportsOn(t, c)
    /\ proc[p] = "exited" => did_exit_already[p] /\ \A c \in Made(p, "exit") : Kinds(wire[c]) = Whole

ExitInv == proc[Root] # "unborn" /\ Endings /\ \A p \in Procs : ExitOnce(p)
=============================================================================
