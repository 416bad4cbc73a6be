-------------------------- MODULE ServerProperties --------------------------
(***************************************************************************)
(* What voyeur_start() and the interposers promise each other, stated over *)
(* VoyeurServer.                                                           *)
(***************************************************************************)
EXTENDS VoyeurServer

Items == [kind : ItemKinds, ev : Writers \X Nat]

ProcessTypes ==
    /\ child \in {"running", "exited"}
    /\ status \in Statuses
    /\ wp \in {"waiting", "reported", "ended"}
    /\ pipe \in Seq(Statuses)
    /\ held \in BOOLEAN
    /\ wpc \in [Writers -> {"unborn", "closed"} \cup Holding]
    /\ sock \in [Writers -> Writers]
    /\ nev \in [Writers -> Nat]
    /\ seen \in [Writers -> SUBSET Writers]

WireTypes ==
    /\ stream \in [Writers -> Seq(Items)]
    /\ pos \in [Writers -> Nat]
    /\ \A w \in Writers : pos[w] <= Len(stream[w])

DescriptorTypes ==
    /\ link \in [Writers -> {"none", "queued", "open", "gone"}]
    /\ backlog \in Seq(Writers)
    /\ owner \in [Fds -> FdKinds \cup Writers]
    /\ foreign \subseteq Fds
    /\ server_sock \in Fds
    /\ child_pipe_output \in Fds
    /\ child_pipe_input \in Fds

LoopTypes ==
    /\ pc \in {"select", "scan", "msgtype", "evtype", "body",
               "shutdown", "stragglers", "done"}
    /\ active_fd_set \subseteq Fds
    /\ read_fd_set \subseteq Fds
    /\ error_fd_set \subseteq Fds
    /\ cur \in Fds \cup {-1}
    /\ child_exited \in BOOLEAN
    /\ child_status \in Statuses \cup {0}
    /\ log \in Seq(Writers \X Nat)

\* Every variable has the type its declaration describes, and the server has
\* never read more of a connection than was sent on it.
TypeOK == ProcessTypes /\ WireTypes /\ DescriptorTypes /\ LoopTypes

-----------------------------------------------------------------------------
(* The protocol. *)

Reading == {"msgtype", "evtype", "body"}

\* The items run_server and its handlers are prepared to read next from c.
Expected(c) ==
    CASE pc = "evtype" /\ owner[cur] = c -> {"TYPE"}
      [] pc = "body" /\ owner[cur] = c   -> {"BODY"}
      [] OTHER                           -> {"EVENT", "DONE"}

\* Connections of more than one process, each with a mutex of its own.
Mixed == {c \in Writers : \E v \in Writers \ {c} : sock[v] = c}

\* The two ends of a connection never disagree on where a message starts: what
\* do_read() will return next on a socket is a field of the kind that
\* handle_message() and the handlers are about to read, whichever processes
\* ended in the middle of an event and whichever sockets were reset.
Framed ==
    \A c \in Writers \ Mixed :
        Connected(c) /\ Unread(c) > 0 => NextItem(c).kind \in Expected(c)

\* run_server makes the callback for the first event of a connection only after
\* the callbacks for the first events that were complete before the connection
\* was made: the one-connection-per-scan accept and the one-message-per-scan
\* read never let a later process overtake the news that led to it.
FirstEventOrder ==
    \A i \in DOMAIN log : \A d \in seen[log[i][1]] \ Mixed :
        \E j \in 1 .. i - 1 : log[j][1] = d

\* Whatever processes share a connection, the events of one writer are called
\* back at most once and in the order it sent them.
WriterOrder ==
    \A i, j \in DOMAIN log :
        i < j /\ log[i][1] = log[j][1] /\ log[i][2] > 0 /\ log[j][2] > 0
        => log[i][2] < log[j][2]

Channel == INSTANCE EventChannel WITH
    MayLose <- KernelErrors,
    posted  <- [c \in Writers |-> Len(stream[c]) \div 3],
    lost    <- {c \in Writers : link[c] = "gone" /\ pos[c] < Len(stream[c])},
    over    <- pc \in {"shutdown", "stragglers", "done"}

\* The server, the sockets and the interposers together are an event channel.
ImplementsChannel == Channel!Spec

-----------------------------------------------------------------------------
(* Descriptors and connections. *)

\* While the loop of run_server runs, active_fd_set is exactly what it should
\* wait for: the listener, the pipe until it was closed, and every connection
\* accepted and not closed, each under one number; and the numbers still ahead
\* of a scan are among them, so that no number closed or reused since select()
\* is ever read.
Watched ==
    /\ pc \in {"select", "scan"} \cup Reading =>
         /\ active_fd_set = {fd \in Fds : owner[fd] \in {"listen", "pipeOut"} \cup Writers}
         /\ owner[server_sock] = "listen"
         /\ owner[child_pipe_output] = "pipeOut" <=> ~child_exited
         /\ Ahead \cup (IF pc \in Reading THEN {cur} ELSE {}) \subseteq active_fd_set
    /\ \A f, g \in Fds : owner[f] = owner[g] /\ owner[f] \in Writers => f = g
    /\ \A c \in Writers : link[c] = "open" <=> \E fd \in Fds : owner[fd] = c

\* When voyeur_start() returns, nothing it opened is left open, except the
\* write end of the pipe when select() failed and waitpid_thread still waits,
\* and no process is left connected to a server that will never read.
NoLeak ==
    pc = "done" =>
        /\ \A fd \in Fds : \/ owner[fd] \in {"free", "app"}
                           \/ owner[fd] = "pipeIn" /\ wp # "ended"
        /\ \A c \in Writers : ~Connected(c)

\* voyeur_close_socket() should be called on descriptors of the library only.  At
\* worst the library closes one descriptor of another thread: the one that
\* took the listener's number between its two close() calls.
ForeignOnlyListener == foreign \subseteq {server_sock}

-----------------------------------------------------------------------------
(* What voyeur_start() returns, and when. *)

\* voyeur_start() returns only when the observed child has ended and the thread
\* that waits for it has said so.
ReturnsAfterExit ==
    pc \in {"shutdown", "stragglers", "done"} => child = "exited" /\ wp = "ended"

\* voyeur_start() returns the exit status of the child.
ReturnsExitStatus == pc = "done" => Result = ExitCode(status)

\* Every event that the child reported before it ended has been called back
\* when voyeur_start() returns.
ChildReported ==
    pc = "done" => \A w \in ChildWriters : \A n \in 1 .. nev[w] :
        (\E i \in DOMAIN stream[w] : stream[w][i] = Item(w, n, "BODY"))
        => \E i \in DOMAIN log : log[i] = <<w, n>>

-----------------------------------------------------------------------------
(* Liveness.  A process inside an interposer goes on as long as its writes  *)
(* do not block; nothing makes a process start, call an interposer or end.  *)

MidFrame(w) == WriteEventType(w) \/ WriteBody(w)

Fairness ==
    /\ WF_vars(ServerStep)
    /\ WF_vars(WaitpidStep)
    /\ \A w \in Writers : WF_vars(MidFrame(w))

FairSpec == Spec /\ Fairness

\* voyeur_start() returns once the child has ended.
Returns == child = "exited" ~> pc = "done"

\* An interposed call never blocks its process for ever on a full socket.
CallsReturn ==
    \A w \in Writers : wpc[w] \in {"type", "body"} ~> wpc[w] \in {"idle", "closed"}

\* An event sent in full is called back, unless the server stops first.
EventsArrive ==
    \A w \in Writers : \A n \in 1 .. MaxEvents[w] :
        Len(stream[w]) >= 3 * n
        ~> \/ \E i \in DOMAIN log : log[i] = <<w, n>>
           \/ pc \in {"shutdown", "stragglers", "done"}
=============================================================================
