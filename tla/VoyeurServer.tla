---------------------------- MODULE VoyeurServer ----------------------------
(***************************************************************************)
(* The observing process of libvoyeur while voyeur_start() runs: the       *)
(* select() loop of run_server(), the detached thread that waits for the   *)
(* observed child, the descriptor table they share with the rest of the    *)
(* observer, and the instrumented processes that write to the server's     *)
(* Unix socket.                                                            *)
(*                                                                         *)
(* A writer is one interposer socket in one instrumented process, that is  *)
(* one static voyeur_*_sock or one short-lived socket of execve() or       *)
(* exit().  A connection is named by the writer that opened it.            *)
(***************************************************************************)
EXTENDS Integers, Sequences

CONSTANTS
    Writers,       \* interposer sockets of the instrumented processes
    ChildWriters,  \* those that live in the observed child itself
    Forks,         \* <<w, v>>: w's process may fork v's, which inherits w's socket
    NFds,          \* the observer's descriptors are 0 .. NFds - 1
    Layouts,       \* possible <<server_sock, pipe output, pipe input>>
    Statuses,      \* wait statuses the child may end with
    MaxEvents,     \* bound: events each writer reports
    BufCap,        \* capacity of a socket buffer, in wire items
    Backlog,       \* capacity of the listen queue
    KernelErrors,  \* select() may fail or report an exceptional condition
    Signals,       \* a signal handler without SA_RESTART may interrupt waitpid()
    AppBusy        \* other threads of the observer open, close and spawn

Fds == 0 .. NFds - 1

\* What a descriptor of the observer can refer to, besides a connection.
FdKinds == {"free", "app", "listen", "pipeOut", "pipeIn"}

\* RLIMIT_NOFILE is taken to be at most FD_SETSIZE, so that every descriptor
\* fits an fd_set.  A forked process is never the child itself.
ASSUME ServerAssumption ==
    /\ Writers \cap FdKinds = {}
    /\ ChildWriters \subseteq Writers
    /\ Forks \subseteq Writers \X (Writers \ ChildWriters)
    /\ NFds \in Nat
    /\ Layouts \subseteq {l \in Fds \X Fds \X Fds :
                            l[1] # l[2] /\ l[1] # l[3] /\ l[2] # l[3]}
    /\ Statuses \subseteq Nat
    /\ MaxEvents \in [Writers -> Nat]
    /\ BufCap \in Nat \ {0}
    /\ Backlog \in Nat \ {0}
    /\ KernelErrors \in BOOLEAN
    /\ Signals \in BOOLEAN
    /\ AppBusy \in BOOLEAN

VARIABLES
    \* the observed child and the waitpid thread
    child,           \* "running" or "exited"
    status,          \* the wait status the child ends with
    wp,              \* program counter of waitpid_thread
    pipe,            \* ints in the pipe from that thread to run_server
    held,            \* an unrelated process has inherited the end it writes to
    \* the instrumented processes
    wpc,             \* per writer: where it is in its life and in a frame
    sock,            \* per writer: the connection its descriptor refers to
    nev,             \* per writer: events begun
    seen,            \* history: connections with a complete first event when
                     \* this one was made
    \* the kernel
    link,            \* per connection: none, queued, open or gone
    stream,          \* per connection: every item ever sent on it
    pos,             \* per connection: how many of them the server has read
    backlog,         \* connections waiting to be accepted
    owner,           \* per descriptor of the observer: what it refers to
    foreign,         \* history: descriptors of the application the library closed
    \* run_server
    pc, server_sock, child_pipe_output, child_pipe_input,
    active_fd_set, read_fd_set, error_fd_set,
    cur,             \* the descriptor handle_message() works on, or -1
    child_exited, child_status,
    log              \* the callbacks made, in order: <<writer, number>>

childVars  == <<child, status>>
waitVars   == <<wp, pipe, held>>
writerVars == <<wpc, sock, nev, seen>>
connVars   == <<link, backlog>>
wireVars   == <<stream, pos>>
fdVars     == <<owner, foreign>>
constVars  == <<server_sock, child_pipe_output, child_pipe_input>>
selectVars == <<active_fd_set, read_fd_set, error_fd_set>>
exitVars   == <<child_exited, child_status>>
vars == <<childVars, waitVars, writerVars, connVars, wireVars, fdVars,
          constVars, selectVars, exitVars, pc, cur, log>>

-----------------------------------------------------------------------------
(* The wire.  An event is sent as a message type, an event type and the    *)
(* fields of the event, which stand here as one item; a connection ends    *)
(* with a message of type VOYEUR_MSG_DONE.                                 *)

ItemKinds == {"EVENT", "TYPE", "BODY", "DONE"}
Item(w, n, k) == [kind |-> k, ev |-> <<w, n>>]

\* An event callback made with data that no process sent as one event.
Garbled(c) == <<c, 0>>

Unread(c) == Len(stream[c]) - pos[c]
NextItem(c) == stream[c][pos[c] + 1]

\* While it is in one of these states a writer's process has its socket open.
Holding == {"idle", "type", "body", "stuck"}
Eof(c) == \A v \in Writers : sock[v] = c => wpc[v] \notin Holding

Connected(c) == link[c] \in {"queued", "open"}
Listening == \E fd \in Fds : owner[fd] = "listen"

-----------------------------------------------------------------------------
(* Descriptors. *)

FreeFds == {fd \in Fds : owner[fd] = "free"}

\* close(fd): the connection behind a socket is reset, and so are those still
\* queued on a listening socket; closing a number that is not open fails and
\* changes nothing.
CloseFd(fd) ==
    LET o == owner[fd] IN
    /\ owner' = [owner EXCEPT ![fd] = "free"]
    /\ foreign' = IF o = "app" THEN foreign \cup {fd} ELSE foreign
    /\ link' = [c \in Writers |->
                  IF c = o \/ (o = "listen" /\ link[c] = "queued")
                  THEN "gone" ELSE link[c]]
    /\ backlog' = IF o = "listen" THEN <<>> ELSE backlog

\* Another thread of the observer, or a callback, opens or closes a file.
AppOpen(fd) ==
    /\ AppBusy
    /\ fd \in FreeFds
    /\ \A g \in FreeFds : fd <= g
    /\ owner' = [owner EXCEPT ![fd] = "app"]
    /\ UNCHANGED <<childVars, waitVars, writerVars, connVars, wireVars, foreign,
                   constVars, selectVars, exitVars, pc, cur, log>>

AppClose(fd) ==
    /\ owner[fd] = "app"
    /\ owner' = [owner EXCEPT ![fd] = "free"]
    /\ UNCHANGED <<childVars, waitVars, writerVars, connVars, wireVars, foreign,
                   constVars, selectVars, exitVars, pc, cur, log>>

\* pipe() leaves close-on-exec unset: a process another thread of the observer
\* starts meanwhile has the pipe's write end too, for as long as it runs.
AppSpawn ==
    /\ AppBusy
    /\ ~held
    /\ owner[child_pipe_input] = "pipeIn"
    /\ held' = TRUE
    /\ UNCHANGED <<childVars, wp, pipe, writerVars, connVars, wireVars, fdVars,
                   constVars, selectVars, exitVars, pc, cur, log>>

AppReap ==
    /\ held
    /\ held' = FALSE
    /\ UNCHANGED <<childVars, wp, pipe, writerVars, connVars, wireVars, fdVars,
                   constVars, selectVars, exitVars, pc, cur, log>>

-----------------------------------------------------------------------------
(* The instrumented processes.                                             *)

\* voyeur_create_client_socket() connects, at once or on a retry.
Connect(w) ==
    /\ wpc[w] = "unborn"
    /\ Listening
    /\ Len(backlog) < Backlog
    /\ wpc' = [wpc EXCEPT ![w] = "idle"]
    /\ link' = [link EXCEPT ![w] = "queued"]
    /\ backlog' = Append(backlog, w)
    /\ seen' = [seen EXCEPT ![w] = {d \in Writers : Len(stream[d]) >= 3}]
    /\ UNCHANGED <<childVars, waitVars, sock, nev, wireVars, fdVars, constVars,
                   selectVars, exitVars, pc, cur, log>>

\* The last of its CONNECT_RETRIES attempts is refused too: nobody listens, or
\* the queue is full and the kernel refuses rather than blocks.  The descriptor
\* is returned all the same and every later send() on it fails.
ConnectFails(w) ==
    /\ wpc[w] = "unborn"
    /\ ~Listening \/ Len(backlog) >= Backlog
    /\ wpc' = [wpc EXCEPT ![w] = "idle"]
    /\ link' = [link EXCEPT ![w] = "gone"]
    /\ UNCHANGED <<childVars, waitVars, sock, nev, seen, backlog, wireVars, fdVars,
                   constVars, selectVars, exitVars, pc, cur, log>>

\* do_write(): blocks while the socket buffer is full, fails without effect
\* when the server's end is closed.
Send_Twice(w, item) ==
    LET c == sock[w] IN
    /\ Connected(c)
    /\ Unread(c) < BufCap
    /\ stream' = [stream EXCEPT ![c] = @ \o <<item, item>>]

Send(w, item) ==
    LET c == sock[w] IN
    \/ /\ Connected(c)
       /\ Unread(c) < BufCap
       /\ stream' = [stream EXCEPT ![c] = Append(@, item)]
    \/ /\ ~Connected(c)
       /\ UNCHANGED stream

\* One field of an event frame; the results of the writes are ignored.
WriteField(w, from, to, n, kind) ==
    /\ wpc[w] = from
    /\ wpc' = [wpc EXCEPT ![w] = to]
    /\ nev' = [nev EXCEPT ![w] = n]
    /\ Send(w, Item(w, n, kind))
    /\ UNCHANGED <<childVars, waitVars, sock, seen, connVars, pos, fdVars,
                   constVars, selectVars, exitVars, pc, cur, log>>

WriteMsgType(w) ==
    /\ nev[w] < MaxEvents[w]
    /\ WriteField(w, "idle", "type", nev[w] + 1, "EVENT")
WriteEventType(w) == WriteField(w, "type", "body", nev[w], "TYPE")
WriteBody(w)      == WriteField(w, "body", "idle", nev[w], "BODY")

\* The destructor, or the end of a one-shot report: MSG_DONE, then close().
WriteDone(w) == WriteField(w, "idle", "closed", nev[w], "DONE")

\* The process ends, or execs, without running its destructors.
Die(w) ==
    /\ wpc[w] \in Holding
    /\ wpc' = [wpc EXCEPT ![w] = "closed"]
    /\ UNCHANGED <<childVars, waitVars, sock, nev, seen, connVars, wireVars, fdVars,
                   constVars, selectVars, exitVars, pc, cur, log>>

\* fork() without exec: the new process holds a descriptor of the same
\* connection.  If another thread was inside the interposer its mutex stays
\* locked in the new process for ever.
Fork(w, v) ==
    /\ wpc[w] \in {"idle", "type", "body"}
    /\ wpc[v] = "unborn"
    /\ wpc' = [wpc EXCEPT ![v] = IF wpc[w] = "idle" THEN "idle" ELSE "stuck"]
    /\ sock' = [sock EXCEPT ![v] = sock[w]]
    /\ UNCHANGED <<childVars, waitVars, nev, seen, connVars, wireVars, fdVars,
                   constVars, selectVars, exitVars, pc, cur, log>>

\* The observed child ends; its sockets are closed with it.
ChildExit ==
    /\ child = "running"
    /\ child' = "exited"
    /\ wpc' = [w \in Writers |-> IF w \in ChildWriters THEN "closed" ELSE wpc[w]]
    /\ UNCHANGED <<status, waitVars, sock, nev, seen, connVars, wireVars, fdVars,
                   constVars, selectVars, exitVars, pc, cur, log>>

-----------------------------------------------------------------------------
(* waitpid_thread.                                                         *)

\* do_write() calls send(), which delivers to a socket and fails with ENOTSOCK
\* on anything else.
DoWrite(kind, buf, val) == IF kind = "socket" THEN Append(buf, val) ELSE buf

\* waitpid() returns.  Its result is not looked at: interrupted, it leaves an
\* int that was never set.
WaitpidReport_NoHang ==
    /\ wp = "waiting"
    /\ wp' = "reported"
    /\ pipe' = DoWrite("pipe", pipe, status)
    /\ UNCHANGED <<childVars, held, writerVars, connVars, wireVars, fdVars, constVars,
                   selectVars, exitVars, pc, cur, log>>

WaitpidReport ==
    /\ wp = "waiting"
    /\ wp' = "reported"
    /\ \/ /\ child = "exited"
          /\ pipe' = DoWrite("pipe", pipe, status)
       \/ /\ Signals
          /\ \E s \in Statuses : pipe' = DoWrite("pipe", pipe, s)
    /\ UNCHANGED <<childVars, held, writerVars, connVars, wireVars, fdVars, constVars,
                   selectVars, exitVars, pc, cur, log>>

WaitpidClose ==
    /\ wp = "reported"
    /\ wp' = "ended"
    /\ CloseFd(child_pipe_input)
    /\ UNCHANGED <<childVars, pipe, held, writerVars, wireVars, constVars, selectVars,
                   exitVars, pc, cur, log>>

-----------------------------------------------------------------------------
(* run_server: select().                                                   *)

Readable_NoHangup(fd) ==
    \/ owner[fd] = "listen" /\ backlog # <<>>
    \/ owner[fd] = "pipeOut" /\ pipe # <<>>
    \/ owner[fd] \in Writers /\ (Unread(owner[fd]) > 0 \/ Eof(owner[fd]))

Readable(fd) ==
    \/ owner[fd] = "listen" /\ backlog # <<>>
    \/ owner[fd] = "pipeOut" /\ (pipe # <<>> \/ (wp = "ended" /\ ~held))
    \/ owner[fd] \in Writers /\ (Unread(owner[fd]) > 0 \/ Eof(owner[fd]))

\* Only a socket of a client can have an exceptional condition.
Exceptional == IF KernelErrors
               THEN SUBSET {fd \in active_fd_set : owner[fd] \in Writers}
               ELSE {{}}

Select ==
    /\ pc = "select"
    /\ \E err \in Exceptional :
         /\ read_fd_set' = {fd \in active_fd_set : Readable(fd)}
         /\ error_fd_set' = err
         /\ read_fd_set' \cup err # {}
    /\ pc' = "scan"
    /\ UNCHANGED <<childVars, waitVars, writerVars, connVars, wireVars, fdVars,
                   constVars, active_fd_set, exitVars, cur, log>>

\* select() fails with anything but EAGAIN or EINTR: break.
SelectFails ==
    /\ KernelErrors
    /\ pc = "select"
    /\ pc' = "shutdown"
    /\ UNCHANGED <<childVars, waitVars, writerVars, connVars, wireVars, fdVars,
                   constVars, selectVars, exitVars, cur, log>>

-----------------------------------------------------------------------------
(* run_server: the scan over the descriptors.  read_fd_set and error_fd_set *)
(* hold what is still ahead of the scan, which goes upwards.                *)

Ahead == read_fd_set \cup error_fd_set

Visit(fd) ==
    /\ pc = "scan"
    /\ fd \in Ahead
    /\ \A g \in Ahead : fd <= g
    /\ read_fd_set' = read_fd_set \ {fd}
    /\ error_fd_set' = error_fd_set \ {fd}

DropErrored_NoClose(fd) ==
    /\ Visit(fd)
    /\ fd \in error_fd_set
    /\ active_fd_set' = active_fd_set \ {fd}
    /\ UNCHANGED <<childVars, waitVars, writerVars, connVars, wireVars, fdVars,
                   constVars, exitVars, pc, cur, log>>

DropErrored(fd) ==
    /\ Visit(fd)
    /\ fd \in error_fd_set
    /\ CloseFd(fd)
    /\ active_fd_set' = active_fd_set \ {fd}
    /\ UNCHANGED <<childVars, waitVars, writerVars, wireVars, constVars, exitVars,
                   pc, cur, log>>

\* accept() makes a descriptor for the connection at the head of the queue.
AcceptAs(new) ==
    /\ \A g \in FreeFds : new <= g
    /\ owner' = [owner EXCEPT ![new] = Head(backlog)]
    /\ link' = [link EXCEPT ![Head(backlog)] = "open"]
    /\ backlog' = Tail(backlog)
    /\ UNCHANGED foreign

Accept_SameScan(fd) ==
    /\ pc = "scan"
    /\ fd = server_sock
    /\ fd \in read_fd_set
    /\ \A g \in Ahead : fd <= g
    /\ \E new \in FreeFds :
         /\ AcceptAs(new)
         /\ active_fd_set' = active_fd_set \cup {new}
         /\ read_fd_set' = (read_fd_set \ {fd})
                           \cup {n \in {new} : new > fd /\ Unread(Head(backlog)) > 0}
    /\ UNCHANGED <<childVars, waitVars, writerVars, wireVars, constVars, error_fd_set,
                   exitVars, pc, cur, log>>

Accept_NotWatched(fd) ==
    /\ Visit(fd)
    /\ fd \notin error_fd_set
    /\ fd = server_sock
    /\ \E new \in FreeFds : AcceptAs(new)
    /\ UNCHANGED <<childVars, waitVars, writerVars, wireVars, constVars,
                   active_fd_set, exitVars, pc, cur, log>>

\* accept_connection(): at most one connection per scan, read from the next on.
Accept(fd) ==
    /\ Visit(fd)
    /\ fd \notin error_fd_set
    /\ fd = server_sock
    /\ \E new \in FreeFds :
         /\ AcceptAs(new)
         /\ active_fd_set' = active_fd_set \cup {new}
    /\ UNCHANGED <<childVars, waitVars, writerVars, wireVars, constVars, exitVars,
                   pc, cur, log>>

\* accept() fails with EMFILE and leaves the queue as it is.
AcceptFails(fd) ==
    /\ Visit(fd)
    /\ fd \notin error_fd_set
    /\ fd = server_sock
    /\ FreeFds = {}
    /\ UNCHANGED <<childVars, waitVars, writerVars, connVars, wireVars, fdVars,
                   constVars, active_fd_set, exitVars, pc, cur, log>>

\* The other end of the pipe was closed.  A failed read leaves child_status 0.
ChildPipe_NoClr(fd) ==
    /\ Visit(fd)
    /\ fd \notin error_fd_set
    /\ fd # server_sock
    /\ fd = child_pipe_output
    /\ child_exited' = TRUE
    /\ CloseFd(fd)
    /\ UNCHANGED <<childVars, waitVars, writerVars, wireVars, constVars,
                   active_fd_set, child_status, pc, cur, log>>

ChildPipe(fd) ==
    /\ Visit(fd)
    /\ fd \notin error_fd_set
    /\ fd # server_sock
    /\ fd = child_pipe_output
    /\ child_exited' = TRUE
    /\ child_status' = IF pipe # <<>> THEN Head(pipe) ELSE child_status
    /\ pipe' = IF pipe # <<>> THEN Tail(pipe) ELSE pipe
    /\ CloseFd(fd)
    /\ active_fd_set' = active_fd_set \ {fd}
    /\ UNCHANGED <<childVars, wp, held, writerVars, wireVars, constVars, pc, cur, log>>

StartMessage(fd) ==
    /\ Visit(fd)
    /\ fd \notin error_fd_set
    /\ fd # server_sock
    /\ fd # child_pipe_output
    /\ pc' = "msgtype"
    /\ cur' = fd
    /\ UNCHANGED <<childVars, waitVars, writerVars, connVars, wireVars, fdVars,
                   constVars, active_fd_set, exitVars, log>>

EndScan ==
    /\ pc = "scan"
    /\ Ahead = {}
    /\ pc' = IF child_exited THEN "shutdown" ELSE "select"
    /\ UNCHANGED <<childVars, waitVars, writerVars, connVars, wireVars, fdVars,
                   constVars, selectVars, exitVars, cur, log>>

-----------------------------------------------------------------------------
(* handle_message.  Each read blocks until an item or the end of file is   *)
(* there.                                                                  *)

Conn == owner[cur]

ReadsItem_Peek(kinds) ==
    /\ Unread(Conn) > 0
    /\ NextItem(Conn).kind \in kinds
    /\ pos' \in {pos, [pos EXCEPT ![Conn] = @ + 1]}

ReadsItem(kinds) ==
    /\ Unread(Conn) > 0
    /\ NextItem(Conn).kind \in kinds
    /\ pos' = [pos EXCEPT ![Conn] = @ + 1]

ReadsEof_AsData ==
    /\ Unread(Conn) = 0
    /\ Eof(Conn)
    /\ pos' = [pos EXCEPT ![Conn] = @ + 1]

ReadsEof ==
    /\ Unread(Conn) = 0
    /\ Eof(Conn)
    /\ UNCHANGED pos

\* handle_message() returned -1: run_server closes the connection.
EndConnection_NoClr ==
    /\ CloseFd(cur)
    /\ pc' = "scan"
    /\ cur' = -1
    /\ UNCHANGED active_fd_set

EndConnection ==
    /\ CloseFd(cur)
    /\ active_fd_set' = active_fd_set \ {cur}
    /\ pc' = "scan"
    /\ cur' = -1

\* It returned 0: run_server goes on with the next descriptor.
NextFd ==
    /\ pc' = "scan"
    /\ cur' = -1
    /\ UNCHANGED <<connVars, fdVars, active_fd_set>>

\* The fields of the current message go on.
NextField(to) ==
    /\ pc' = to
    /\ UNCHANGED <<connVars, fdVars, active_fd_set, cur>>

\* Bytes read as a message type that were written as something else may
\* happen to be either message type, or neither.
ReadMsgType ==
    /\ pc = "msgtype"
    /\ \/ ReadsEof /\ EndConnection
       \/ ReadsItem({"DONE"}) /\ EndConnection
       \/ ReadsItem({"EVENT"}) /\ NextField("evtype")
       \/ ReadsItem({"TYPE", "BODY"}) /\ (EndConnection \/ NextField("evtype"))
    /\ UNCHANGED <<childVars, waitVars, writerVars, stream, constVars, read_fd_set,
                   error_fd_set, exitVars, log>>

\* voyeur_handle_event() ignores an event type it does not know.
ReadEventType ==
    /\ pc = "evtype"
    /\ \/ ReadsEof /\ EndConnection
       \/ ReadsItem({"TYPE"}) /\ NextField("body")
       \/ ReadsItem({"EVENT", "BODY", "DONE"}) /\ (NextFd \/ NextField("body"))
    /\ UNCHANGED <<childVars, waitVars, writerVars, stream, constVars, read_fd_set,
                   error_fd_set, exitVars, log>>

\* A handle_*() function reads the fields and calls the callback.  When a read
\* fails it returns early and the connection stays in active_fd_set.  Fields
\* that were written as something else make a callback with that data, or a
\* length that asks for more.
HandleEvent_NotReadWithoutCallback ==
    /\ pc = "body"
    /\ NextFd
    /\ UNCHANGED pos
    /\ UNCHANGED <<childVars, waitVars, writerVars, stream, constVars, read_fd_set,
                   error_fd_set, exitVars, log>>

HandleEvent_IgnoresFailure ==
    /\ pc = "body"
    /\ ReadsItem({"BODY"}) \/ ReadsEof
    /\ NextFd
    /\ log' = Append(log, <<Conn, nev[Conn]>>)
    /\ UNCHANGED <<childVars, waitVars, writerVars, stream, constVars, read_fd_set,
                   error_fd_set, exitVars>>

HandleEvent ==
    /\ pc = "body"
    /\ \/ ReadsEof /\ NextFd /\ UNCHANGED log
       \/ /\ ReadsItem({"BODY"})
          /\ NextFd
          /\ log' = Append(log, NextItem(Conn).ev)
       \/ /\ ReadsItem({"EVENT", "TYPE", "DONE"})
          /\ \/ NextFd /\ log' = Append(log, Garbled(Conn))
             \/ NextField("body") /\ UNCHANGED log
    /\ UNCHANGED <<childVars, waitVars, writerVars, stream, constVars, read_fd_set,
                   error_fd_set, exitVars>>

-----------------------------------------------------------------------------
(* run_server: the end.                                                    *)

CloseListener ==
    /\ pc = "shutdown"
    /\ CloseFd(server_sock)
    /\ pc' = "stragglers"
    /\ UNCHANGED <<childVars, waitVars, writerVars, wireVars, constVars, selectVars,
                   exitVars, cur, log>>

\* "Clean up any stragglers": close what is in active_fd_set, upwards.
CloseStraggler_NoClose(fd) ==
    /\ pc = "stragglers"
    /\ fd \in active_fd_set
    /\ active_fd_set' = active_fd_set \ {fd}
    /\ UNCHANGED <<childVars, waitVars, writerVars, connVars, wireVars, fdVars,
                   constVars, read_fd_set, error_fd_set, exitVars, pc, cur, log>>

CloseStraggler(fd) ==
    /\ pc = "stragglers"
    /\ fd \in active_fd_set
    /\ \A g \in active_fd_set : fd <= g
    /\ CloseFd(fd)
    /\ active_fd_set' = active_fd_set \ {fd}
    /\ UNCHANGED <<childVars, waitVars, writerVars, wireVars, constVars, read_fd_set,
                   error_fd_set, exitVars, pc, cur, log>>

Return ==
    /\ pc = "stragglers"
    /\ active_fd_set = {}
    /\ pc' = "done"
    /\ UNCHANGED <<childVars, waitVars, writerVars, connVars, wireVars, fdVars,
                   constVars, selectVars, exitVars, cur, log>>

WIFEXITED(s) == s % 128 = 0
WEXITSTATUS(s) == (s \div 256) % 256
ExitCode(s) == IF WIFEXITED(s) THEN WEXITSTATUS(s) ELSE -1

\* What voyeur_start() returns.
Result == ExitCode(child_status)

-----------------------------------------------------------------------------
Init ==
    /\ child = "running"
    /\ status \in Statuses
    /\ wp = "waiting"
    /\ pipe = <<>>
    /\ held = FALSE
    /\ wpc = [w \in Writers |-> "unborn"]
    /\ sock = [w \in Writers |-> w]
    /\ nev = [w \in Writers |-> 0]
    /\ seen = [w \in Writers |-> {}]
    /\ link = [c \in Writers |-> "none"]
    /\ stream = [c \in Writers |-> <<>>]
    /\ pos = [c \in Writers |-> 0]
    /\ backlog = <<>>
    /\ foreign = {}
    /\ \E l \in Layouts :
         /\ server_sock = l[1]
         /\ child_pipe_output = l[2]
         /\ child_pipe_input = l[3]
    /\ owner = [fd \in Fds |-> CASE fd = server_sock       -> "listen"
                                 [] fd = child_pipe_output -> "pipeOut"
                                 [] fd = child_pipe_input  -> "pipeIn"
                                 [] OTHER                  -> "free"]
    /\ pc = "select"
    /\ active_fd_set = {server_sock, child_pipe_output}
    /\ read_fd_set = {}
    /\ error_fd_set = {}
    /\ cur = -1
    /\ child_exited = FALSE
    /\ child_status = 0
    /\ log = <<>>

WriterStep(w) ==
    \/ Connect(w)
    \/ ConnectFails(w)
    \/ WriteMsgType(w)
    \/ WriteEventType(w)
    \/ WriteBody(w)
    \/ WriteDone(w)
    \/ Die(w)

WaitpidStep == WaitpidReport \/ WaitpidClose

ScanStep(fd) ==
    \/ DropErrored(fd)
    \/ Accept(fd)
    \/ AcceptFails(fd)
    \/ ChildPipe(fd)
    \/ StartMessage(fd)
    \/ CloseStraggler(fd)

ServerStep ==
    \/ Select
    \/ SelectFails
    \/ \E fd \in Fds : ScanStep(fd)
    \/ EndScan
    \/ ReadMsgType
    \/ ReadEventType
    \/ HandleEvent
    \/ CloseListener
    \/ Return

AppStep ==
    \/ \E fd \in Fds : AppOpen(fd) \/ AppClose(fd)
    \/ AppSpawn
    \/ AppReap

\* After voyeur_start() has returned there is nothing left to do.
Returned == pc = "done" /\ UNCHANGED vars

Next ==
    \/ \E w \in Writers : WriterStep(w)
    \/ \E f \in Forks : Fork(f[1], f[2])
    \/ ChildExit
    \/ WaitpidStep
    \/ ServerStep
    \/ AppStep
    \/ Returned

Spec == Init /\ [][Next]_vars
=============================================================================
