-------------------------- MODULE ServerInvariants --------------------------
(***************************************************************************)
(* The inductive invariants behind the safety properties of               *)
(* ServerProperties.                                                       *)
(***************************************************************************)
EXTENDS ServerProperties

Scanning == {"scan"} \cup Reading
Looping == {"select"} \cup Scanning

\* Which numbers the three descriptors of the library have, and for how long.
\* waitpid_thread's end of the pipe is its own until it closes it.
OwnNumbers ==
    /\ server_sock # child_pipe_output
    /\ server_sock # child_pipe_input
    /\ child_pipe_output # child_pipe_input
    /\ \A fd \in Fds :
         /\ owner[fd] = "listen" => fd = server_sock
         /\ owner[fd] = "pipeOut" => fd = child_pipe_output
         /\ owner[fd] = "pipeIn" <=> fd = child_pipe_input /\ wp # "ended"
    /\ pc \in Looping \cup {"shutdown"} => owner[server_sock] = "listen"
    /\ pc \in Looping => (owner[child_pipe_output] = "pipeOut" <=> ~child_exited)

\* active_fd_set and what run_server has to wait for.  The listener's bit is
\* still set after its close().
ToWatch == {fd \in Fds : owner[fd] \in {"listen", "pipeOut"} \cup Writers}

ActiveSet ==
    /\ pc \in Looping \cup {"shutdown"} => active_fd_set = ToWatch
    /\ pc = "stragglers" => /\ ToWatch \subseteq active_fd_set
                            /\ active_fd_set \subseteq ToWatch \cup {server_sock}
    /\ pc = "done" => active_fd_set = {}
    /\ pc \in {"stragglers", "done"} => ~Listening
    /\ pc = "done" => ToWatch = {}

\* What is left of a scan is as select() found it: a number stays with its
\* connection, the listener has someone to accept, the pipe has not been closed,
\* and the descriptor being handled has been passed.
ScanSets ==
    /\ Ahead \subseteq active_fd_set
    /\ \A fd \in error_fd_set : owner[fd] \in Writers
    /\ pc \notin Scanning => Ahead = {}
    /\ server_sock \in read_fd_set => backlog # <<>>
    /\ child_exited => child_pipe_output \notin Ahead
    /\ pc = "select" => ~child_exited
    /\ pc \in Reading => cur \in Fds /\ owner[cur] \in Writers /\ cur \notin Ahead

\* A connection is queued once, or open under one number.
Connections ==
    /\ \A f, g \in Fds : owner[f] = owner[g] /\ owner[f] \in Writers => f = g
    /\ \A c \in Writers : link[c] = "open" <=> \E fd \in Fds : owner[fd] = c
    /\ \A i \in DOMAIN backlog : link[backlog[i]] = "queued"
    /\ \A i, j \in DOMAIN backlog : backlog[i] = backlog[j] => i = j
    /\ \A c \in Writers : link[c] = "queued" => Listening
    /\ \A w \in Writers : wpc[w] = "unborn" => link[w] = "none"

Descriptors == OwnNumbers /\ ActiveSet /\ ScanSets /\ Connections

DescriptorInv == TypeOK /\ Descriptors

\* No write to the pipe arrives, so that it becomes readable only when
\* waitpid_thread closes it; that thread waits for the child, and the loop for
\* that thread.
ExitOrder ==
    /\ pipe = <<>>
    /\ ~Signals => (wp # "waiting" => child = "exited")
    /\ child_pipe_output \in read_fd_set => wp = "ended"
    /\ child_exited => wp = "ended"
    /\ ~KernelErrors => (pc \notin Looping => child_exited)

-----------------------------------------------------------------------------
(* Where the two ends of a connection are in a frame of three items.        *)

\* The items that may come after as many as r more than whole frames.
KindsAt(r) == CASE r = 0 -> {"EVENT", "DONE"}
                [] r = 1 -> {"TYPE"}
                [] OTHER -> {"BODY"}

\* How many items of the current frame the writer of c has sent, and how many
\* run_server has read.
WritePhase == [idle |-> 0, type |-> 1, body |-> 2]
ReadPhase(c) == CASE pc = "evtype" /\ owner[cur] = c -> 1
                  [] pc = "body" /\ owner[cur] = c   -> 2
                  [] OTHER                           -> 0

\* What was sent on c is frames, as far as its writer has got, and run_server is
\* where it thinks to be in one, or has had the end of the file there.
Frames(c) ==
    /\ \A i \in DOMAIN stream[c] : stream[c][i].kind \in KindsAt((i - 1) % 3)
    /\ wpc[c] \in {"idle", "type", "body"} => Len(stream[c]) % 3 = WritePhase[wpc[c]]
    /\ \/ pos[c] % 3 = ReadPhase(c)
       \/ pos[c] = Len(stream[c]) /\ wpc[c] = "closed"

\* A connection of a process of its own carries frames; before it is made it
\* carries nothing, and a process that shares another one does not make it.
FrameState(c) ==
    /\ wpc[c] = "unborn" => sock[c] = c
    /\ sock[c] # c => link[c] = "none"
    /\ link[c] = "none" => stream[c] = <<>> /\ pos[c] = 0
    /\ Connected(c) /\ c \notin Mixed => Frames(c)

FrameInv == \A c \in Writers : FrameState(c)

-----------------------------------------------------------------------------
(* Events on their way from a writer to the callback. *)

\* The i-th item on c is the last of an event of w.
EndsEventOf(w, c, i) == stream[c][i].kind = "BODY" /\ stream[c][i].ev[1] = w

\* A writer writes to one connection, ends its events in order, and those it has
\* ended are behind the one it is in.
SentInOrder(w) ==
    /\ \A c \in Writers : \A i \in DOMAIN stream[c] :
         EndsEventOf(w, c, i) =>
             /\ c = sock[w]
             /\ wpc[w] # "unborn"
             /\ stream[c][i].ev[2] <= nev[w]
             /\ wpc[w] \in {"type", "body"} => stream[c][i].ev[2] < nev[w]
    /\ \A c \in Writers : \A i, j \in DOMAIN stream[c] :
         i < j /\ EndsEventOf(w, c, i) /\ EndsEventOf(w, c, j)
         => stream[c][i].ev[2] < stream[c][j].ev[2]

\* What was called back as an event has been read as the end of that event.
CalledBack == {log[i] : i \in DOMAIN log}
ReadToEnd(e) ==
    \E c \in Writers : \E i \in DOMAIN stream[c] :
        i <= pos[c] /\ stream[c][i].kind = "BODY" /\ stream[c][i].ev = e

AllReadToEnd == \A e \in CalledBack : e[2] > 0 => ReadToEnd(e)

CallbackInv ==
    /\ \A w \in Writers : SentInOrder(w)
    /\ AllReadToEnd
    /\ WriterOrder

-----------------------------------------------------------------------------
(* Whose first event is called back before whose. *)

FirstHeard(d) == pos[d] >= 3
Lost(d) == link[d] = "gone" /\ pos[d] < Len(stream[d])
Settled(d) == FirstHeard(d) \/ Lost(d)

\* The rest of this scan will read from c, or is doing so.
Coming(c) == \E fd \in Fds : /\ owner[fd] = c
                             /\ fd \in read_fd_set \/ (pc \in Reading /\ cur = fd)

QueuedBefore(d, c) == \E i, j \in DOMAIN backlog : j < i /\ backlog[i] = c /\ backlog[j] = d

\* c was made after d had sent its first event.  Until that is heard of, d is
\* ahead of c in the queue; then it is open, so that the scan in which c is accepted
\* reads from it, and c is not read from before the next scan.
Follows(c, d) ==
    /\ Len(stream[d]) >= 3
    /\ link[c] = "queued" => Settled(d) \/ link[d] = "open" \/ QueuedBefore(d, c)
    /\ link[c] = "open" => Settled(d) \/ (Coming(d) /\ ~Coming(c))
    /\ server_sock \in read_fd_set /\ Head(backlog) = c => Settled(d) \/ Coming(d)

\* DONE is the last item of a connection that a process has for itself, and an
\* accepted one had its turn in the queue.
EndsOnce(c) ==
    Connected(c) /\ c \notin Mixed =>
        \A i \in DOMAIN stream[c] :
            stream[c][i].kind = "DONE" => i = Len(stream[c]) /\ wpc[c] = "closed"

QueueComplete == \A c \in Writers : link[c] = "queued" => \E i \in DOMAIN backlog : backlog[i] = c
AllEndOnce == \A c \in Writers : EndsOnce(c)
AllFollow == \A c \in Writers : \A d \in seen[c] \ Mixed : Follows(c, d)

ScanOrder == QueueComplete /\ AllEndOnce /\ AllFollow

\* While the loop runs and select() reports no errors nothing unread is given up.
NothingLost ==
    ~KernelErrors => /\ error_fd_set = {}
                     /\ pc \in Looping => \A c \in Writers \ Mixed : ~Lost(c)

\* A first event that was read was called back, for a process that exists; and one
\* that shares another's connection has seen nothing of its own.
FirstLogged ==
    /\ \A i \in DOMAIN log : wpc[log[i][1]] # "unborn"
    /\ \A d \in Writers \ Mixed : FirstHeard(d) => \E j \in DOMAIN log : log[j][1] = d
    /\ \A w \in Writers : wpc[w] = "unborn" \/ sock[w] # w => seen[w] = {}
    /\ FirstEventOrder

-----------------------------------------------------------------------------
(* Connections that are never shared, as the abstract channel sees them. *)

\* The n-th event takes the items 3n - 2 to 3n.
Numbered(c) ==
    /\ sock[c] = c
    /\ wpc[c] = "unborn" => nev[c] = 0
    /\ \A i \in DOMAIN stream[c] : stream[c][i].kind = "BODY" => stream[c][i].ev = <<c, i \div 3>>
    /\ Connected(c) => /\ wpc[c] = "idle" => Len(stream[c]) = 3 * nev[c]
                       /\ wpc[c] = "type" => Len(stream[c]) = 3 * nev[c] - 2
                       /\ wpc[c] = "body" => Len(stream[c]) = 3 * nev[c] - 1
    /\ Channel!Delivered(c) = pos[c] \div 3

ChannelInv == \A c \in Writers : Numbered(c)
=============================================================================
