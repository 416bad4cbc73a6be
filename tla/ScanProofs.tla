------------------------------ MODULE ScanProofs ------------------------------
(***************************************************************************)
(* The order of callbacks across connections, for every value of the       *)
(* constants of VoyeurServer.                                              *)
(*                                                                         *)
(* A process's first event is called back after the first events that were *)
(* complete before it connected: the order of the queue, of the scans and  *)
(* of the reads in one scan never let a later connection overtake an       *)
(* earlier one.  And where no connection is shared, VoyeurServer           *)
(* implements EventChannel.                                                *)
(***************************************************************************)
EXTENDS FrameProofs, FiniteSetTheorems

USE DEF childVars, waitVars, writerVars, connVars, wireVars, fdVars, constVars,
        selectVars, exitVars

-----------------------------------------------------------------------------
(* What cannot be undone. *)

\* Nothing is read or sent on a connection that is gone, and what was read of
\* the others stays read: a settled connection stays settled.
LEMMA SettledStays ==
  ASSUME TypeOK, NEW d \in Writers, Settled(d),
         pos'[d] \in Nat, pos[d] <= pos'[d],
         link[d] = "gone" => link'[d] = "gone" /\ pos'[d] = pos[d] /\ stream'[d] = stream[d]
  PROVE  Settled(d)'
  BY DEF TypeOK, WireTypes, Settled, FirstHeard, Lost

\* A shared connection stays a shared one unless sockets change.
LEMMA SameMixed == ASSUME UNCHANGED sock PROVE Mixed' = Mixed
  BY DEF Mixed

\* A connection that is closed after its first event was sent is settled.
LEMMA ClosedSettled ==
  ASSUME NEW d \in Writers, Len(stream'[d]) \in Nat, Len(stream'[d]) >= 3,
         pos'[d] \in Nat, link'[d] = "gone"
  PROVE  Settled(d)'
  BY DEF Settled, FirstHeard, Lost

\* What every step but connect(), select() and accept() does to those that wait: it
\* settles whatever it takes out of a scan, and makes nobody readable.
LEMMA ScanOn ==
  ASSUME TypeOK, AllFollow, UNCHANGED <<seen, server_sock>>,
         \A x \in Writers : x \in Mixed => x \in Mixed',
         server_sock \in read_fd_set' => server_sock \in read_fd_set /\ UNCHANGED backlog,
         \A x \in Writers :
             /\ pos'[x] \in Nat /\ pos[x] <= pos'[x]
             /\ Len(stream'[x]) \in Nat /\ Len(stream[x]) <= Len(stream'[x])
             /\ link[x] = "gone" => /\ link'[x] = "gone"
                                    /\ pos'[x] = pos[x] /\ stream'[x] = stream[x],
         \A x \in Writers : link'[x] \in {"queued", "open"} => link'[x] = link[x],
         \A x \in Writers : link'[x] = "queued" => UNCHANGED backlog,
         \A x \in Writers : Coming(x)' => Coming(x),
         \A x \in Writers \ Mixed :
             Len(stream[x]) >= 3 /\ link[x] = "open" /\ link'[x] # "open" => Settled(x)',
         \A x \in Writers \ Mixed :
             Len(stream[x]) >= 3 /\ Coming(x) => Settled(x)' \/ Coming(x)'
  PROVE  AllFollow'
<1> SUFFICES ASSUME NEW c \in Writers, NEW d \in seen[c], d \notin Mixed, d \in Writers
             PROVE  Follows(c, d)'
  BY DEF AllFollow, TypeOK, ProcessTypes
<1>1. Follows(c, d)
  BY DEF AllFollow
<1>2. Settled(d) => Settled(d)'
  BY SettledStays
<1>3. Len(stream'[d]) >= 3
  BY <1>1 DEF Follows, TypeOK, WireTypes
<1>4. link'[c] = "queued" => Settled(d)' \/ link'[d] = "open" \/ QueuedBefore(d, c)'
  BY <1>1, <1>2 DEF Follows, QueuedBefore
<1>5. link'[c] = "open" => Settled(d)' \/ (Coming(d)' /\ ~Coming(c)')
  BY <1>1, <1>2 DEF Follows
<1>6. server_sock' \in read_fd_set' /\ Head(backlog') = c => Settled(d)' \/ Coming(d)'
  BY <1>1, <1>2 DEF Follows
<1> QED
  BY <1>3, <1>4, <1>5, <1>6 DEF Follows

\* What nobody changes by opening and closing descriptors of other kinds.
LEMMA SameComing ==
  ASSUME UNCHANGED <<read_fd_set, pc, cur>>,
         \A fd \in Fds : \A x \in Writers : owner'[fd] = x <=> owner[fd] = x
  PROVE  \A x \in Writers : Coming(x)' <=> Coming(x)
  BY DEF Coming

-----------------------------------------------------------------------------
(* The other processes and threads. *)

\* A step outside of run_server that connects nobody.
LEMMA OutsideFollow ==
  ASSUME TypeOK, AllFollow,
         UNCHANGED <<seen, server_sock, backlog, pos, read_fd_set, pc, cur>>,
         \A x \in Writers : x \in Mixed => x \in Mixed',
         \A fd \in Fds : \A x \in Writers : owner'[fd] = x <=> owner[fd] = x,
         \A x \in Writers : link'[x] = link[x] \/ (link[x] = "none" /\ link'[x] = "gone"),
         \A x \in Writers : \/ stream'[x] = stream[x]
                            \/ /\ Connected(x)
                               /\ \E item \in Items : stream'[x] = Append(stream[x], item)
  PROVE  AllFollow'
<1>1. \A x \in Writers : Coming(x)' <=> Coming(x)
  BY SameComing
<1>2. \A x \in Writers : Len(stream'[x]) \in Nat /\ Len(stream[x]) <= Len(stream'[x])
  <2> SUFFICES ASSUME NEW x \in Writers
               PROVE  Len(stream'[x]) \in Nat /\ Len(stream[x]) <= Len(stream'[x])
    OBVIOUS
  <2>1. stream[x] \in Seq(Items) /\ Len(stream[x]) \in Nat
    BY DEF TypeOK, WireTypes
  <2>2. ASSUME NEW item \in Items, stream'[x] = Append(stream[x], item)
        PROVE  Len(stream'[x]) = Len(stream[x]) + 1
    BY <2>1, <2>2
  <2> QED
    BY <2>1, <2>2
<1>3. \A x \in Writers : link[x] = "gone" => link'[x] = "gone" /\ stream'[x] = stream[x]
  BY DEF Connected
<1>4. \A x \in Writers : pos[x] \in Nat
  BY DEF TypeOK, WireTypes
<1> QED
  BY <1>1, <1>2, <1>3, <1>4, ScanOn

\* fork() only makes more connections shared ones.
LEMMA ForkMixes ==
  ASSUME DescriptorInv, FrameInv, NEW w \in Writers, NEW v \in Writers, Fork(w, v)
  PROVE  \A x \in Writers : x \in Mixed => x \in Mixed'
<1>1. sock' = [sock EXCEPT ![v] = sock[w]] /\ sock[v] = v /\ sock \in [Writers -> Writers]
  BY DEF Fork, FrameInv, FrameState, DescriptorInv, TypeOK, ProcessTypes
<1> SUFFICES ASSUME NEW x \in Writers, NEW u \in Writers \ {x}, sock[u] = x
             PROVE  \E y \in Writers \ {x} : sock'[y] = x
  BY DEF Mixed
<1>2. sock'[u] = x
  BY <1>1
<1> QED
  BY <1>2

\* A descriptor is opened or closed that is not a connection's.
LEMMA PlainOwner ==
  ASSUME TypeOK, NEW fd \in Fds, NEW k \in FdKinds, owner[fd] \in FdKinds,
         owner' = [owner EXCEPT ![fd] = k]
  PROVE  \A g \in Fds : \A x \in Writers : owner'[g] = x <=> owner[g] = x
<1>1. \A g \in Fds : owner'[g] = IF g = fd THEN k ELSE owner[g]
  BY DEF TypeOK, DescriptorTypes
<1> QED
  BY <1>1, ServerAssumption

\* Every step outside of run_server but connect().
LEMMA OthersFollow ==
  ASSUME DescriptorInv, FrameInv, AllFollow,
         \/ \E w \in Writers : WriterStep(w) /\ ~Connect(w)
         \/ \E f \in Forks : Fork(f[1], f[2])
         \/ ChildExit \/ WaitpidStep \/ AppStep \/ UNCHANGED vars
  PROVE  AllFollow'
<1>1. TypeOK
  BY DEF DescriptorInv
<1>2. ASSUME NEW w \in Writers, WriterStep(w), ~Connect(w) PROVE AllFollow'
  <2>1. UNCHANGED <<sock, seen, server_sock, backlog, pos, read_fd_set, pc, cur, owner>>
    BY <1>2 DEF WriterStep, ConnectFails, WriteMsgType, WriteEventType, WriteBody, WriteDone,
                WriteField, Die
  <2>2. \A x \in Writers : link'[x] = link[x] \/ (link[x] = "none" /\ link'[x] = "gone")
    <3>1. CASE ConnectFails(w)
      <4>1. link[w] = "none" /\ link' = [link EXCEPT ![w] = "gone"]
        BY <3>1 DEF ConnectFails, DescriptorInv, Descriptors, Connections
      <4> QED
        BY <1>1, <4>1 DEF TypeOK, DescriptorTypes
    <3>2. CASE ~ConnectFails(w)
      BY <1>2, <3>2 DEF WriterStep, WriteMsgType, WriteEventType, WriteBody, WriteDone,
                        WriteField, Die
    <3> QED
      BY <3>1, <3>2
  <2>3. \A x \in Writers : \/ stream'[x] = stream[x]
                           \/ /\ Connected(x)
                              /\ \E item \in Items : stream'[x] = Append(stream[x], item)
    <3>1. CASE ConnectFails(w) \/ Die(w)
      BY <3>1 DEF ConnectFails, Die
    <3>2. ASSUME NEW from, NEW to, NEW n \in Nat, NEW kind \in ItemKinds,
                 WriteField(w, from, to, n, kind)
          PROVE  \A x \in Writers :
                    \/ stream'[x] = stream[x]
                    \/ /\ Connected(x)
                       /\ \E item \in Items : stream'[x] = Append(stream[x], item)
      <4>1. Item(w, n, kind) \in Items /\ sock[w] \in Writers
            /\ stream \in [Writers -> Seq(Items)]
        BY <1>1 DEF Item, Items, TypeOK, ProcessTypes, WireTypes
      <4> QED
        BY <3>2, <4>1 DEF WriteField, Send
    <3>3. nev[w] \in Nat /\ nev[w] + 1 \in Nat
      BY <1>1 DEF TypeOK, ProcessTypes
    <3>4. CASE WriteMsgType(w) \/ WriteEventType(w) \/ WriteBody(w) \/ WriteDone(w)
      BY <3>2, <3>3, <3>4 DEF WriteMsgType, WriteEventType, WriteBody, WriteDone, ItemKinds
    <3> QED
      BY <1>2, <3>1, <3>4 DEF WriterStep
  <2> QED
    BY <1>1, <2>1, <2>2, <2>3, SameMixed, OutsideFollow
<1>3. ASSUME NEW f \in Forks, Fork(f[1], f[2]) PROVE AllFollow'
  <2>1. f[1] \in Writers /\ f[2] \in Writers
    BY ServerAssumption
  <2> QED
    BY <1>1, <1>3, <2>1, ForkMixes, OutsideFollow DEF Fork
<1>4. CASE ChildExit
  BY <1>1, <1>4, SameMixed, OutsideFollow DEF ChildExit
<1>5. CASE WaitpidReport \/ AppSpawn \/ AppReap \/ UNCHANGED vars
  <2>1. UNCHANGED <<writerVars, connVars, wireVars, owner, server_sock, read_fd_set, pc, cur>>
    BY <1>5 DEF WaitpidReport, AppSpawn, AppReap, vars
  <2> QED
    BY <1>1, <2>1, SameMixed, OutsideFollow
<1>6. CASE WaitpidClose
  <2>1. owner[child_pipe_input] = "pipeIn" /\ child_pipe_input \in Fds
    BY <1>6 DEF WaitpidClose, DescriptorInv, Descriptors, OwnNumbers, TypeOK, DescriptorTypes
  <2>2. \A fd \in Fds : \A x \in Writers : owner'[fd] = x <=> owner[fd] = x
    BY <1>1, <1>6, <2>1, PlainOwner DEF WaitpidClose, CloseFd, FdKinds
  <2>3. link' = link /\ backlog' = backlog
    BY <1>1, <1>6, <2>1, WritersAreNotKinds, CloseFdPlain DEF WaitpidClose
  <2> QED
    BY <1>1, <1>6, <2>2, <2>3, SameMixed, OutsideFollow DEF WaitpidClose
<1>7. ASSUME NEW fd \in Fds, AppOpen(fd) \/ AppClose(fd) PROVE AllFollow'
  <2>1. \A g \in Fds : \A x \in Writers : owner'[g] = x <=> owner[g] = x
    BY <1>1, <1>7, PlainOwner DEF AppOpen, AppClose, FreeFds, FdKinds
  <2> QED
    BY <1>1, <1>7, <2>1, SameMixed, OutsideFollow DEF AppOpen, AppClose
<1> QED
  BY <1>2, <1>3, <1>4, <1>5, <1>6, <1>7 DEF WaitpidStep, AppStep

\* connect(): those that had sent their first event are in the queue before it, are
\* open, or are settled.
LEMMA ConnectFollow ==
  ASSUME DescriptorInv, FrameInv, QueueComplete, AllFollow, NEW w \in Writers, Connect(w)
  PROVE  AllFollow'
<1>1. /\ UNCHANGED <<sock, stream, pos, pc, cur, owner, read_fd_set, server_sock>>
      /\ link' = [link EXCEPT ![w] = "queued"]
      /\ backlog' = Append(backlog, w)
      /\ seen' = [seen EXCEPT ![w] = {d \in Writers : Len(stream[d]) >= 3}]
      /\ link[w] = "none"
  BY DEF Connect, DescriptorInv, Descriptors, Connections
<1>2. /\ link \in [Writers -> {"none", "queued", "open", "gone"}]
      /\ seen \in [Writers -> SUBSET Writers]
      /\ backlog \in Seq(Writers)
      /\ \A d \in Writers : pos[d] \in Nat /\ Len(stream[d]) \in Nat
  BY DEF DescriptorInv, TypeOK, DescriptorTypes, ProcessTypes, WireTypes
<1>3. Mixed' = Mixed
  BY <1>1, SameMixed
<1>4. \A d \in Writers : Coming(d)' <=> Coming(d)
  BY <1>1, SameComing
<1>5. /\ DOMAIN backlog' = DOMAIN backlog \cup {Len(backlog) + 1}
      /\ \A i \in DOMAIN backlog : backlog'[i] = backlog[i] /\ i < Len(backlog) + 1
      /\ backlog'[Len(backlog) + 1] = w
  BY <1>1, <1>2
<1>6. /\ link'[w] = "queued"
      /\ \A x \in Writers \ {w} : link'[x] = link[x] /\ seen'[x] = seen[x]
      /\ seen'[w] = {d \in Writers : Len(stream[d]) >= 3}
  BY <1>1, <1>2
<1>7. Len(stream[w]) = 0
  BY <1>1 DEF FrameInv, FrameState
<1>8. server_sock \in read_fd_set => Head(backlog') = Head(backlog) /\ Head(backlog) # w
  <2> SUFFICES ASSUME server_sock \in read_fd_set
               PROVE  Head(backlog') = Head(backlog) /\ Head(backlog) # w
    OBVIOUS
  <2>1. backlog # <<>>
    BY DEF DescriptorInv, Descriptors, ScanSets
  <2>2. Head(backlog) = backlog[1] /\ 1 \in DOMAIN backlog /\ Head(backlog') = backlog'[1]
    BY <1>1, <1>2, <2>1
  <2>3. link[backlog[1]] = "queued"
    BY <2>2 DEF DescriptorInv, Descriptors, Connections
  <2> QED
    BY <1>1, <1>5, <2>2, <2>3
<1> SUFFICES ASSUME NEW c \in Writers, NEW d \in seen'[c], d \notin Mixed, d \in Writers
             PROVE  Follows(c, d)'
  BY <1>2, <1>3, <1>6 DEF AllFollow
<1>9. Settled(d) <=> Settled(d)'
  <2>1. d # w => Lost(d)' = Lost(d)
    BY <1>1, <1>6 DEF Lost
  <2>2. ~Lost(w) /\ ~Lost(w)'
    BY <1>1, <1>6 DEF Lost
  <2>3. FirstHeard(d)' = FirstHeard(d)
    BY <1>1 DEF FirstHeard
  <2> QED
    BY <2>1, <2>2, <2>3 DEF Settled
<1>10. CASE c = w
  <2>1. Len(stream[d]) >= 3 /\ d # w
    BY <1>2, <1>6, <1>7, <1>10
  <2>2. link[d] # "none"
    BY <2>1 DEF FrameInv, FrameState
  <2>3. link[d] = "gone" => Settled(d)
    BY <1>2, <2>1 DEF Settled, FirstHeard, Lost
  <2>4. link[d] = "queued" => QueuedBefore(d, w)'
    <3> SUFFICES ASSUME link[d] = "queued" PROVE QueuedBefore(d, w)'
      OBVIOUS
    <3>1. PICK j \in DOMAIN backlog : backlog[j] = d
      BY DEF QueueComplete
    <3> QED
      BY <1>5, <3>1 DEF QueuedBefore
  <2>5. link[d] = "open" => link'[d] = "open"
    BY <1>6, <2>1
  <2>6. link[d] \in {"none", "queued", "open", "gone"}
    BY <1>2
  <2> QED
    BY <1>1, <1>6, <1>8, <1>9, <1>10, <2>1, <2>2, <2>3, <2>4, <2>5, <2>6 DEF Follows
<1>11. CASE c # w
  <2>1. Follows(c, d)
    BY <1>3, <1>6, <1>11 DEF AllFollow
  <2>2. d # w
    BY <1>7, <2>1 DEF Follows
  <2>3. QueuedBefore(d, c) => QueuedBefore(d, c)'
    BY <1>5 DEF QueuedBefore
  <2> QED
    BY <1>1, <1>4, <1>6, <1>8, <1>9, <1>11, <2>1, <2>2, <2>3 DEF Follows
<1> QED
  BY <1>10, <1>11

-----------------------------------------------------------------------------
(* The loop between two messages. *)

\* Nothing is read from between two scans.
LEMMA NothingComing ==
  ASSUME ScanSets, pc \notin Scanning
  PROVE  \A x \in Writers : ~Coming(x)
  BY DEF ScanSets, Ahead, Coming, Scanning

\* select() finds everything readable that an open connection was sent.
LEMMA SelectFollow ==
  ASSUME DescriptorInv, AllFollow, Select
  PROVE  AllFollow'
<1>1. /\ UNCHANGED <<sock, seen, link, backlog, stream, pos, server_sock, owner>>
      /\ pc = "select" /\ pc' = "scan"
      /\ read_fd_set' = {fd \in active_fd_set : Readable(fd)}
  BY DEF Select
<1>2. \A x \in Writers : ~Coming(x)
  BY <1>1, NothingComing DEF DescriptorInv, Descriptors, Scanning, Reading
<1>3. Mixed' = Mixed
  BY <1>1, SameMixed
<1> SUFFICES ASSUME NEW c \in Writers, NEW d \in seen[c], d \notin Mixed, d \in Writers
             PROVE  Follows(c, d)'
  BY <1>1, <1>3 DEF AllFollow, DescriptorInv, TypeOK, ProcessTypes
<1>4. Follows(c, d)
  BY DEF AllFollow
<1>5. Settled(d) <=> Settled(d)'
  BY <1>1 DEF Settled, FirstHeard, Lost
<1>6. link[c] = "open" => Settled(d)
  BY <1>2, <1>4 DEF Follows
<1>7. link[d] = "open" => Settled(d) \/ Coming(d)'
  <2> SUFFICES ASSUME link[d] = "open", ~Settled(d) PROVE Coming(d)'
    OBVIOUS
  <2>1. PICK fd \in Fds : owner[fd] = d
    BY DEF DescriptorInv, Descriptors, Connections
  <2>2. fd \in active_fd_set
    BY <1>1, <2>1 DEF DescriptorInv, Descriptors, ActiveSet, ToWatch, Looping
  <2>3. pos[d] \in Nat /\ Len(stream[d]) \in Nat
    BY DEF DescriptorInv, TypeOK, WireTypes
  <2>4. Unread(d) > 0
    BY <1>4, <2>3 DEF Follows, Settled, FirstHeard, Unread
  <2>5. fd \in read_fd_set'
    BY <1>1, <2>1, <2>2, <2>4 DEF Readable
  <2> QED
    BY <1>1, <2>1, <2>5 DEF Coming
<1>8. server_sock' \in read_fd_set' /\ Head(backlog') = c => Settled(d)' \/ Coming(d)'
  <2> SUFFICES ASSUME server_sock \in read_fd_set', Head(backlog) = c
               PROVE  Settled(d) \/ link[d] = "open"
    BY <1>1, <1>5, <1>7
  <2>1. backlog # <<>> /\ backlog \in Seq(Writers)
    <3>1. Readable(server_sock) /\ owner[server_sock] = "listen"
      BY <1>1 DEF DescriptorInv, Descriptors, OwnNumbers, Looping
    <3> QED
      BY <3>1, WritersAreNotKinds DEF Readable, DescriptorInv, TypeOK, DescriptorTypes
  <2>2. 1 \in DOMAIN backlog /\ backlog[1] = c /\ \A i \in DOMAIN backlog : i \in Nat /\ i >= 1
    BY <2>1
  <2>3. link[c] = "queued"
    BY <2>2 DEF DescriptorInv, Descriptors, Connections
  <2>4. ~QueuedBefore(d, c)
    BY <2>2 DEF QueuedBefore, DescriptorInv, Descriptors, Connections
  <2> QED
    BY <1>4, <2>3, <2>4 DEF Follows
<1> QED
  BY <1>1, <1>4, <1>5, <1>6, <1>7, <1>8 DEF Follows, QueuedBefore

\* Steps that leave every connection where it is.
LEMMA LoopStays ==
  ASSUME TypeOK, AllFollow, UNCHANGED <<sock, seen, link, backlog, stream, server_sock>>,
         server_sock \in read_fd_set' => server_sock \in read_fd_set,
         \A x \in Writers : /\ pos'[x] \in Nat /\ pos[x] <= pos'[x]
                            /\ link[x] = "gone" => pos'[x] = pos[x],
         \A x \in Writers : Coming(x)' <=> Coming(x)
  PROVE  AllFollow'
<1>1. \A x \in Writers : Len(stream[x]) \in Nat
  BY DEF TypeOK, WireTypes
<1> QED
  BY <1>1, SameMixed, ScanOn

\* A connection is closed: if a first event was to be read from it, it is lost.
LEMMA CloseFollow ==
  ASSUME DescriptorInv, AllFollow, NEW fd \in Fds, CloseFd(fd), owner[fd] # "listen",
         UNCHANGED <<sock, seen, stream, server_sock>>,
         server_sock \in read_fd_set' => server_sock \in read_fd_set,
         \A x \in Writers : /\ pos'[x] \in Nat /\ pos[x] <= pos'[x]
                            /\ link[x] = "gone" => pos'[x] = pos[x],
         \A x \in Writers : owner[fd] # x => (Coming(x)' <=> Coming(x)),
         \A x \in Writers : owner[fd] = x => ~Coming(x)'
  PROVE  AllFollow'
<1>1. TypeOK /\ UNCHANGED backlog
  BY DEF DescriptorInv, CloseFd
<1>2. \A x \in Writers : link'[x] = IF owner[fd] = x THEN "gone" ELSE link[x]
  BY DEF CloseFd
<1>3. \A x \in Writers : Len(stream'[x]) \in Nat /\ Len(stream'[x]) = Len(stream[x])
  BY DEF DescriptorInv, TypeOK, WireTypes
<1>4. \A x \in Writers : Len(stream[x]) >= 3 /\ owner[fd] = x => Settled(x)'
  BY <1>2, <1>3, ClosedSettled
<1> QED
  BY <1>1, <1>2, <1>3, <1>4, SameMixed, ScanOn

\* Whoever is accepted has everyone it follows settled or read from in this scan; the
\* next one in the queue, and its own first reading, come in later scans.
LEMMA AcceptFollow ==
  ASSUME DescriptorInv, AllFollow, NEW fd \in Fds, Accept(fd)
  PROVE  AllFollow'
<1>1. PICK new \in FreeFds : AcceptAs(new)
  BY DEF Accept
<1>2. /\ UNCHANGED <<sock, seen, stream, pos, server_sock, pc, cur>>
      /\ pc = "scan" /\ fd = server_sock /\ server_sock \in read_fd_set
      /\ read_fd_set' = read_fd_set \ {fd}
  BY DEF Accept, Visit, Ahead
<1>3. /\ backlog # <<>> /\ backlog \in Seq(Writers)
      /\ link \in [Writers -> {"none", "queued", "open", "gone"}]
      /\ owner \in [Fds -> FdKinds \cup Writers]
  BY <1>2 DEF DescriptorInv, Descriptors, ScanSets, TypeOK, DescriptorTypes
<1>4. PICK h \in Writers : h = Head(backlog)
  BY <1>3
<1>5. /\ h = backlog[1] /\ 1 \in DOMAIN backlog /\ backlog' = Tail(backlog)
      /\ Len(backlog) \in Nat /\ DOMAIN backlog = 1 .. Len(backlog)
      /\ DOMAIN backlog' = 1 .. Len(backlog) - 1
      /\ \A i \in DOMAIN backlog' : backlog'[i] = backlog[i + 1]
  BY <1>1, <1>3, <1>4 DEF AcceptAs
<1>6. /\ new \in Fds /\ owner[new] = "free"
      /\ \A g \in Fds : owner'[g] = IF g = new THEN h ELSE owner[g]
      /\ \A x \in Writers : link'[x] = IF x = h THEN "open" ELSE link[x]
  BY <1>1, <1>3, <1>4 DEF AcceptAs, FreeFds
<1>7. link[h] = "queued" /\ \A g \in Fds : owner[g] # h
  BY <1>5 DEF DescriptorInv, Descriptors, Connections
<1>8. new \notin read_fd_set
  <2>1. new \notin active_fd_set
    BY <1>2, <1>6, WritersAreNotKinds
       DEF DescriptorInv, Descriptors, ActiveSet, ToWatch, Looping, Scanning
  <2> QED
    BY <2>1 DEF DescriptorInv, Descriptors, ScanSets, Ahead
<1>9. ~Coming(h) /\ ~Coming(h)'
  <2>1. \A g \in Fds : owner'[g] = h => g = new
    BY <1>6, <1>7
  <2> QED
    BY <1>2, <1>7, <1>8, <2>1 DEF Coming, Reading
<1>10. \A x \in Writers \ {h} : Coming(x)' <=> Coming(x)
  <2>1. owner[server_sock] = "listen"
    BY <1>2 DEF DescriptorInv, Descriptors, OwnNumbers, Looping, Scanning
  <2>2. \A g \in Fds : \A x \in Writers \ {h} : owner'[g] = x <=> owner[g] = x
    BY <1>6, WritersAreNotKinds
  <2>3. \A g \in Fds : \A x \in Writers :
           owner[g] = x => (g \in read_fd_set' <=> g \in read_fd_set)
    BY <1>2, <2>1, WritersAreNotKinds
  <2> QED
    BY <1>2, <2>2, <2>3 DEF Coming, Reading
<1>11. Mixed' = Mixed
  BY <1>2, SameMixed
<1> SUFFICES ASSUME NEW c \in Writers, NEW d \in seen[c], d \notin Mixed, d \in Writers
             PROVE  Follows(c, d)'
  BY <1>2, <1>11 DEF AllFollow, DescriptorInv, TypeOK, ProcessTypes
<1>12. Follows(c, d)
  BY DEF AllFollow
<1>13. Settled(d) => Settled(d)'
  BY <1>2, <1>6, <1>7 DEF Settled, FirstHeard, Lost
<1>14. server_sock' \notin read_fd_set'
  BY <1>2
<1>15. Len(stream'[d]) >= 3
  BY <1>2, <1>12 DEF Follows
<1>16. CASE c = h
  <2>1. Settled(d) \/ Coming(d)
    BY <1>2, <1>4, <1>12, <1>16 DEF Follows
  <2>2. Coming(d) => Coming(d)'
    BY <1>9, <1>10
  <2>3. link'[c] = "open"
    BY <1>6, <1>16
  <2> QED
    BY <1>9, <1>13, <1>14, <1>15, <1>16, <2>1, <2>2, <2>3 DEF Follows
<1>17. CASE c # h
  <2>1. link'[c] = link[c] /\ (link[d] = "open" => link'[d] = "open") /\ link'[h] = "open"
    BY <1>6, <1>17
  <2>2. link[c] = "open" => Settled(d)' \/ (Coming(d)' /\ ~Coming(c)')
    BY <1>9, <1>10, <1>12, <1>13, <1>17 DEF Follows
  <2>3. QueuedBefore(d, c) => d = h \/ QueuedBefore(d, c)'
    <3> SUFFICES ASSUME NEW i \in DOMAIN backlog, NEW j \in DOMAIN backlog, j < i,
                        backlog[i] = c, backlog[j] = d, d # h
                 PROVE  QueuedBefore(d, c)'
      BY DEF QueuedBefore
    <3>1. i \in Nat /\ j \in Nat /\ j # 1 /\ i # 1 /\ j >= 1
      BY <1>5, <1>17
    <3>2. /\ i - 1 \in DOMAIN backlog' /\ backlog'[i - 1] = c
          /\ j - 1 \in DOMAIN backlog' /\ backlog'[j - 1] = d
      BY <1>5, <3>1
    <3> QED
      BY <3>1, <3>2 DEF QueuedBefore
  <2> QED
    BY <1>12, <1>13, <1>14, <1>15, <2>1, <2>2, <2>3 DEF Follows
<1> QED
  BY <1>16, <1>17

\* The steps of the loop.
LEMMA LoopFollow ==
  ASSUME DescriptorInv, AllFollow,
         \/ Select \/ SelectFails \/ EndScan \/ CloseListener \/ Return
         \/ \E fd \in Fds : ScanStep(fd)
  PROVE  AllFollow'
<1>1. TypeOK /\ \A x \in Writers : pos[x] \in Nat
  BY DEF DescriptorInv, TypeOK, WireTypes
<1>2. CASE SelectFails \/ EndScan \/ Return
  <2>1. /\ UNCHANGED <<writerVars, connVars, wireVars, server_sock, read_fd_set, cur, owner>>
        /\ pc \notin Reading /\ pc' \notin Reading
    BY <1>2 DEF SelectFails, EndScan, Return, Reading
  <2>2. \A x \in Writers : Coming(x)' <=> Coming(x)
    BY <2>1 DEF Coming
  <2> QED
    BY <1>1, <2>1, <2>2, LoopStays
<1>3. CASE CloseListener
  <2>1. /\ UNCHANGED <<writerVars, wireVars, server_sock, read_fd_set, pos>>
        /\ pc = "shutdown" /\ pc' = "stragglers"
        /\ CloseFd(server_sock) /\ server_sock \in Fds
    BY <1>1, <1>3 DEF CloseListener, TypeOK, DescriptorTypes
  <2>2. owner[server_sock] = "listen"
    BY <2>1 DEF DescriptorInv, Descriptors, OwnNumbers
  <2>3. read_fd_set = {}
    BY <2>1 DEF DescriptorInv, Descriptors, ScanSets, Ahead, Scanning, Reading
  <2>4. \A x \in Writers : ~Coming(x) /\ ~Coming(x)'
    BY <2>1, <2>3 DEF Coming, Reading
  <2>5. \A x \in Writers : link'[x] = IF link[x] = "queued" THEN "gone" ELSE link[x]
    BY <2>1, <2>2, WritersAreNotKinds DEF CloseFd
  <2>6. \A x \in Writers : Len(stream'[x]) \in Nat /\ Len(stream'[x]) = Len(stream[x])
    BY <1>1, <2>1 DEF TypeOK, WireTypes
  <2> QED
    BY <1>1, <2>1, <2>3, <2>4, <2>5, <2>6, SameMixed, ScanOn
<1>4. ASSUME NEW fd \in Fds, ScanStep(fd)
      PROVE  AllFollow'
  <2>1. CASE DropErrored(fd)
    <3>1. /\ UNCHANGED <<writerVars, wireVars, server_sock, cur>>
          /\ CloseFd(fd) /\ read_fd_set' = read_fd_set \ {fd}
          /\ pc = "scan" /\ pc' = "scan"
          /\ owner[fd] \in Writers
      BY <2>1 DEF DropErrored, Visit, DescriptorInv, Descriptors, ScanSets
    <3>2. \A g \in Fds : owner'[g] = IF g = fd THEN "free" ELSE owner[g]
      BY <1>1, <3>1, CloseFdOwner
    <3>3. \A x \in Writers : owner[fd] # x => (Coming(x)' <=> Coming(x))
      BY <3>1, <3>2, WritersAreNotKinds DEF Coming, Reading
    <3>4. \A x \in Writers : owner[fd] = x => ~Coming(x)'
      BY <3>1, <3>2, WritersAreNotKinds
         DEF Coming, Reading, DescriptorInv, Descriptors, Connections
    <3> QED
      BY <1>1, <3>1, <3>3, <3>4, WritersAreNotKinds, CloseFollow
  <2>2. CASE Accept(fd)
    BY <2>2, AcceptFollow
  <2>3. CASE AcceptFails(fd) \/ StartMessage(fd)
    <3>1. /\ UNCHANGED <<writerVars, connVars, wireVars, server_sock, owner>>
          /\ fd \in read_fd_set /\ read_fd_set' = read_fd_set \ {fd}
          /\ pc = "scan"
          /\ \/ pc' = "scan" /\ owner[fd] = "listen"
             \/ pc' \in Reading /\ cur' = fd
      BY <2>3 DEF AcceptFails, StartMessage, Visit, Ahead, Reading, DescriptorInv,
                  Descriptors, OwnNumbers, Looping, Scanning
    <3>2. \A x \in Writers : Coming(x)' <=> Coming(x)
      BY <3>1, WritersAreNotKinds DEF Coming, Reading
    <3> QED
      BY <1>1, <3>1, <3>2, LoopStays
  <2>4. CASE ChildPipe(fd)
    <3>1. /\ UNCHANGED <<writerVars, wireVars, server_sock, cur>>
          /\ CloseFd(fd) /\ read_fd_set' = read_fd_set \ {fd}
          /\ pc = "scan" /\ pc' = "scan"
          /\ owner[fd] = "pipeOut"
      <4>1. fd \in Ahead /\ fd = child_pipe_output /\ pc = "scan"
        BY <2>4 DEF ChildPipe, Visit
      <4>2. ~child_exited
        BY <4>1 DEF DescriptorInv, Descriptors, ScanSets
      <4>3. owner[fd] = "pipeOut"
        BY <4>1, <4>2 DEF DescriptorInv, Descriptors, OwnNumbers, Looping, Scanning
      <4> QED
        BY <2>4, <4>3 DEF ChildPipe, Visit
    <3>2. \A g \in Fds : owner'[g] = IF g = fd THEN "free" ELSE owner[g]
      BY <1>1, <3>1, CloseFdOwner
    <3>3. \A x \in Writers : owner[fd] # x /\ (Coming(x)' <=> Coming(x))
      BY <3>1, <3>2, WritersAreNotKinds DEF Coming, Reading
    <3> QED
      BY <1>1, <3>1, <3>3, CloseFollow
  <2>5. CASE CloseStraggler(fd)
    <3>1. /\ UNCHANGED <<writerVars, wireVars, server_sock, read_fd_set>>
          /\ CloseFd(fd)
          /\ pc = "stragglers" /\ pc' = "stragglers"
      BY <2>5 DEF CloseStraggler
    <3>2. read_fd_set = {} /\ owner[fd] # "listen"
      BY <3>1 DEF DescriptorInv, Descriptors, ScanSets, Ahead, Scanning, Reading, ActiveSet,
                  Listening
    <3>3. \A x \in Writers : ~Coming(x) /\ ~Coming(x)'
      BY <3>1, <3>2 DEF Coming, Reading
    <3> QED
      BY <1>1, <3>1, <3>2, <3>3, CloseFollow
  <2> QED
    BY <1>4, <2>1, <2>2, <2>3, <2>4, <2>5 DEF ScanStep
<1> QED
  BY <1>2, <1>3, <1>4, SelectFollow

-----------------------------------------------------------------------------
(* handle_message. *)

\* What a read does to the connection it concerns and to the others.
LEMMA ReadEffect ==
  ASSUME DescriptorInv, pc \in Reading, NEW kinds, ReadsEof \/ ReadsItem(kinds)
  PROVE  \A x \in Writers : /\ pos'[x] \in Nat /\ pos[x] <= pos'[x]
                            /\ link[x] = "gone" => pos'[x] = pos[x]
                            /\ x # Conn => pos'[x] = pos[x]
<1>1. cur \in Fds /\ Conn \in Writers /\ link[Conn] = "open"
  BY DEF DescriptorInv, Descriptors, ScanSets, Connections, Conn
<1>2. \A x \in Writers : pos[x] \in Nat
  BY DEF DescriptorInv, TypeOK, WireTypes
<1>3. CASE ReadsEof
  BY <1>2, <1>3 DEF ReadsEof
<1>4. CASE ReadsItem(kinds)
  <2>1. \A x \in Writers : pos'[x] = IF x = Conn THEN pos[x] + 1 ELSE pos[x]
    BY <1>1, <1>4 DEF ReadsItem, DescriptorInv, TypeOK, WireTypes
  <2> QED
    BY <1>1, <1>2, <2>1
<1> QED
  BY <1>3, <1>4

\* handle_message() goes on, goes to the next descriptor with a first event read, or
\* the connection is closed.
LEMMA ReadFollow ==
  ASSUME DescriptorInv, AllFollow, pc \in Reading, NEW kinds, ReadsEof \/ ReadsItem(kinds),
         UNCHANGED <<writerVars, stream, constVars, read_fd_set>>,
         NEW d \in Writers, d = Conn,
         \/ EndConnection \/ NextField("evtype") \/ NextField("body")
         \/ NextFd /\ (d \notin Mixed /\ Len(stream[d]) >= 3 => pos'[d] >= 3)
  PROVE  AllFollow'
<1>1. /\ TypeOK
      /\ \A x \in Writers : /\ pos'[x] \in Nat /\ pos[x] <= pos'[x]
                            /\ link[x] = "gone" => pos'[x] = pos[x]
  BY ReadEffect DEF DescriptorInv
<1>2. cur \in Fds /\ Conn \in Writers /\ Conn = owner[cur]
  BY DEF DescriptorInv, Descriptors, ScanSets, Conn
<1>3. \A f, g \in Fds : owner[f] = owner[g] /\ owner[f] \in Writers => f = g
  BY DEF DescriptorInv, Descriptors, Connections
<1>4. CASE NextField("evtype") \/ NextField("body")
  <2>1. UNCHANGED <<connVars, owner, cur>> /\ pc' \in Reading
    BY <1>4 DEF NextField, Reading
  <2>2. \A x \in Writers : Coming(x)' <=> Coming(x)
    BY <2>1 DEF Coming
  <2> QED
    BY <1>1, <2>1, <2>2, LoopStays
<1>5. CASE EndConnection
  <2>1. /\ CloseFd(cur) /\ pc' = "scan" /\ owner[cur] # "listen" /\ cur \notin read_fd_set
    BY <1>2, <1>5, WritersAreNotKinds
       DEF EndConnection, DescriptorInv, Descriptors, ScanSets, Ahead
  <2>2. \A g \in Fds : owner'[g] = IF g = cur THEN "free" ELSE owner[g]
    BY <1>1, <1>2, <2>1, CloseFdOwner
  <2>3. \A x \in Writers : owner[cur] # x => (Coming(x)' <=> Coming(x))
    BY <2>1, <2>2, WritersAreNotKinds DEF Coming, Reading
  <2>4. \A x \in Writers : owner[cur] = x => ~Coming(x)'
    BY <1>2, <1>3, <2>1, <2>2, WritersAreNotKinds DEF Coming, Reading
  <2> QED
    BY <1>1, <1>2, <2>1, <2>3, <2>4, CloseFollow
<1>6. CASE NextFd /\ (d \notin Mixed /\ Len(stream[d]) >= 3 => pos'[d] >= 3)
  <2>1. UNCHANGED <<connVars, owner>> /\ pc' = "scan"
    BY <1>6 DEF NextFd
  <2>2. \A x \in Writers : Coming(x)' => Coming(x)
    BY <2>1 DEF Coming, Reading
  <2>3. \A x \in Writers : Coming(x) => x = d \/ Coming(x)'
    BY <1>2, <2>1 DEF Coming
  <2>4. d \notin Mixed /\ Len(stream[d]) >= 3 => Settled(d)'
    BY <1>6 DEF Settled, FirstHeard
  <2>5. \A x \in Writers : Len(stream'[x]) \in Nat /\ Len(stream'[x]) = Len(stream[x])
    BY <1>1 DEF TypeOK, WireTypes
  <2>6. \A x \in Writers \ Mixed :
           Len(stream[x]) >= 3 /\ Coming(x) => Settled(x)' \/ Coming(x)'
    <3> SUFFICES ASSUME NEW x \in Writers \ Mixed, Len(stream[x]) >= 3, Coming(x), ~Coming(x)'
                 PROVE  Settled(x)'
      OBVIOUS
    <3>1. x = d
      BY <2>3
    <3> QED
      BY <2>4, <3>1
  <2>7. \A x \in Writers : x \in Mixed => x \in Mixed'
    BY SameMixed
  <2> QED
    BY <1>1, <2>1, <2>2, <2>5, <2>6, <2>7, ScanOn
<1> QED
  BY <1>4, <1>5, <1>6

\* The callback is made at the end of the first frame, or a shared connection is read.
LEMMA MessageFollow ==
  ASSUME DescriptorInv, FrameInv, AllFollow, ReadMsgType \/ ReadEventType \/ HandleEvent
  PROVE  AllFollow'
<1>1. pc \in Reading /\ UNCHANGED <<writerVars, stream, constVars, read_fd_set>>
  BY DEF Reading, ReadMsgType, ReadEventType, HandleEvent
<1> PICK d \in Writers : d = Conn
  BY <1>1, ReadConnection
<1>2. /\ link[d] = "open" /\ pos[d] \in Nat /\ pos'[d] \in Nat /\ Len(stream[d]) \in Nat
      /\ d \notin Mixed => Frames(d)
  BY <1>1, ReadConnection, ReadEffect
     DEF FrameState, Connected, ReadMsgType, ReadEventType, HandleEvent
<1>3. CASE ReadMsgType
  BY <1>1, <1>3, ReadFollow DEF ReadMsgType
<1>4. CASE ReadEventType
  <2>1. ReadPhase(d) = 1
    BY <1>4 DEF ReadPhase, ReadEventType, Conn
  <2>2. CASE (ReadsEof \/ ReadsItem({"TYPE"})) /\ (EndConnection \/ NextField("body"))
    BY <1>1, <2>2, ReadFollow
  <2>3. CASE ReadsItem({"EVENT", "BODY", "DONE"}) /\ (NextFd \/ NextField("body"))
    <3>1. d \in Mixed
      BY <1>1, <1>2, <2>1, <2>3, ItemRead DEF KindsAt
    <3> QED
      BY <1>1, <2>3, <3>1, ReadFollow
  <2> QED
    BY <1>4, <2>2, <2>3 DEF ReadEventType
<1>5. CASE HandleEvent
  <2>1. ReadPhase(d) = 2
    BY <1>5 DEF ReadPhase, HandleEvent, Conn
  <2>2. CASE ReadsEof /\ NextFd
    <3>1. pos'[d] = Len(stream[d])
      BY <1>2, <2>2 DEF ReadsEof, Unread
    <3> QED
      BY <1>1, <2>2, <3>1, ReadFollow
  <2>3. CASE ReadsItem({"BODY"}) /\ NextFd
    <3>1. d \notin Mixed => pos[d] % 3 = 2
      BY <1>2, <2>1, <2>3 DEF Frames, ReadsItem, Unread
    <3>2. pos'[d] = pos[d] + 1
      BY <2>3 DEF ReadsItem, DescriptorInv, TypeOK, WireTypes
    <3>3. d \notin Mixed => pos'[d] >= 3
      BY <1>2, <3>1, <3>2
    <3> QED
      BY <1>1, <2>3, <3>3, ReadFollow
  <2>4. CASE ReadsItem({"EVENT", "TYPE", "DONE"}) /\ (NextFd \/ NextField("body"))
    <3>1. d \in Mixed
      BY <1>1, <1>2, <2>1, <2>4, ItemRead DEF KindsAt
    <3> QED
      BY <1>1, <2>4, <3>1, ReadFollow
  <2> QED
    BY <1>5, <2>2, <2>3, <2>4 DEF HandleEvent
<1> QED
  BY <1>3, <1>4, <1>5

-----------------------------------------------------------------------------
(* The queue, and the last item of a connection. *)

\* A connection leaves the queue when it is accepted or reset.
LEMMA QueueSteps ==
  ASSUME DescriptorInv, QueueComplete, [Next]_vars
  PROVE  QueueComplete'
<1>1. /\ link \in [Writers -> {"none", "queued", "open", "gone"}]
      /\ owner \in [Fds -> FdKinds \cup Writers]
      /\ backlog \in Seq(Writers)
      /\ server_sock \in Fds /\ child_pipe_input \in Fds
  BY DEF DescriptorInv, TypeOK, DescriptorTypes
<1>2. CASE UNCHANGED connVars
  BY <1>2 DEF QueueComplete
<1>3. ASSUME NEW w \in Writers, Connect(w) PROVE QueueComplete'
  <2>1. /\ \A x \in Writers : link'[x] = "queued" => x = w \/ link[x] = "queued"
        /\ backlog' = Append(backlog, w)
    BY <1>1, <1>3 DEF Connect
  <2>2. /\ \A i \in DOMAIN backlog : i \in DOMAIN backlog' /\ backlog'[i] = backlog[i]
        /\ Len(backlog) + 1 \in DOMAIN backlog' /\ backlog'[Len(backlog) + 1] = w
    BY <1>1, <2>1
  <2> QED
    BY <2>1, <2>2 DEF QueueComplete
<1>4. ASSUME NEW w \in Writers, ConnectFails(w) PROVE QueueComplete'
  BY <1>1, <1>4 DEF ConnectFails, QueueComplete
<1>5. ASSUME NEW fd \in Fds, CloseFd(fd) PROVE QueueComplete'
  BY <1>5, WritersAreNotKinds DEF CloseFd, QueueComplete
<1>6. ASSUME NEW fd \in Fds, Accept(fd) PROVE QueueComplete'
  <2>1. backlog # <<>>
    BY <1>6 DEF Accept, Visit, Ahead, DescriptorInv, Descriptors, ScanSets
  <2>2. /\ backlog' = Tail(backlog)
        /\ \A x \in Writers : link'[x] = "queued" => link[x] = "queued" /\ x # backlog[1]
    BY <1>1, <1>6, <2>1 DEF Accept, AcceptAs
  <2>3. ASSUME NEW i \in DOMAIN backlog, i # 1
        PROVE  i - 1 \in DOMAIN backlog' /\ backlog'[i - 1] = backlog[i]
    BY <1>1, <2>1, <2>2, <2>3
  <2> SUFFICES ASSUME NEW x \in Writers, link'[x] = "queued"
               PROVE  \E j \in DOMAIN backlog' : backlog'[j] = x
    BY DEF QueueComplete
  <2>4. PICK i \in DOMAIN backlog : backlog[i] = x
    BY <2>2 DEF QueueComplete
  <2> QED
    BY <2>2, <2>3, <2>4
<1>7. ASSUME NEW w \in Writers, WriterStep(w) PROVE QueueComplete'
  <2>1. CASE \/ WriteMsgType(w) \/ WriteEventType(w) \/ WriteBody(w) \/ WriteDone(w) \/ Die(w)
    BY <1>2, <2>1 DEF WriteMsgType, WriteEventType, WriteBody, WriteDone, WriteField, Die
  <2> QED
    BY <1>3, <1>4, <1>7, <2>1 DEF WriterStep
<1>8. CASE WaitpidStep \/ AppStep \/ ChildExit \/ UNCHANGED vars
           \/ \E f \in Forks : Fork(f[1], f[2])
  BY <1>1, <1>2, <1>5, <1>8
     DEF WaitpidStep, WaitpidReport, WaitpidClose, AppStep, AppOpen, AppClose, AppSpawn, AppReap,
         ChildExit, Fork, vars
<1>9. CASE ServerStep
  <2>1. CASE Select \/ SelectFails \/ EndScan \/ Return
    BY <1>2, <2>1 DEF Select, SelectFails, EndScan, Return
  <2>2. CASE CloseListener
    BY <1>1, <1>5, <2>2 DEF CloseListener
  <2>3. ASSUME NEW fd \in Fds, ScanStep(fd) PROVE QueueComplete'
    BY <1>2, <1>5, <1>6, <2>3
       DEF ScanStep, DropErrored, AcceptFails, ChildPipe, StartMessage, CloseStraggler
  <2>4. CASE ReadMsgType \/ ReadEventType \/ HandleEvent
    <3>1. cur \in Fds
      BY <2>4 DEF ReadMsgType, ReadEventType, HandleEvent, Reading, DescriptorInv, Descriptors,
                  ScanSets
    <3>2. EndConnection \/ UNCHANGED connVars
      BY <2>4 DEF ReadMsgType, ReadEventType, HandleEvent, NextFd, NextField
    <3> QED
      BY <1>2, <1>5, <3>1, <3>2 DEF EndConnection
  <2> QED
    BY <1>9, <2>1, <2>2, <2>3, <2>4 DEF ServerStep
<1> QED
  BY <1>7, <1>8, <1>9 DEF Next, Returned

\* Nobody ends twice what was sent before.
LEMMA QuietEnds ==
  ASSUME AllEndOnce, UNCHANGED stream,
         \A x \in Writers : x \in Mixed => x \in Mixed',
         \A x \in Writers : wpc[x] = "closed" => wpc'[x] = "closed",
         \A x \in Writers : \/ Connected(x)' => Connected(x)
                            \/ stream[x] = <<>>
  PROVE  AllEndOnce'
<1> SUFFICES ASSUME NEW c \in Writers PROVE EndsOnce(c)'
  BY DEF AllEndOnce
<1>1. EndsOnce(c)
  BY DEF AllEndOnce
<1> QED
  BY <1>1 DEF EndsOnce

\* MSG_DONE is the last thing that a process sends on a connection of its own.
LEMMA FieldEnds ==
  ASSUME DescriptorInv, AllEndOnce, NEW w \in Writers,
         NEW from \in {"idle", "type", "body"}, NEW to,
         NEW n \in Nat, NEW kind \in ItemKinds, WriteField(w, from, to, n, kind),
         kind = "DONE" => to = "closed"
  PROVE  AllEndOnce'
<1> DEFINE d == sock[w]
           item == Item(w, n, kind)
<1>1. /\ UNCHANGED <<sock, link>>
      /\ wpc[w] = from /\ wpc' = [wpc EXCEPT ![w] = to]
      /\ \/ stream' = [stream EXCEPT ![d] = Append(@, item)] /\ Connected(d)
         \/ stream' = stream
      /\ d \in Writers
      /\ wpc \in [Writers -> {"unborn", "closed"} \cup Holding]
      /\ stream \in [Writers -> Seq(Items)]
  BY DEF WriteField, Send, DescriptorInv, TypeOK, ProcessTypes, WireTypes
<1>2. /\ \A x \in Writers : Connected(x)' <=> Connected(x)
      /\ Mixed' = Mixed
      /\ \A x \in Writers : wpc[x] = "closed" => wpc'[x] = "closed"
  BY <1>1, SameMixed DEF Connected
<1>3. CASE UNCHANGED stream
  BY <1>2, <1>3, QuietEnds
<1>4. CASE stream' = [stream EXCEPT ![d] = Append(@, item)]
  <2> SUFFICES ASSUME NEW c \in Writers, Connected(c), c \notin Mixed,
                      NEW i \in DOMAIN stream'[c], stream'[c][i].kind = "DONE"
               PROVE  i = Len(stream'[c]) /\ wpc'[c] = "closed"
    BY <1>2 DEF AllEndOnce, EndsOnce
  <2>1. EndsOnce(c)
    BY DEF AllEndOnce
  <2>2. CASE c # d
    BY <1>1, <1>2, <1>4, <2>1, <2>2 DEF EndsOnce
  <2>3. CASE c = d
    <3>1. w = c
      BY <2>3 DEF Mixed
    <3>2. \A j \in DOMAIN stream[c] : stream[c][j].kind # "DONE"
      BY <1>1, <2>1, <3>1 DEF EndsOnce
    <3>3. /\ Len(stream'[c]) = Len(stream[c]) + 1
          /\ \/ i \in DOMAIN stream[c] /\ stream'[c][i] = stream[c][i]
             \/ i = Len(stream[c]) + 1 /\ stream'[c][i] = item
      BY <1>1, <1>4, <2>3
    <3>4. i = Len(stream[c]) + 1 /\ kind = "DONE"
      BY <3>2, <3>3 DEF Item
    <3> QED
      BY <1>1, <3>1, <3>3, <3>4
  <2> QED
    BY <2>2, <2>3
<1> QED
  BY <1>1, <1>3, <1>4

\* Every step.
LEMMA EndSteps ==
  ASSUME DescriptorInv, FrameInv, AllEndOnce, [Next]_vars
  PROVE  AllEndOnce'
<1>1. ASSUME NEW w \in Writers, WriterStep(w) PROVE AllEndOnce'
  <2>1. nev[w] \in Nat /\ nev[w] + 1 \in Nat
    BY DEF DescriptorInv, TypeOK, ProcessTypes
  <2>2. CASE Connect(w) \/ ConnectFails(w) \/ Die(w)
    <3>1. /\ UNCHANGED <<sock, stream>>
          /\ \A x \in Writers : wpc[x] = "closed" => wpc'[x] = "closed"
      BY <2>2 DEF Connect, ConnectFails, Die, Holding, DescriptorInv, TypeOK, ProcessTypes
    <3>2. \A x \in Writers : (Connected(x)' => Connected(x)) \/ stream[x] = <<>>
      <4>1. \A x \in Writers : link'[x] = link[x] \/ x = w
        BY <2>2 DEF Connect, ConnectFails, Die, DescriptorInv, TypeOK, DescriptorTypes
      <4>2. Die(w) \/ stream[w] = <<>>
        BY <2>2 DEF Connect, ConnectFails, DescriptorInv, Descriptors, Connections, FrameInv,
                    FrameState
      <4>3. Die(w) => UNCHANGED link
        BY DEF Die
      <4> QED
        BY <4>1, <4>2, <4>3 DEF Connected
    <3> QED
      BY <3>1, <3>2, SameMixed, QuietEnds
  <2>3. CASE WriteMsgType(w)
    BY <2>1, <2>3, FieldEnds DEF WriteMsgType, ItemKinds
  <2>4. CASE WriteEventType(w)
    BY <2>1, <2>4, FieldEnds DEF WriteEventType, ItemKinds
  <2>5. CASE WriteBody(w)
    BY <2>1, <2>5, FieldEnds DEF WriteBody, ItemKinds
  <2>6. CASE WriteDone(w)
    BY <2>1, <2>6, FieldEnds DEF WriteDone, ItemKinds
  <2> QED
    BY <1>1, <2>2, <2>3, <2>4, <2>5, <2>6 DEF WriterStep
<1>2. ASSUME NEW f \in Forks, Fork(f[1], f[2]) PROVE AllEndOnce'
  <2>1. f[1] \in Writers /\ f[2] \in Writers
    BY ServerAssumption
  <2>2. \A x \in Writers : wpc[x] = "closed" => wpc'[x] = "closed"
    BY <1>2, <2>1 DEF Fork, DescriptorInv, TypeOK, ProcessTypes
  <2> QED
    BY <1>2, <2>1, <2>2, ForkMixes, QuietEnds DEF Fork, Connected
<1>3. CASE ChildExit \/ WaitpidStep \/ AppStep \/ ServerStep \/ UNCHANGED vars
  <2>1. UNCHANGED <<sock, stream>> /\ \A x \in Writers : wpc[x] = "closed" => wpc'[x] = "closed"
    BY <1>3 DEF ChildExit, WaitpidStep, WaitpidReport, WaitpidClose, AppStep, AppOpen, AppClose,
                AppSpawn, AppReap, vars, ServerStep, Select, SelectFails, EndScan, CloseListener,
                Return, ScanStep, DropErrored, Accept, AcceptFails, ChildPipe, StartMessage,
                CloseStraggler, ReadMsgType, ReadEventType, HandleEvent
  <2>2. \A x \in Writers : Connected(x)' => Connected(x)
    <3>1. \A fd \in Fds : CloseFd(fd) => \A x \in Writers : Connected(x)' => Connected(x)
      BY DEF CloseFd, Connected
    <3>2. UNCHANGED link => \A x \in Writers : Connected(x)' => Connected(x)
      BY DEF Connected
    <3>3. server_sock \in Fds /\ child_pipe_input \in Fds
      BY DEF DescriptorInv, TypeOK, DescriptorTypes
    <3>4. CASE ChildExit \/ WaitpidStep \/ AppStep \/ UNCHANGED vars
      BY <3>1, <3>2, <3>3, <3>4
         DEF ChildExit, WaitpidStep, WaitpidReport, WaitpidClose, AppStep, AppOpen, AppClose,
             AppSpawn, AppReap, vars
    <3>5. CASE Select \/ SelectFails \/ EndScan \/ CloseListener \/ Return
      BY <3>1, <3>2, <3>3, <3>5 DEF Select, SelectFails, EndScan, CloseListener, Return
    <3>6. ASSUME NEW fd \in Fds, ScanStep(fd) PROVE \A x \in Writers : Connected(x)' => Connected(x)
      <4>1. CASE Accept(fd)
        <5>1. backlog # <<>> /\ backlog \in Seq(Writers)
          BY <4>1 DEF Accept, Visit, Ahead, DescriptorInv, Descriptors, ScanSets, TypeOK,
                      DescriptorTypes
        <5>2. backlog[1] = Head(backlog) /\ 1 \in DOMAIN backlog
          BY <5>1
        <5>3. link[Head(backlog)] = "queued" /\ link' = [link EXCEPT ![Head(backlog)] = "open"]
          BY <4>1, <5>2 DEF Accept, AcceptAs, DescriptorInv, Descriptors, Connections
        <5> QED
          BY <5>3 DEF Connected, DescriptorInv, TypeOK, DescriptorTypes
      <4> QED
        BY <3>1, <3>2, <3>6, <4>1
           DEF ScanStep, DropErrored, AcceptFails, ChildPipe, StartMessage, CloseStraggler
    <3>7. CASE ReadMsgType \/ ReadEventType \/ HandleEvent
      <4>1. cur \in Fds
        BY <3>7 DEF ReadMsgType, ReadEventType, HandleEvent, Reading, DescriptorInv, Descriptors,
                    ScanSets
      <4>2. EndConnection \/ UNCHANGED link
        BY <3>7 DEF ReadMsgType, ReadEventType, HandleEvent, NextFd, NextField
      <4> QED
        BY <3>1, <3>2, <4>1, <4>2 DEF EndConnection
    <3> QED
      BY <1>3, <3>4, <3>5, <3>6, <3>7 DEF ServerStep
  <2> QED
    BY <2>1, <2>2, SameMixed, QuietEnds
<1> QED
  BY <1>1, <1>2, <1>3 DEF Next, Returned

-----------------------------------------------------------------------------
(* The invariant. *)

\* The order of the queue, of the scans and of what is sent is an inductive
\* invariant, given that of the descriptors and of the frames.
THEOREM ScansInOrder == Spec => []ScanOrder
<1>1. Init => ScanOrder
  BY DEF Init, ScanOrder, QueueComplete, AllEndOnce, EndsOnce, Connected, AllFollow
<1>2. DescriptorInv /\ FrameInv /\ ScanOrder /\ [Next]_vars => ScanOrder'
  <2> SUFFICES ASSUME DescriptorInv, FrameInv, ScanOrder, [Next]_vars PROVE ScanOrder'
    OBVIOUS
  <2>1. QueueComplete /\ AllEndOnce /\ AllFollow
    BY DEF ScanOrder
  <2>2. QueueComplete' /\ AllEndOnce'
    BY <2>1, QueueSteps, EndSteps
  <2>3. AllFollow'
    <3>1. ASSUME NEW w \in Writers, Connect(w) PROVE AllFollow'
      BY <2>1, <3>1, ConnectFollow
    <3>2. CASE ServerStep
      BY <2>1, <3>2, LoopFollow, MessageFollow DEF ServerStep
    <3> QED
      BY <2>1, <3>1, <3>2, OthersFollow DEF Next, Returned
  <2> QED
    BY <2>2, <2>3 DEF ScanOrder
<1> QED
  BY <1>1, <1>2, DescriptorsInOrder, FramesInOrder, PTL DEF Spec

-----------------------------------------------------------------------------
(* Nothing is lost while select() reports no errors. *)

\* Nothing is given up by a step that closes no connection.
LEMMA LosesNothing ==
  ASSUME TypeOK, NothingLost, ~KernelErrors, UNCHANGED error_fd_set,
         pc' \in Looping => pc \in Looping,
         \A x \in Writers : x \in Mixed => x \in Mixed',
         \A x \in Writers : link[x] = "gone" => /\ pos'[x] = pos[x]
                                                /\ stream'[x] = stream[x],
         \A x \in Writers \ Mixed : link'[x] = "gone" /\ link[x] # "gone" => ~Lost(x)'
  PROVE  NothingLost'
<1>1. error_fd_set' = {}
  BY DEF NothingLost
<1> SUFFICES ASSUME pc' \in Looping, NEW x \in Writers \ Mixed', Lost(x)'
             PROVE  FALSE
  BY <1>1 DEF NothingLost
<1>2. x \in Writers \ Mixed /\ link'[x] = "gone"
  BY DEF Lost
<1>3. link[x] = "gone"
  BY <1>2
<1>4. Lost(x)
  BY <1>3 DEF Lost
<1> QED
  BY <1>2, <1>4 DEF NothingLost

\* handle_message() ends a connection of one process at its end.
LEMMA EndsAtEnd ==
  ASSUME DescriptorInv, FrameInv, AllEndOnce, ReadMsgType \/ ReadEventType \/ HandleEvent,
         NEW d \in Writers, d = Conn, d \notin Mixed, EndConnection
  PROVE  pos'[d] = Len(stream[d])
<1>1. pc \in Reading
  BY DEF Reading, ReadMsgType, ReadEventType, HandleEvent
<1>2. /\ link[d] = "open" /\ pos[d] \in Nat /\ Len(stream[d]) \in Nat
      /\ cur \in Fds /\ stream[d] \in Seq(Items)
      /\ Frames(d)
  BY <1>1, ReadConnection DEF FrameState, Connected
<1>3. CASE ReadsEof
  BY <1>2, <1>3 DEF ReadsEof, Unread
<1>4. CASE ReadsItem({"DONE"})
  <2> DEFINE m == pos[d] + 1
  <2>1. m \in DOMAIN stream[d] /\ pos'[d] = m
    BY <1>2, <1>4 DEF ReadsItem, Unread, DescriptorInv, TypeOK, WireTypes
  <2>2. stream[d][m].kind = "DONE"
    BY <1>4 DEF ReadsItem, NextItem
  <2>3. EndsOnce(d) /\ Connected(d)
    BY <1>2 DEF AllEndOnce, Connected
  <2> QED
    BY <2>1, <2>2, <2>3 DEF EndsOnce
<1>5. CASE ReadMsgType /\ ReadsItem({"TYPE", "BODY"})
  <2>1. ReadPhase(d) = 0
    BY <1>5 DEF ReadPhase, ReadMsgType
  <2> QED
    BY <1>1, <1>2, <1>5, <2>1, ItemRead DEF KindsAt
<1>6. CASE ReadMsgType /\ ReadsItem({"EVENT"}) /\ NextField("evtype")
  BY <1>6 DEF EndConnection, NextField
<1>7. CASE (ReadEventType \/ HandleEvent) /\ pc' # "scan"
  BY <1>7 DEF EndConnection
<1>8. CASE (ReadEventType \/ HandleEvent) /\ NextFd
  <2>1. link' = link /\ link'[d] = "gone"
    BY <1>2, <1>8 DEF NextFd, EndConnection, CloseFd, Conn
  <2> QED
    BY <1>2, <2>1
<1> QED
  BY <1>3, <1>4, <1>5, <1>6, <1>7, <1>8 DEF ReadMsgType, ReadEventType, HandleEvent, NextField

\* So that it gives nothing up.
LEMMA MessageLosesNothing ==
  ASSUME DescriptorInv, FrameInv, AllEndOnce,
         ReadMsgType \/ ReadEventType \/ HandleEvent
  PROVE  \A x \in Writers \ Mixed : link'[x] = "gone" /\ link[x] # "gone" => ~Lost(x)'
<1>1. pc \in Reading /\ UNCHANGED stream
  BY DEF Reading, ReadMsgType, ReadEventType, HandleEvent
<1> SUFFICES ASSUME NEW x \in Writers \ Mixed, link'[x] = "gone", link[x] # "gone"
             PROVE  ~Lost(x)'
  OBVIOUS
<1>2. x = Conn /\ EndConnection
  <2>1. EndConnection \/ UNCHANGED link
    BY DEF ReadMsgType, ReadEventType, HandleEvent, NextFd, NextField
  <2>2. owner[cur] # "listen" /\ Conn = owner[cur]
    BY <1>1, ReadConnection, WritersAreNotKinds DEF Conn
  <2> QED
    BY <2>1, <2>2 DEF EndConnection, CloseFd
<1>3. pos'[x] = Len(stream[x])
  BY <1>2, EndsAtEnd
<1>4. Len(stream[x]) \in Nat
  BY DEF DescriptorInv, TypeOK, WireTypes
<1> QED
  BY <1>1, <1>3, <1>4 DEF Lost

\* Every step.
LEMMA LossSteps ==
  ASSUME DescriptorInv, FrameInv, AllEndOnce, NothingLost, ~KernelErrors, [Next]_vars
  PROVE  NothingLost'
<1>1. /\ TypeOK
      /\ link \in [Writers -> {"none", "queued", "open", "gone"}]
      /\ \A x \in Writers : pos[x] \in Nat /\ Len(stream[x]) \in Nat
      /\ server_sock \in Fds
  BY DEF DescriptorInv, TypeOK, DescriptorTypes, WireTypes
<1>2. ASSUME NEW w \in Writers, WriterStep(w) PROVE NothingLost'
  <2>1. UNCHANGED <<sock, pos, pc, error_fd_set>>
    BY <1>2 DEF WriterStep, Connect, ConnectFails, WriteMsgType, WriteEventType, WriteBody, WriteDone,
                WriteField, Die
  <2>2. CASE Connect(w) \/ ConnectFails(w)
    <3>1. /\ UNCHANGED stream /\ link[w] = "none" /\ stream[w] = <<>> /\ pos[w] = 0
          /\ \A x \in Writers : x = w \/ link'[x] = link[x]
      BY <1>1, <2>2 DEF Connect, ConnectFails, DescriptorInv, Descriptors, Connections, FrameInv,
                        FrameState
    <3>2. ~Lost(w)'
      BY <2>1, <3>1 DEF Lost
    <3> QED
      BY <1>1, <2>1, <3>1, <3>2, SameMixed, LosesNothing
  <2>3. CASE ~Connect(w) /\ ~ConnectFails(w)
    <3>1. UNCHANGED link
      BY <1>2, <2>3 DEF WriterStep, WriteMsgType, WriteEventType, WriteBody, WriteDone,
                        WriteField, Die
    <3>2. \A x \in Writers : link[x] = "gone" => stream'[x] = stream[x]
      BY <1>1, <1>2, <2>3
         DEF WriterStep, WriteMsgType, WriteEventType, WriteBody, WriteDone, WriteField, Die,
             Send, Connected, TypeOK, WireTypes
    <3> QED
      BY <1>1, <2>1, <3>1, <3>2, SameMixed, LosesNothing
  <2> QED
    BY <2>2, <2>3
<1>3. ASSUME NEW f \in Forks, Fork(f[1], f[2]) PROVE NothingLost'
  <2>1. f[1] \in Writers /\ f[2] \in Writers
    BY ServerAssumption
  <2> QED
    BY <1>1, <1>3, <2>1, ForkMixes, LosesNothing DEF Fork
<1>4. CASE ChildExit \/ WaitpidReport \/ AppStep \/ UNCHANGED vars
  <2>1. UNCHANGED <<sock, link, stream, pos, pc, error_fd_set>>
    BY <1>4 DEF ChildExit, WaitpidReport, AppStep, AppOpen, AppClose, AppSpawn, AppReap, vars
  <2> QED
    BY <1>1, <2>1, SameMixed, LosesNothing
<1>5. CASE WaitpidClose
  <2>1. owner[child_pipe_input] = "pipeIn" /\ child_pipe_input \in Fds
    BY <1>5 DEF WaitpidClose, DescriptorInv, Descriptors, OwnNumbers, TypeOK, DescriptorTypes
  <2>2. link' = link
    BY <1>1, <1>5, <2>1, WritersAreNotKinds, CloseFdPlain DEF WaitpidClose
  <2> QED
    BY <1>1, <1>5, <2>2, SameMixed, LosesNothing DEF WaitpidClose
<1>6. CASE Select
  <2>1. /\ UNCHANGED <<sock, link, stream, pos>> /\ error_fd_set' = {} /\ pc = "select"
    BY <1>6 DEF Select, Exceptional
  <2>2. error_fd_set = {}
    BY DEF NothingLost
  <2> QED
    BY <1>1, <2>1, <2>2, SameMixed, LosesNothing DEF Looping
<1>7. CASE SelectFails \/ EndScan \/ Return
  BY <1>1, <1>7, SameMixed, LosesNothing
     DEF SelectFails, EndScan, Return, Looping, Scanning, Reading
<1>8. CASE CloseListener
  BY <1>8 DEF CloseListener, NothingLost, Looping, Scanning, Reading
<1>9. ASSUME NEW fd \in Fds, ScanStep(fd) PROVE NothingLost'
  <2>1. error_fd_set = {}
    BY DEF NothingLost
  <2>2. CASE DropErrored(fd)
    BY <2>1, <2>2 DEF DropErrored
  <2>3. CASE CloseStraggler(fd)
    BY <2>1, <2>3 DEF CloseStraggler, NothingLost, Looping, Scanning, Reading
  <2>4. CASE AcceptFails(fd) \/ StartMessage(fd)
    <3>1. /\ UNCHANGED <<sock, link, stream, pos>> /\ pc = "scan" /\ error_fd_set' = error_fd_set
      BY <2>1, <2>4 DEF AcceptFails, StartMessage, Visit
    <3> QED
      BY <1>1, <3>1, SameMixed, LosesNothing DEF Looping, Scanning
  <2>5. CASE Accept(fd)
    <3>1. /\ UNCHANGED <<sock, stream, pos>> /\ pc = "scan" /\ error_fd_set' = error_fd_set
          /\ link' = [link EXCEPT ![Head(backlog)] = "open"]
      BY <2>1, <2>5 DEF Accept, AcceptAs, Visit
    <3>2. \A x \in Writers : link'[x] = link[x] \/ link'[x] = "open"
      BY <1>1, <3>1
    <3> QED
      BY <1>1, <3>1, <3>2, SameMixed, LosesNothing DEF Looping, Scanning
  <2>6. CASE ChildPipe(fd)
    <3>1. fd \in Ahead /\ fd = child_pipe_output /\ pc = "scan" /\ CloseFd(fd)
      BY <2>6 DEF ChildPipe, Visit
    <3>2. owner[fd] = "pipeOut"
      BY <3>1 DEF DescriptorInv, Descriptors, ScanSets, OwnNumbers, Looping, Scanning
    <3>3. link' = link
      BY <1>1, <3>1, <3>2, WritersAreNotKinds, CloseFdPlain
    <3>4. UNCHANGED <<sock, stream, pos>> /\ error_fd_set' = error_fd_set
      BY <2>1, <2>6 DEF ChildPipe, Visit
    <3> QED
      BY <1>1, <3>1, <3>3, <3>4, SameMixed, LosesNothing DEF Looping, Scanning
  <2> QED
    BY <1>9, <2>2, <2>3, <2>4, <2>5, <2>6 DEF ScanStep
<1>10. CASE ReadMsgType \/ ReadEventType \/ HandleEvent
  <2>1. /\ pc \in Reading /\ UNCHANGED <<sock, stream, error_fd_set>>
        /\ \A x \in Writers : link[x] = "gone" => pos'[x] = pos[x]
    BY <1>10, ReadEffect DEF Reading, ReadMsgType, ReadEventType, HandleEvent
  <2> QED
    BY <1>1, <1>10, <2>1, MessageLosesNothing, SameMixed, LosesNothing DEF Looping, Scanning
<1> QED
  BY <1>2, <1>3, <1>4, <1>5, <1>6, <1>7, <1>8, <1>9, <1>10
     DEF Next, Returned, WaitpidStep, ServerStep

\* While the loop runs nothing that was sent is given up, unless select() reports errors.
THEOREM LosesOnlyOnErrors == Spec => []NothingLost
<1>1. Init => NothingLost
  BY DEF Init, NothingLost, Lost
<1>2. DescriptorInv /\ FrameInv /\ ScanOrder /\ NothingLost /\ [Next]_vars => NothingLost'
  <2>1. CASE KernelErrors
    BY <2>1 DEF NothingLost
  <2>2. CASE ~KernelErrors
    BY <2>2, LossSteps DEF ScanOrder
  <2> QED
    BY <2>1, <2>2, ServerAssumption
<1> QED
  BY <1>1, <1>2, DescriptorsInOrder, FramesInOrder, ScansInOrder, PTL DEF Spec

-----------------------------------------------------------------------------
(* The callbacks of first events. *)

\* A step without a callback that brings no connection to the end of its first frame.
LEMMA SilentFirsts ==
  ASSUME TypeOK, FirstLogged, UNCHANGED log,
         \A x \in Writers : x \in Mixed => x \in Mixed',
         \A x \in Writers \ Mixed : pos'[x] >= 3 => pos[x] >= 3,
         \A x \in Writers : wpc'[x] = "unborn" \/ sock'[x] # x =>
             (wpc[x] = "unborn" \/ sock[x] # x) /\ seen'[x] = seen[x],
         \A x \in Writers : /\ wpc'[x] = "unborn" => wpc[x] = "unborn"
                            /\ wpc[x] # "unborn" => seen'[x] = seen[x]
  PROVE  FirstLogged'
<1>1. \A d \in Writers \ Mixed' : FirstHeard(d)' => \E j \in DOMAIN log' : log'[j][1] = d
  BY DEF FirstLogged, FirstHeard
<1>2. \A w \in Writers : wpc'[w] = "unborn" \/ sock'[w] # w => seen'[w] = {}
  BY DEF FirstLogged
<1>3. FirstEventOrder'
  <2> SUFFICES ASSUME NEW i \in DOMAIN log, NEW d \in seen'[log[i][1]] \ Mixed'
               PROVE  \E j \in 1 .. i - 1 : log[j][1] = d
    BY DEF FirstEventOrder
  <2> PICK e \in Writers \X Nat : e = log[i]
    BY DEF TypeOK, LoopTypes
  <2>1. e[1] \in Writers /\ seen'[e[1]] = seen[e[1]]
    BY DEF FirstLogged
  <2>2. seen[e[1]] \subseteq Writers
    BY <2>1 DEF TypeOK, ProcessTypes
  <2>3. d \in seen[e[1]] \ Mixed
    BY <2>1, <2>2
  <2> QED
    BY <2>3 DEF FirstLogged, FirstEventOrder
<1>4. \A i \in DOMAIN log' : wpc'[log'[i][1]] # "unborn"
  BY DEF FirstLogged, TypeOK, LoopTypes
<1> QED
  BY <1>1, <1>2, <1>3, <1>4 DEF FirstLogged

\* A callback is for a process that has seen nothing or whose own connection is being
\* read, by when everyone that one follows has been heard of.
LEMMA CallbackFirsts ==
  ASSUME DescriptorInv, FrameInv, AllFollow, NothingLost, ~KernelErrors, FirstLogged,
         pc \in Reading, UNCHANGED <<writerVars, stream>>,
         NEW d \in Writers, d = Conn, NEW e \in Writers \X Nat, log' = Append(log, e),
         wpc[e[1]] # "unborn", e[1] = d \/ seen[e[1]] = {}, d \notin Mixed => e[1] = d,
         \A x \in Writers : x # d => pos'[x] = pos[x]
  PROVE  FirstLogged'
<1>1. /\ log \in Seq(Writers \X Nat)
      /\ DOMAIN log = 1 .. Len(log) /\ Len(log) \in Nat
      /\ DOMAIN log' = 1 .. Len(log) + 1
      /\ \A i \in DOMAIN log : log'[i] = log[i]
      /\ log'[Len(log) + 1] = e
  BY DEF DescriptorInv, TypeOK, LoopTypes
<1>2. Mixed' = Mixed
  BY SameMixed
<1>3. link[d] = "open" /\ Coming(d)
  BY ReadConnection DEF Coming, Conn
<1>4. \A i \in DOMAIN log' : wpc'[log'[i][1]] # "unborn"
  BY <1>1 DEF FirstLogged
<1>5. \A x \in Writers \ Mixed' : FirstHeard(x)' => \E j \in DOMAIN log' : log'[j][1] = x
  <2> SUFFICES ASSUME NEW x \in Writers \ Mixed, pos'[x] >= 3
               PROVE  \E j \in DOMAIN log' : log'[j][1] = x
    BY <1>2 DEF FirstHeard
  <2>1. CASE x = d
    BY <1>1, <2>1, SMTT(30)
  <2>2. CASE x # d
    <3>1. PICK j \in DOMAIN log : log[j][1] = x
      BY <2>2 DEF FirstLogged, FirstHeard
    <3> QED
      BY <1>1, <3>1
  <2> QED
    BY <2>1, <2>2
<1>6. \A w \in Writers : wpc'[w] = "unborn" \/ sock'[w] # w => seen'[w] = {}
  BY DEF FirstLogged
<1>7. FirstEventOrder'
  <2> SUFFICES ASSUME NEW i \in DOMAIN log', NEW x \in seen[log'[i][1]] \ Mixed
               PROVE  \E j \in 1 .. i - 1 : log'[j][1] = x
    BY <1>2 DEF FirstEventOrder
  <2>1. CASE i \in DOMAIN log
    <3>1. PICK j \in 1 .. i - 1 : log[j][1] = x
      BY <1>1, <2>1 DEF FirstLogged, FirstEventOrder
    <3> QED
      BY <1>1, <2>1, <3>1
  <2>2. CASE i = Len(log) + 1
    <3>1. x \in seen[d] \ Mixed /\ x \in Writers
      BY <1>1, <2>2 DEF DescriptorInv, TypeOK, ProcessTypes
    <3>2. Follows(d, x)
      BY <3>1 DEF AllFollow
    <3>3. Settled(x)
      BY <1>3, <3>2 DEF Follows
    <3>4. ~Lost(x)
      BY <3>1 DEF NothingLost, Looping, Scanning
    <3>5. PICK j \in DOMAIN log : log[j][1] = x
      BY <3>1, <3>3, <3>4 DEF Settled, FirstLogged
    <3> QED
      BY <1>1, <2>2, <3>5
  <2> QED
    BY <1>1, <2>1, <2>2
<1> QED
  BY <1>4, <1>5, <1>6, <1>7 DEF FirstLogged

\* handle_message() reaches the end of a first frame only with a callback.
LEMMA MessageFirsts ==
  ASSUME DescriptorInv, FrameInv, CallbackInv, AllFollow, NothingLost, ~KernelErrors, FirstLogged,
         ReadMsgType \/ ReadEventType \/ HandleEvent
  PROVE  FirstLogged'
<1>1. /\ pc \in Reading /\ UNCHANGED <<writerVars, stream>>
      /\ \A x \in Writers : x # Conn => pos'[x] = pos[x]
  BY ReadEffect DEF Reading, ReadMsgType, ReadEventType, HandleEvent
<1> PICK d \in Writers : d = Conn
  BY <1>1, ReadConnection
<1>2. /\ pos[d] \in Nat /\ Len(stream[d]) \in Nat
      /\ stream[d] \in Seq(Items) /\ sock[d] = d /\ wpc[d] # "unborn"
      /\ d \notin Mixed => Frames(d)
  BY <1>1, ReadConnection DEF FrameState, Connected
<1>3. /\ TypeOK /\ Mixed' = Mixed
      /\ \A x \in Writers : wpc'[x] = wpc[x] /\ sock'[x] = sock[x] /\ seen'[x] = seen[x]
  BY <1>1, SameMixed DEF DescriptorInv
<1>4. ASSUME UNCHANGED log, d \notin Mixed /\ pos'[d] >= 3 => pos[d] >= 3
      PROVE  FirstLogged'
  <2>1. \A x \in Writers \ Mixed : pos'[x] >= 3 => pos[x] >= 3
    BY <1>1, <1>4
  <2> QED
    BY <1>3, <1>4, <2>1, SilentFirsts
<1>5. ASSUME NEW kinds, ReadsItem(kinds), ReadPhase(d) # 2
      PROVE  d \notin Mixed /\ pos'[d] >= 3 => pos[d] >= 3
  <2>1. pos'[d] = pos[d] + 1
    BY <1>5 DEF ReadsItem, DescriptorInv, TypeOK, WireTypes
  <2>2. d \notin Mixed => pos[d] % 3 # 2
    BY <1>2, <1>5 DEF Frames, ReadsItem, Unread
  <2> QED
    BY <1>2, <2>1, <2>2
<1>6. ReadsEof => pos'[d] = pos[d]
  BY DEF ReadsEof
<1>7. CASE ReadMsgType
  <2>1. ReadPhase(d) = 0
    BY <1>7 DEF ReadPhase, ReadMsgType
  <2> QED
    BY <1>4, <1>5, <1>6, <1>7, <2>1 DEF ReadMsgType
<1>8. CASE ReadEventType
  <2>1. ReadPhase(d) = 1
    BY <1>8 DEF ReadPhase, ReadEventType, Conn
  <2> QED
    BY <1>4, <1>5, <1>6, <1>8, <2>1 DEF ReadEventType
<1>9. CASE HandleEvent
  <2>1. ReadPhase(d) = 2
    BY <1>9 DEF ReadPhase, HandleEvent, Conn
  <2>2. CASE ReadsEof /\ UNCHANGED log
    BY <1>4, <1>6, <2>2
  <2>3. CASE ReadsItem({"EVENT", "TYPE", "DONE"})
    <3>1. d \in Mixed
      BY <1>1, <1>2, <2>1, <2>3, ItemRead DEF KindsAt
    <3>2. CASE UNCHANGED log
      BY <1>4, <3>1, <3>2
    <3>3. CASE log' = Append(log, Garbled(Conn))
      <4>1. Garbled(Conn) \in Writers \X Nat /\ Garbled(Conn)[1] = d
        BY DEF Garbled
      <4> QED
        BY <1>1, <1>2, <3>1, <3>3, <4>1, CallbackFirsts
    <3> QED
      BY <1>9, <2>3, <3>2, <3>3 DEF HandleEvent, ReadsItem, ReadsEof
  <2>4. CASE ReadsItem({"BODY"}) /\ log' = Append(log, NextItem(Conn).ev)
    <3>1. PICK m \in Nat : m = pos[d] + 1
      BY <1>2
    <3>2. m \in DOMAIN stream[d] /\ stream[d][m] = NextItem(Conn) /\ stream[d][m] \in Items
      BY <1>2, <2>4, <3>1 DEF ReadsItem, Unread, NextItem
    <3>3. PICK e \in Writers \X Nat : e = stream[d][m].ev
      BY <3>2 DEF Items
    <3>4. stream[d][m].kind = "BODY"
      BY <2>4, <3>2 DEF ReadsItem
    <3>5. d = sock[e[1]] /\ wpc[e[1]] # "unborn"
      <4>1. e[1] \in Writers /\ SentInOrder(e[1])
        BY DEF CallbackInv
      <4>2. EndsEventOf(e[1], d, m)
        BY <3>3, <3>4 DEF EndsEventOf
      <4> QED
        BY <3>2, <4>1, <4>2 DEF SentInOrder
    <3>6. e[1] = d \/ seen[e[1]] = {}
      BY <3>5 DEF FirstLogged
    <3>7. d \notin Mixed => e[1] = d
      BY <3>5 DEF Mixed
    <3> QED
      BY <1>1, <2>4, <3>2, <3>3, <3>5, <3>6, <3>7, CallbackFirsts
  <2> QED
    BY <1>9, <2>2, <2>3, <2>4 DEF HandleEvent
<1> QED
  BY <1>7, <1>8, <1>9

\* Every step.
LEMMA FirstSteps ==
  ASSUME DescriptorInv, FrameInv, CallbackInv, AllFollow, NothingLost, ~KernelErrors, FirstLogged,
         [Next]_vars
  PROVE  FirstLogged'
<1>1. /\ TypeOK
      /\ wpc \in [Writers -> {"unborn", "closed"} \cup Holding]
      /\ sock \in [Writers -> Writers]
      /\ \A x \in Writers : pos[x] \in Nat
  BY DEF DescriptorInv, TypeOK, ProcessTypes, WireTypes
<1>2. ASSUME NEW w \in Writers, WriterStep(w) PROVE FirstLogged'
  <2>1. UNCHANGED <<sock, pos, log>>
    BY <1>2 DEF WriterStep, Connect, ConnectFails, WriteMsgType, WriteEventType, WriteBody, WriteDone,
                WriteField, Die
  <2>2. \A x \in Writers : wpc'[x] = "unborn" => wpc[x] = "unborn" /\ seen'[x] = seen[x]
    BY <1>1, <1>2 DEF WriterStep, Connect, ConnectFails, WriteMsgType, WriteEventType, WriteBody,
                      WriteDone, WriteField, Die, TypeOK, ProcessTypes
  <2>3. \A x \in Writers : wpc[x] # "unborn" \/ sock[x] # x => seen'[x] = seen[x]
    <3>1. CASE Connect(w)
      <4>1. wpc[w] = "unborn" /\ sock[w] = w
        BY <3>1 DEF Connect, FrameInv, FrameState
      <4>2. \A x \in Writers : x # w => seen'[x] = seen[x]
        BY <1>1, <3>1 DEF Connect, TypeOK, ProcessTypes
      <4> QED
        BY <4>1, <4>2
    <3>2. CASE UNCHANGED seen
      BY <3>2
    <3> QED
      BY <1>2, <3>1, <3>2 DEF WriterStep, ConnectFails, WriteMsgType, WriteEventType, WriteBody,
                              WriteDone, WriteField, Die
  <2> QED
    BY <1>1, <2>1, <2>2, <2>3, SameMixed, SilentFirsts
<1>3. ASSUME NEW f \in Forks, Fork(f[1], f[2]) PROVE FirstLogged'
  <2> PICK w \in Writers, v \in Writers : w = f[1] /\ v = f[2]
    BY ServerAssumption
  <2>1. /\ UNCHANGED <<seen, pos, log>> /\ wpc[v] = "unborn"
        /\ wpc'[v] # "unborn"
        /\ \A x \in Writers \ {v} : wpc'[x] = wpc[x] /\ sock'[x] = sock[x]
    BY <1>1, <1>3 DEF Fork
  <2> QED
    BY <1>1, <1>3, <2>1, ForkMixes, SilentFirsts
<1>4. CASE ChildExit
  <2>1. \A x \in Writers : wpc'[x] = "unborn" => wpc[x] = "unborn"
    BY <1>4 DEF ChildExit
  <2> QED
    BY <1>1, <1>4, <2>1, SameMixed, SilentFirsts DEF ChildExit
<1>5. CASE \/ WaitpidStep \/ AppStep \/ UNCHANGED vars
           \/ Select \/ SelectFails \/ EndScan \/ CloseListener \/ Return
           \/ \E fd \in Fds : ScanStep(fd)
  <2>1. UNCHANGED <<writerVars, pos, log>>
    BY <1>5 DEF WaitpidStep, WaitpidReport, WaitpidClose, AppStep, AppOpen, AppClose,
                AppSpawn, AppReap, vars, Select, SelectFails, EndScan, CloseListener, Return,
                ScanStep, DropErrored, Accept, AcceptFails, ChildPipe, StartMessage, CloseStraggler
  <2> QED
    BY <1>1, <2>1, SameMixed, SilentFirsts
<1> QED
  BY <1>2, <1>3, <1>4, <1>5, MessageFirsts DEF Next, Returned, ServerStep

\* Unless select() reports errors, the callback for the first event of a process comes
\* after the callbacks for the first events that were complete before it connected.
THEOREM FirstEventsInOrder ==
  ASSUME ~KernelErrors
  PROVE  Spec => []FirstEventOrder
<1>1. Init => FirstLogged
  BY DEF Init, FirstLogged, FirstHeard, FirstEventOrder
<1>2. /\ DescriptorInv /\ FrameInv /\ CallbackInv /\ ScanOrder /\ NothingLost /\ FirstLogged
      /\ [Next]_vars
      => FirstLogged'
  BY FirstSteps DEF ScanOrder
<1>3. FirstLogged => FirstEventOrder
  BY DEF FirstLogged
<1> QED
  BY <1>1, <1>2, <1>3, DescriptorsInOrder, FramesInOrder, CallbacksInOrder, ScansInOrder,
     LosesOnlyOnErrors, PTL DEF Spec

-----------------------------------------------------------------------------
(* Counting. *)

\* Counting in threes.
LEMMA Thirds ==
  \A n \in Nat : /\ n \div 3 \in Nat
                 /\ n % 3 # 2 => (n + 1) \div 3 = n \div 3
                 /\ n % 3 = 2 => (n + 1) \div 3 = n \div 3 + 1
                 /\ n >= 3 <=> n \div 3 > 0
                 /\ \A m \in Nat : n <= m => n \div 3 <= m \div 3
                 /\ (3 * n) \div 3 = n
                 /\ (3 * n + 1) \div 3 = n
                 /\ (3 * n + 2) \div 3 = n
  OBVIOUS

\* The last item of a frame completes it.
LEMMA FullThird ==
  \A n, m \in Nat : n % 3 = 2 /\ n < m => n \div 3 < m \div 3
<1> SUFFICES ASSUME NEW n \in Nat, NEW m \in Nat, n % 3 = 2, n < m PROVE n \div 3 < m \div 3
  OBVIOUS
<1> PICK k \in Nat : k = n + 1
  OBVIOUS
<1>1. k \div 3 = n \div 3 + 1 /\ n \div 3 \in Nat /\ m \div 3 \in Nat
  BY Thirds
<1>2. k \div 3 <= m \div 3
  <2>1. k <= m
    OBVIOUS
  <2> QED
    BY <2>1, Thirds
<1> QED
  BY <1>1, <1>2

\* The abstract channel counts as everyone does.
LEMMA SameCardinality == \A S : Channel!Cardinality(S) = Cardinality(S)
  BY DEF Channel!Cardinality, Cardinality

\* The callbacks for c that were made.
CallbacksFor(c) == {i \in DOMAIN log : log[i][1] = c}

\* Those the channel counts as delivered.
LEMMA DeliveredCounts ==
  ASSUME NEW c
  PROVE  /\ Channel!Delivered(c) = Cardinality(CallbacksFor(c))
         /\ Channel!Delivered(c)' = Cardinality(CallbacksFor(c)')
  BY SameCardinality DEF Channel!Delivered, CallbacksFor

\* A callback counts for its own connection.
LEMMA DeliveredOneMore ==
  ASSUME TypeOK, NEW e \in Writers \X Nat, log' = Append(log, e), NEW c \in Writers
  PROVE  /\ Channel!Delivered(c) \in Nat
         /\ Channel!Delivered(c)' = Channel!Delivered(c) + (IF e[1] = c THEN 1 ELSE 0)
<1> DEFINE n == Len(log) + 1
<1>1. /\ log \in Seq(Writers \X Nat) /\ Len(log) \in Nat
      /\ DOMAIN log = 1 .. Len(log) /\ DOMAIN log' = 1 .. n
      /\ \A i \in DOMAIN log : log'[i] = log[i]
      /\ log'[n] = e
  BY DEF TypeOK, LoopTypes
<1>2. IsFiniteSet(CallbacksFor(c)) /\ Cardinality(CallbacksFor(c)) \in Nat
  <2>1. IsFiniteSet(1 .. Len(log))
    BY <1>1, FS_Interval
  <2> QED
    BY <1>1, <2>1, FS_Subset, FS_CardinalityType DEF CallbacksFor
<1>3. n \notin CallbacksFor(c)
  BY <1>1 DEF CallbacksFor
<1>4. CASE e[1] = c
  <2>1. CallbacksFor(c)' = CallbacksFor(c) \cup {n}
    BY <1>1, <1>4 DEF CallbacksFor
  <2>2. Cardinality(CallbacksFor(c)') = Cardinality(CallbacksFor(c)) + 1
    BY <1>2, <1>3, <2>1, FS_AddElement
  <2> QED
    BY <1>2, <1>4, <2>2, DeliveredCounts
<1>5. CASE e[1] # c
  <2>1. CallbacksFor(c)' = CallbacksFor(c)
    BY <1>1, <1>5 DEF CallbacksFor
  <2> QED
    BY <1>2, <1>5, <2>1, DeliveredCounts
<1> QED
  BY <1>4, <1>5

-----------------------------------------------------------------------------
(* Numbers of events. *)

\* No connection is shared.
LEMMA Unshared == ChannelInv => Mixed = {}
  BY DEF ChannelInv, Numbered, Mixed

\* accept() and close() connect nobody.
LEMMA OnlyConnectConnects ==
  ASSUME DescriptorInv, [Next]_vars, \A w \in Writers : ~Connect(w)
  PROVE  \A x \in Writers : Connected(x)' => Connected(x)
<1>1. \A fd \in Fds : CloseFd(fd) => \A x \in Writers : Connected(x)' => Connected(x)
  BY DEF CloseFd, Connected
<1>2. UNCHANGED link => \A x \in Writers : Connected(x)' => Connected(x)
  BY DEF Connected
<1>3. server_sock \in Fds /\ child_pipe_input \in Fds
  BY DEF DescriptorInv, TypeOK, DescriptorTypes
<1>4. ASSUME NEW w \in Writers, WriterStep(w)
      PROVE  \A x \in Writers : Connected(x)' => Connected(x)
  <2>1. CASE ConnectFails(w)
    BY <2>1 DEF ConnectFails, Connected, DescriptorInv, TypeOK, DescriptorTypes
  <2> QED
    BY <1>2, <1>4, <2>1 DEF WriterStep, WriteMsgType, WriteEventType, WriteBody, WriteDone,
                            WriteField, Die
<1>5. CASE ChildExit \/ WaitpidStep \/ AppStep \/ UNCHANGED vars \/ \E f \in Forks : Fork(f[1], f[2])
  BY <1>1, <1>2, <1>3, <1>5
     DEF ChildExit, WaitpidStep, WaitpidReport, WaitpidClose, AppStep, AppOpen, AppClose,
         AppSpawn, AppReap, Fork, vars
<1>6. CASE Select \/ SelectFails \/ EndScan \/ CloseListener \/ Return
  BY <1>1, <1>2, <1>3, <1>6 DEF Select, SelectFails, EndScan, CloseListener, Return
<1>7. ASSUME NEW fd \in Fds, ScanStep(fd) PROVE \A x \in Writers : Connected(x)' => Connected(x)
  <2>1. CASE Accept(fd)
    <3>1. backlog # <<>> /\ backlog \in Seq(Writers)
      BY <2>1 DEF Accept, Visit, Ahead, DescriptorInv, Descriptors, ScanSets, TypeOK,
                  DescriptorTypes
    <3>2. backlog[1] = Head(backlog) /\ 1 \in DOMAIN backlog
      BY <3>1
    <3>3. link[Head(backlog)] = "queued" /\ link' = [link EXCEPT ![Head(backlog)] = "open"]
      BY <2>1, <3>2 DEF Accept, AcceptAs, DescriptorInv, Descriptors, Connections
    <3> QED
      BY <3>3 DEF Connected, DescriptorInv, TypeOK, DescriptorTypes
  <2> QED
    BY <1>1, <1>2, <1>7, <2>1
       DEF ScanStep, DropErrored, AcceptFails, ChildPipe, StartMessage, CloseStraggler
<1>8. CASE ReadMsgType \/ ReadEventType \/ HandleEvent
  <2>1. cur \in Fds
    BY <1>8 DEF ReadMsgType, ReadEventType, HandleEvent, Reading, DescriptorInv, Descriptors,
                ScanSets
  <2>2. EndConnection \/ UNCHANGED link
    BY <1>8 DEF ReadMsgType, ReadEventType, HandleEvent, NextFd, NextField
  <2> QED
    BY <1>1, <1>2, <2>1, <2>2 DEF EndConnection
<1> QED
  BY <1>4, <1>5, <1>6, <1>7, <1>8 DEF Next, Returned, ServerStep

\* A step that sends, reads and calls back nothing.
LEMMA QuietNumbers ==
  ASSUME ChannelInv, UNCHANGED <<sock, nev, stream, pos, log>>,
         \A x \in Writers : wpc'[x] = wpc[x] \/ wpc'[x] = "closed",
         \A x \in Writers : Connected(x)' => Connected(x)
  PROVE  ChannelInv'
<1> SUFFICES ASSUME NEW c \in Writers PROVE Numbered(c)'
  BY DEF ChannelInv
<1>1. Numbered(c)
  BY DEF ChannelInv
<1>2. Channel!Delivered(c)' = Channel!Delivered(c)
  BY DEF Channel!Delivered
<1> QED
  BY <1>1, <1>2 DEF Numbered

\* A new connection starts with its first event.
LEMMA ConnectNumbers ==
  ASSUME DescriptorInv, FrameInv, ChannelInv, NEW w \in Writers, Connect(w) \/ ConnectFails(w)
  PROVE  ChannelInv'
<1>1. /\ UNCHANGED <<sock, nev, stream, pos, log>>
      /\ wpc[w] = "unborn" /\ wpc' = [wpc EXCEPT ![w] = "idle"]
      /\ \A x \in Writers : x = w \/ link'[x] = link[x]
  BY DEF Connect, ConnectFails, DescriptorInv, TypeOK, DescriptorTypes
<1>2. stream[w] = <<>> /\ nev[w] = 0
  BY <1>1 DEF DescriptorInv, Descriptors, Connections, FrameInv, FrameState, ChannelInv, Numbered
<1>3. wpc'[w] = "idle" /\ \A x \in Writers : x = w \/ wpc'[x] = wpc[x]
  BY <1>1 DEF DescriptorInv, TypeOK, ProcessTypes
<1> SUFFICES ASSUME NEW c \in Writers PROVE Numbered(c)'
  BY DEF ChannelInv
<1>4. Numbered(c)
  BY DEF ChannelInv
<1>5. Channel!Delivered(c)' = Channel!Delivered(c)
  BY <1>1 DEF Channel!Delivered
<1> QED
  BY <1>1, <1>2, <1>3, <1>4, <1>5 DEF Numbered, Connected

\* How long a connection is when its writer is at a place of its n-th event.
LengthAt(at, n) == CASE at = "idle" -> 3 * n
                     [] at = "type" -> 3 * n - 2
                     [] at = "body" -> 3 * n - 1

\* What a field does to the number of events sent in full.
LEMMA FieldLength ==
  ASSUME DescriptorInv, ChannelInv, NEW w \in Writers,
         NEW from \in {"idle", "type", "body"}, NEW to,
         NEW n \in Nat, NEW kind \in ItemKinds, WriteField(w, from, to, n, kind)
  PROVE  /\ UNCHANGED <<sock, seen, link, pos, log>>
         /\ wpc[w] = from /\ nev[w] \in Nat /\ nev'[w] = n
         /\ wpc'[w] = to
         /\ \A x \in Writers : x = w \/ (wpc'[x] = wpc[x] /\ nev'[x] = nev[x])
         /\ \A x \in Writers : x = w \/ stream'[x] = stream[x]
         /\ stream[w] \in Seq(Items) /\ Len(stream[w]) \in Nat
         /\ ~Connected(w) => stream'[w] = stream[w]
         /\ Connected(w) => /\ Len(stream[w]) = LengthAt(from, nev[w])
                            /\ stream'[w] = Append(stream[w], Item(w, n, kind))
<1>1. sock[w] = w /\ Numbered(w)
  BY DEF ChannelInv, Numbered
<1>2. Connected(w) => Len(stream[w]) = LengthAt(from, nev[w])
  BY <1>1 DEF WriteField, Numbered, LengthAt
<1> QED
  BY <1>1, <1>2 DEF WriteField, Send, DescriptorInv, TypeOK, ProcessTypes, WireTypes

\* The n-th event takes the items 3n - 2 to 3n.
LEMMA FieldNumbers ==
  ASSUME DescriptorInv, ChannelInv, NEW w \in Writers,
         NEW from \in {"idle", "type", "body"}, NEW to \in {"idle", "type", "body", "closed"},
         NEW n \in Nat, NEW kind \in ItemKinds, WriteField(w, from, to, n, kind),
         kind = "BODY" => from = "body" /\ n = nev[w],
         to # "closed" => LengthAt(to, n) = LengthAt(from, nev[w]) + 1
  PROVE  ChannelInv'
<1> SUFFICES ASSUME NEW c \in Writers PROVE Numbered(c)'
  BY DEF ChannelInv
<1>1. Numbered(c)
  BY DEF ChannelInv
<1>2. UNCHANGED <<sock, pos, link>> /\ Channel!Delivered(c)' = Channel!Delivered(c)
  BY DEF WriteField, Channel!Delivered
<1>3. Connected(c)' <=> Connected(c)
  BY <1>2 DEF Connected
<1>4. CASE c # w
  <2>1. stream'[c] = stream[c] /\ wpc'[c] = wpc[c] /\ nev'[c] = nev[c]
    BY <1>4, FieldLength
  <2> QED
    BY <1>1, <1>2, <1>3, <2>1 DEF Numbered
<1>5. CASE c = w
  <2> DEFINE m == Len(stream[c])
  <2>1. /\ wpc[c] = from /\ nev[c] \in Nat /\ nev'[c] = n /\ wpc'[c] = to
        /\ stream[c] \in Seq(Items) /\ m \in Nat
        /\ ~Connected(c) => stream'[c] = stream[c]
        /\ Connected(c) => /\ m = LengthAt(from, nev[c])
                           /\ stream'[c] = Append(stream[c], Item(c, n, kind))
    BY <1>5, FieldLength
  <2>2. \A i \in DOMAIN stream'[c] :
           stream'[c][i].kind = "BODY" => stream'[c][i].ev = <<c, i \div 3>>
    <3>1. CASE ~Connected(c)
      BY <1>1, <2>1, <3>1 DEF Numbered
    <3>2. CASE Connected(c)
      <4> SUFFICES ASSUME NEW i \in DOMAIN stream'[c], stream'[c][i].kind = "BODY"
                   PROVE  stream'[c][i].ev = <<c, i \div 3>>
        OBVIOUS
      <4>1. \/ i \in DOMAIN stream[c] /\ stream'[c][i] = stream[c][i]
            \/ i = m + 1 /\ stream'[c][i] = Item(c, n, kind)
        BY <2>1, <3>2
      <4>2. CASE i \in DOMAIN stream[c] /\ stream'[c][i] = stream[c][i]
        BY <1>1, <4>2 DEF Numbered
      <4>3. CASE i = m + 1 /\ stream'[c][i] = Item(c, n, kind)
        <5>1. kind = "BODY" /\ stream'[c][i].ev = <<c, n>>
          BY <4>3 DEF Item
        <5>2. from = "body" /\ n = nev[c]
          BY <1>5, <5>1
        <5>3. m = 3 * n - 1
          BY <2>1, <3>2, <5>2 DEF LengthAt
        <5>4. i = 3 * n
          BY <2>1, <4>3, <5>3
        <5> QED
          BY <5>1, <5>4, Thirds
      <4> QED
        BY <4>1, <4>2, <4>3
    <3> QED
      BY <3>1, <3>2
  <2>3. Connected(c) /\ to # "closed" => Len(stream'[c]) = LengthAt(to, n)
    BY <1>5, <2>1
  <2> QED
    BY <1>1, <1>2, <1>3, <2>1, <2>2, <2>3 DEF Numbered, LengthAt
<1> QED
  BY <1>4, <1>5

\* What handle_message() reads leaves the number of events delivered, but for a callback.
LEMMA FieldsRead ==
  ASSUME DescriptorInv, FrameInv, ChannelInv, ReadMsgType \/ ReadEventType
  PROVE  \A x \in Writers : pos'[x] \in Nat /\ pos'[x] \div 3 = pos[x] \div 3
<1>1. /\ pc \in Reading
      /\ \A x \in Writers : pos'[x] \in Nat /\ (x # Conn => pos'[x] = pos[x])
  BY ReadEffect DEF Reading, ReadMsgType, ReadEventType
<1> PICK d \in Writers : d = Conn
  BY <1>1, ReadConnection
<1>2. pos[d] \in Nat /\ Frames(d) /\ Len(stream[d]) \in Nat
  BY <1>1, ReadConnection, Unshared DEF FrameState, Connected
<1>3. ReadPhase(d) # 2
  BY DEF ReadPhase, ReadMsgType, ReadEventType
<1>4. ASSUME NEW kinds, ReadsItem(kinds) PROVE pos'[d] \div 3 = pos[d] \div 3
  <2>1. pos'[d] = pos[d] + 1
    BY <1>4 DEF ReadsItem, DescriptorInv, TypeOK, WireTypes
  <2>2. pos[d] % 3 # 2
    BY <1>2, <1>3, <1>4 DEF Frames, ReadsItem, Unread
  <2> QED
    BY <1>2, <2>1, <2>2, Thirds
<1>5. ReadsEof => pos'[d] = pos[d]
  BY DEF ReadsEof
<1>6. pos'[d] \div 3 = pos[d] \div 3
  BY <1>4, <1>5 DEF ReadMsgType, ReadEventType
<1> QED
  BY <1>1, <1>6

\* A handler calls back the event that it has read, or nothing at the end of the file.
LEMMA EventHandled ==
  ASSUME DescriptorInv, FrameInv, ChannelInv, HandleEvent, NEW d \in Writers, d = Conn
  PROVE  /\ NextFd /\ link[d] = "open" /\ pos[d] \in Nat /\ Len(stream[d]) \in Nat
         /\ \/ UNCHANGED <<pos, log>>
            \/ /\ pos' = [pos EXCEPT ![d] = @ + 1]
               /\ pos[d] % 3 = 2
               /\ pos[d] < Len(stream[d])
               /\ log' = Append(log, <<d, (pos[d] + 1) \div 3>>)
<1>1. pc \in Reading /\ ReadPhase(d) = 2
  BY DEF HandleEvent, Reading, ReadPhase, Conn
<1>2. /\ pos[d] \in Nat /\ Frames(d) /\ Len(stream[d]) \in Nat /\ stream[d] \in Seq(Items)
      /\ link[d] = "open"
  BY <1>1, ReadConnection, Unshared DEF FrameState, Connected
<1>3. ~ReadsItem({"EVENT", "TYPE", "DONE"})
  BY <1>1, <1>2, ItemRead DEF KindsAt
<1>4. CASE ReadsItem({"BODY"}) /\ log' = Append(log, NextItem(Conn).ev)
  <2> DEFINE m == pos[d] + 1
  <2>1. m \in DOMAIN stream[d] /\ pos[d] < Len(stream[d])
    BY <1>2, <1>4 DEF ReadsItem, Unread
  <2>2. stream[d][m].kind = "BODY" /\ NextItem(Conn) = stream[d][m]
    BY <1>4 DEF ReadsItem, NextItem
  <2>3. stream[d][m].ev = <<d, m \div 3>>
    BY <2>1, <2>2 DEF ChannelInv, Numbered
  <2>4. pos[d] % 3 = 2
    BY <1>1, <1>2, <2>1 DEF Frames
  <2>5. NextFd
    BY <1>3 DEF HandleEvent
  <2> QED
    BY <1>2, <1>4, <2>1, <2>2, <2>3, <2>4, <2>5 DEF ReadsItem
<1>5. CASE ReadsEof /\ NextFd /\ UNCHANGED log
  BY <1>2, <1>5 DEF ReadsEof
<1> QED
  BY <1>3, <1>4, <1>5 DEF HandleEvent

\* A step that moves along one connection.
LEMMA ReadNumbers ==
  ASSUME DescriptorInv, FrameInv, ChannelInv, [Next]_vars,
         ReadMsgType \/ ReadEventType \/ HandleEvent
  PROVE  ChannelInv'
<1>1. UNCHANGED <<writerVars, stream>> /\ \A w \in Writers : ~Connect(w)
  <2>1. UNCHANGED <<writerVars, stream>>
    BY DEF ReadMsgType, ReadEventType, HandleEvent
  <2>2. \A w \in Writers : Connect(w) => wpc[w] = "unborn" /\ wpc'[w] = "idle"
    BY DEF Connect, DescriptorInv, TypeOK, ProcessTypes
  <2> QED
    BY <2>1, <2>2
<1>2. \A x \in Writers : Connected(x)' => Connected(x)
  BY <1>1, OnlyConnectConnects
<1> SUFFICES ASSUME NEW c \in Writers PROVE Channel!Delivered(c)' = pos'[c] \div 3
  BY <1>1, <1>2 DEF ChannelInv, Numbered
<1>3. Channel!Delivered(c) = pos[c] \div 3
  BY DEF ChannelInv, Numbered
<1>4. UNCHANGED log => Channel!Delivered(c)' = Channel!Delivered(c)
  BY DEF Channel!Delivered
<1>5. CASE ReadMsgType \/ ReadEventType
  BY <1>3, <1>4, <1>5, FieldsRead DEF ReadMsgType, ReadEventType
<1>6. CASE HandleEvent
  <2>1. PICK d \in Writers : d = Conn
    BY <1>6, ReadConnection DEF HandleEvent, Reading
  <2>2. CASE UNCHANGED <<pos, log>>
    BY <1>3, <1>4, <2>2
  <2>3. CASE ~UNCHANGED <<pos, log>>
    <3>1. /\ pos' = [pos EXCEPT ![d] = @ + 1] /\ pos[d] % 3 = 2 /\ pos[d] \in Nat
          /\ log' = Append(log, <<d, (pos[d] + 1) \div 3>>)
      BY <1>6, <2>1, <2>3, EventHandled
    <3> PICK n \in Nat : n = pos[d]
      BY <3>1
    <3>2. (n + 1) \div 3 = n \div 3 + 1 /\ (n + 1) \div 3 \in Nat
      BY <3>1, Thirds
    <3> PICK e \in Writers \X Nat : e = <<d, (n + 1) \div 3>>
      BY <3>2
    <3>3. Channel!Delivered(c)' = Channel!Delivered(c) + (IF d = c THEN 1 ELSE 0)
          /\ Channel!Delivered(c) \in Nat
      BY <3>1, <3>2, DeliveredOneMore DEF DescriptorInv
    <3>4. pos'[c] = IF d = c THEN pos[c] + 1 ELSE pos[c]
      BY <3>1 DEF DescriptorInv, TypeOK, WireTypes
    <3> QED
      BY <1>3, <3>2, <3>3, <3>4
  <2> QED
    BY <2>2, <2>3
<1> QED
  BY <1>5, <1>6

\* Every step.
LEMMA NumberSteps ==
  ASSUME Forks = {}, DescriptorInv, FrameInv, ChannelInv, [Next]_vars
  PROVE  ChannelInv'
<1>1. ASSUME NEW w \in Writers, WriterStep(w) PROVE ChannelInv'
  <2>1. nev[w] \in Nat /\ nev[w] + 1 \in Nat
    BY DEF DescriptorInv, TypeOK, ProcessTypes
  <2>2. CASE WriteMsgType(w)
    <3>1. LengthAt("type", nev[w] + 1) = LengthAt("idle", nev[w]) + 1
      BY <2>1 DEF LengthAt
    <3> QED
      BY <2>1, <2>2, <3>1, FieldNumbers DEF WriteMsgType, ItemKinds
  <2>3. CASE WriteEventType(w)
    <3>1. LengthAt("body", nev[w]) = LengthAt("type", nev[w]) + 1
      BY <2>1 DEF LengthAt
    <3> QED
      BY <2>1, <2>3, <3>1, FieldNumbers DEF WriteEventType, ItemKinds
  <2>4. CASE WriteBody(w)
    <3>1. LengthAt("idle", nev[w]) = LengthAt("body", nev[w]) + 1
      BY <2>1 DEF LengthAt
    <3> QED
      BY <2>1, <2>4, <3>1, FieldNumbers DEF WriteBody, ItemKinds
  <2>5. CASE WriteDone(w)
    BY <2>1, <2>5, FieldNumbers DEF WriteDone, ItemKinds
  <2>6. CASE Die(w)
    <3>1. \A x \in Writers : wpc'[x] = wpc[x] \/ wpc'[x] = "closed"
      BY <2>6 DEF Die, DescriptorInv, TypeOK, ProcessTypes
    <3>2. \A x \in Writers : Connected(x)' => Connected(x)
      BY <2>6 DEF Die, Connected
    <3> QED
      BY <2>6, <3>1, <3>2, QuietNumbers DEF Die
  <2> QED
    BY <1>1, <2>2, <2>3, <2>4, <2>5, <2>6, ConnectNumbers DEF WriterStep
<1>2. CASE \/ ChildExit \/ WaitpidStep \/ AppStep \/ UNCHANGED vars
           \/ Select \/ SelectFails \/ EndScan \/ CloseListener \/ Return
           \/ \E fd \in Fds : ScanStep(fd)
  <2>1. UNCHANGED <<sock, nev, seen, stream, pos, log>>
    BY <1>2 DEF ChildExit, WaitpidStep, WaitpidReport, WaitpidClose, AppStep, AppOpen, AppClose,
                AppSpawn, AppReap, vars, Select, SelectFails, EndScan, CloseListener, Return,
                ScanStep, DropErrored, Accept, AcceptFails, ChildPipe, StartMessage, CloseStraggler
  <2>2. \A x \in Writers : wpc'[x] = wpc[x] \/ wpc'[x] = "closed"
    BY <1>2 DEF ChildExit, WaitpidStep, WaitpidReport, WaitpidClose, AppStep, AppOpen, AppClose,
                AppSpawn, AppReap, vars, Select, SelectFails, EndScan, CloseListener, Return,
                ScanStep, DropErrored, Accept, AcceptFails, ChildPipe, StartMessage, CloseStraggler
  <2>3. \A w \in Writers : ~Connect(w)
    <3> SUFFICES ASSUME NEW w \in Writers, Connect(w) PROVE FALSE
      OBVIOUS
    <3>1. wpc'[w] = "idle" /\ wpc[w] = "unborn"
      BY DEF Connect, DescriptorInv, TypeOK, ProcessTypes
    <3> QED
      BY <2>2, <3>1
  <2> QED
    BY <2>1, <2>2, <2>3, OnlyConnectConnects, QuietNumbers
<1> QED
  BY <1>1, <1>2, ReadNumbers DEF Next, Returned, ServerStep

-----------------------------------------------------------------------------
(* Steps of the channel. *)

Over == pc \in {"shutdown", "stragglers", "done"}

\* A step that completes no event, gives nothing up and calls nothing back is none of
\* the channel.
LEMMA ChannelStays ==
  ASSUME UNCHANGED <<seen, log>>, Over' = Over,
         \A x \in Writers : Len(stream'[x]) \div 3 = Len(stream[x]) \div 3,
         \A x \in Writers : link[x] = "gone" => /\ link'[x] = "gone"
                                                /\ pos'[x] = pos[x]
                                                /\ stream'[x] = stream[x],
         \A x \in Writers : link'[x] = "gone" /\ link[x] # "gone" => ~Lost(x)'
  PROVE  UNCHANGED Channel!chan
<1>1. \A x \in Writers : Lost(x)' <=> Lost(x)
  BY DEF Lost
<1> QED
  BY <1>1 DEF Lost, Over, Channel!chan

\* Closing what was not read to its end is giving it up.
LEMMA ChannelLoses ==
  ASSUME UNCHANGED <<seen, log, stream, pos>>, Over' = Over, Over \/ KernelErrors,
         \A x \in Writers : link[x] = "gone" => link'[x] = "gone"
  PROVE  Channel!Lose
<1>1. \A x \in Writers : Lost(x) => Lost(x)'
  BY DEF Lost
<1> DEFINE before == {x \in Writers : Lost(x)}
           after == {x \in Writers : Lost(x)'}
<1>2. after \in SUBSET Writers /\ after = before \cup after
  BY <1>1
<1> QED
  BY <1>2 DEF Lost, Over, Channel!Lose

\* The loop ends.
LEMMA ChannelStops ==
  ASSUME UNCHANGED <<seen, log, stream, pos, link>>, Over'
  PROVE  Channel!Stop
  BY DEF Over, Channel!Stop

\* connect()
LEMMA ConnectImplements ==
  ASSUME DescriptorInv, FrameInv, NEW w \in Writers, Connect(w)
  PROVE  Channel!Connect(w)
<1>1. /\ UNCHANGED <<log, stream, pos, pc>>
      /\ seen' = [seen EXCEPT ![w] = {d \in Writers : Len(stream[d]) >= 3}]
      /\ link' = [link EXCEPT ![w] = "queued"] /\ link[w] = "none"
  BY DEF Connect, DescriptorInv, Descriptors, Connections
<1>2. Len(stream[w]) \div 3 = 0
  <2>1. Len(stream[w]) = 0
    BY <1>1 DEF FrameInv, FrameState
  <2> QED
    BY <2>1
<1>3. \A x \in Writers : Len(stream[x]) \in Nat
  BY DEF DescriptorInv, TypeOK, WireTypes
<1>4. {d \in Writers : Len(stream[d]) >= 3}
        = {d \in Writers : [c \in Writers |-> Len(stream[c]) \div 3][d] > 0}
  BY <1>3, Thirds
<1>5. \A x \in Writers : Lost(x)' <=> Lost(x)
  BY <1>1 DEF Lost, DescriptorInv, TypeOK, DescriptorTypes
<1> QED
  BY <1>1, <1>2, <1>4, <1>5 DEF Lost, Channel!Connect

\* The last field of an event posts it; the others do not count.
LEMMA FieldImplements ==
  ASSUME DescriptorInv, ChannelInv, NEW w \in Writers,
         NEW from \in {"idle", "type", "body"}, NEW to,
         NEW n \in Nat, NEW kind \in ItemKinds, WriteField(w, from, to, n, kind)
  PROVE  IF from = "body" /\ Connected(w) THEN Channel!Post(w) ELSE UNCHANGED Channel!chan
<1>1. UNCHANGED <<seen, link, pos, log, pc>>
  BY DEF WriteField
<1>2. /\ \A x \in Writers : x = w \/ stream'[x] = stream[x]
      /\ stream[w] \in Seq(Items) /\ Len(stream[w]) \in Nat /\ nev[w] \in Nat
      /\ ~Connected(w) => stream'[w] = stream[w]
  BY FieldLength
<1> PICK k \in Nat : k = nev[w]
  BY <1>2
<1>7. ASSUME Connected(w)
      PROVE  /\ Len(stream[w]) = LengthAt(from, k)
             /\ stream'[w] = Append(stream[w], Item(w, n, kind))
  BY <1>7, FieldLength
<1>3. Connected(w) => Len(stream'[w]) = Len(stream[w]) + 1
  BY <1>2, <1>7
<1>4. CASE ~Connected(w)
  BY <1>1, <1>2, <1>4, ChannelStays DEF Over
<1>5. CASE Connected(w) /\ from # "body"
  <2> PICK m \in Nat : m = Len(stream[w])
    BY <1>2
  <2>1. m % 3 # 2
    <3>1. m = 3 * k \/ m = 3 * k - 2
      BY <1>5, <1>7 DEF LengthAt
    <3>2. CASE m = 3 * k
      BY <3>2
    <3>3. CASE m = 3 * k - 2
      <4>1. m = 3 * (k - 1) + 1
        BY <3>3
      <4> QED
        BY <4>1
    <3> QED
      BY <3>1, <3>2, <3>3
  <2>2. (m + 1) \div 3 = m \div 3
    BY <2>1, Thirds
  <2>3. \A x \in Writers : Len(stream'[x]) \div 3 = Len(stream[x]) \div 3
    BY <1>2, <1>3, <1>5, <2>2
  <2> QED
    BY <1>1, <1>2, <1>5, <2>3, ChannelStays DEF Over, Connected
<1>6. CASE Connected(w) /\ from = "body"
  <2> PICK m \in Nat : m = Len(stream[w])
    BY <1>2
  <2>1. m % 3 = 2
    <3>1. m = 3 * k - 1
      BY <1>6, <1>7 DEF LengthAt
    <3> QED
      BY <3>1
  <2>2. (m + 1) \div 3 = m \div 3 + 1
    BY <2>1, Thirds
  <2>3. [c \in Writers |-> Len(stream'[c]) \div 3]
          = [[c \in Writers |-> Len(stream[c]) \div 3] EXCEPT ![w] = @ + 1]
    BY <1>2, <1>3, <1>6, <2>2
  <2>4. \A x \in Writers : Lost(x)' <=> Lost(x)
    BY <1>1, <1>2, <1>6 DEF Lost, Connected
  <2>5. ~Lost(w)
    BY <1>6 DEF Lost, Connected
  <2> QED
    BY <1>1, <1>6, <2>3, <2>4, <2>5 DEF Lost, Channel!Post
<1> QED
  BY <1>4, <1>5, <1>6

\* Outside of run_server only what connects and what completes an event counts.
LEMMA OthersImplement ==
  ASSUME DescriptorInv, FrameInv,
         \/ \E w \in Writers : ConnectFails(w) \/ Die(w)
         \/ ChildExit \/ WaitpidStep \/ AppStep \/ UNCHANGED vars
  PROVE  UNCHANGED Channel!chan
<1>1. UNCHANGED <<seen, log, stream, pos, pc>>
  BY DEF ConnectFails, Die, ChildExit, WaitpidStep, WaitpidReport, WaitpidClose, AppStep, AppOpen,
         AppClose, AppSpawn, AppReap, vars
<1>2. \A x \in Writers : \/ link'[x] = link[x]
                         \/ link'[x] = "gone" /\ stream[x] = <<>> /\ pos[x] = 0
  <2>1. ASSUME NEW w \in Writers, ConnectFails(w)
        PROVE  \A x \in Writers : \/ link'[x] = link[x]
                                  \/ link'[x] = "gone" /\ stream[x] = <<>> /\ pos[x] = 0
    <3>1. link[w] = "none" /\ link' = [link EXCEPT ![w] = "gone"]
      BY <2>1 DEF ConnectFails, DescriptorInv, Descriptors, Connections
    <3>2. stream[w] = <<>> /\ pos[w] = 0
      BY <3>1 DEF FrameInv, FrameState
    <3> QED
      BY <3>1, <3>2 DEF DescriptorInv, TypeOK, DescriptorTypes
  <2>2. WaitpidClose => link' = link
    <3>1. ASSUME WaitpidClose PROVE owner[child_pipe_input] = "pipeIn" /\ child_pipe_input \in Fds
      BY <3>1 DEF WaitpidClose, DescriptorInv, Descriptors, OwnNumbers, TypeOK, DescriptorTypes
    <3> QED
      BY <3>1, CloseFdPlain, WritersAreNotKinds DEF WaitpidClose, DescriptorInv
  <2> QED
    BY <2>1, <2>2 DEF Die, ChildExit, WaitpidStep, WaitpidReport, AppStep, AppOpen, AppClose, AppSpawn,
                      AppReap, vars
<1>3. \A x \in Writers : link'[x] = "gone" /\ link[x] # "gone" => ~Lost(x)'
  <2> SUFFICES ASSUME NEW x \in Writers, link'[x] = "gone", link[x] # "gone" PROVE ~Lost(x)'
    OBVIOUS
  <2>1. stream'[x] = <<>> /\ pos'[x] = 0
    BY <1>1, <1>2
  <2>2. Len(stream'[x]) = 0
    BY <2>1
  <2> QED
    BY <2>1, <2>2 DEF Lost
<1> QED
  BY <1>1, <1>2, <1>3, ChannelStays DEF Over

\* run_server gives up what it closes at the end or because select() says so; all else
\* in a scan is none of the channel.
LEMMA ScanImplements ==
  ASSUME DescriptorInv, NothingLost, NEW fd \in Fds, ScanStep(fd)
  PROVE  Channel!Lose \/ UNCHANGED Channel!chan
<1>1. UNCHANGED <<seen, log, stream, pos>> /\ (pc' = pc \/ StartMessage(fd))
  BY DEF ScanStep, DropErrored, Accept, AcceptFails, ChildPipe, StartMessage, CloseStraggler
<1>2. Over' = Over
  BY <1>1 DEF Over, StartMessage, Visit
<1>3. CASE DropErrored(fd) \/ CloseStraggler(fd)
  <2>1. \A x \in Writers : link[x] = "gone" => link'[x] = "gone"
    BY <1>3 DEF DropErrored, CloseStraggler, CloseFd
  <2>2. Over \/ KernelErrors
    BY <1>3 DEF DropErrored, CloseStraggler, NothingLost, Over
  <2> QED
    BY <1>1, <1>2, <2>1, <2>2, ChannelLoses
<1>4. CASE Accept(fd)
  <2>1. backlog # <<>> /\ backlog \in Seq(Writers)
    BY <1>4 DEF Accept, Visit, Ahead, DescriptorInv, Descriptors, ScanSets, TypeOK, DescriptorTypes
  <2>2. backlog[1] = Head(backlog) /\ 1 \in DOMAIN backlog
    BY <2>1
  <2>3. link[Head(backlog)] = "queued" /\ link' = [link EXCEPT ![Head(backlog)] = "open"]
    BY <1>4, <2>2 DEF Accept, AcceptAs, DescriptorInv, Descriptors, Connections
  <2>4. \A x \in Writers : link'[x] = "gone" <=> link[x] = "gone"
    BY <2>3 DEF DescriptorInv, TypeOK, DescriptorTypes
  <2> QED
    BY <1>1, <1>2, <2>4, ChannelStays
<1>5. CASE ChildPipe(fd)
  <2>1. owner[fd] \in {"pipeOut", "free", "app", "pipeIn"}
    BY <1>5 DEF ChildPipe, Visit, Ahead, DescriptorInv, Descriptors, OwnNumbers, ActiveSet,
                ScanSets, TypeOK, DescriptorTypes, Looping, Scanning
  <2>2. link' = link
    BY <1>5, <2>1, CloseFdPlain, WritersAreNotKinds DEF ChildPipe, DescriptorInv
  <2> QED
    BY <1>1, <1>2, <2>2, ChannelStays
<1>6. CASE AcceptFails(fd) \/ StartMessage(fd)
  <2>1. link' = link
    BY <1>6 DEF AcceptFails, StartMessage
  <2> QED
    BY <1>1, <1>2, <2>1, ChannelStays
<1> QED
  BY <1>3, <1>4, <1>5, <1>6 DEF ScanStep

\* The rest of the loop but the messages.
LEMMA LoopImplements ==
  ASSUME Select \/ SelectFails \/ EndScan \/ CloseListener \/ Return
  PROVE  Channel!Lose \/ Channel!Stop \/ UNCHANGED Channel!chan
<1>1. UNCHANGED <<seen, log, stream, pos>>
  BY DEF Select, SelectFails, EndScan, CloseListener, Return
<1>2. CASE CloseListener
  <2>1. \A x \in Writers : link[x] = "gone" => link'[x] = "gone"
    BY <1>2 DEF CloseListener, CloseFd
  <2> QED
    BY <1>1, <1>2, <2>1, ChannelLoses DEF CloseListener, Over
<1>3. CASE Select \/ SelectFails \/ EndScan \/ Return
  <2>1. UNCHANGED link
    BY <1>3 DEF Select, SelectFails, EndScan, Return
  <2>2. Over' \/ Over' = Over
    BY <1>3 DEF Select, SelectFails, EndScan, Return, Over
  <2> QED
    BY <1>1, <2>1, <2>2, ChannelStays, ChannelStops
<1> QED
  BY <1>2, <1>3

-----------------------------------------------------------------------------
(* Messages. *)

\* Reading on in a connection gives nothing up.
LEMMA ReadsOnImplements ==
  ASSUME DescriptorInv, FrameInv, ScanOrder, ChannelInv,
         ReadMsgType \/ ReadEventType \/ HandleEvent, UNCHANGED log
  PROVE  UNCHANGED Channel!chan
<1>1. /\ UNCHANGED <<seen, stream>> /\ pc \in Reading /\ Over' = Over
  BY DEF ReadMsgType, ReadEventType, HandleEvent, Reading, Over, EndConnection, NextField, NextFd
<1>2. \A x \in Writers : link[x] = "gone" => pos'[x] = pos[x]
  BY <1>1, ReadEffect DEF ReadMsgType, ReadEventType, HandleEvent
<1>3. \A x \in Writers : link[x] = "gone" => link'[x] = "gone"
  BY DEF ReadMsgType, ReadEventType, HandleEvent, EndConnection, NextField, NextFd, CloseFd
<1>4. \A x \in Writers : link'[x] = "gone" /\ link[x] # "gone" => ~Lost(x)'
  BY Unshared, MessageLosesNothing DEF ScanOrder
<1> QED
  BY <1>1, <1>2, <1>3, <1>4, ChannelStays

\* A callback delivers the next event of its connection, and those that this one
\* has seen have been heard of or given up.
LEMMA DeliverImplements ==
  ASSUME DescriptorInv, FrameInv, ScanOrder, ChannelInv, HandleEvent, ~UNCHANGED log
  PROVE  \E d \in Writers : Channel!Deliver(d)
<1>1. pc = "body"
  BY DEF HandleEvent
<1> PICK d \in Writers : d = Conn
  BY ReadConnection DEF HandleEvent, Reading
<1>2. /\ NextFd /\ link[d] = "open" /\ pos[d] \in Nat /\ Len(stream[d]) \in Nat
      /\ pos' = [pos EXCEPT ![d] = @ + 1]
      /\ pos[d] % 3 = 2
      /\ pos[d] < Len(stream[d])
      /\ log' = Append(log, <<d, (pos[d] + 1) \div 3>>)
  BY EventHandled
<1>3. UNCHANGED <<seen, stream, link>> /\ Over' = Over /\ ~Over
  BY <1>1, <1>2 DEF HandleEvent, NextFd, Over
<1>4. \A x \in Writers : Channel!Delivered(x) = pos[x] \div 3
  BY DEF ChannelInv, Numbered
<1> PICK n \in Nat : n = pos[d]
  BY <1>2
<1> PICK m \in Nat : m = Len(stream[d])
  BY <1>2
<1>5. /\ n \div 3 < m \div 3
      /\ (n + 1) \div 3 = n \div 3 + 1
  BY <1>2, Thirds, FullThird
<1>7. Channel!Delivered(d) < Len(stream[d]) \div 3
  BY <1>4, <1>5
<1>8. log' = Append(log, <<d, Channel!Delivered(d) + 1>>)
  BY <1>2, <1>4, <1>5
<1>9. ~Lost(d) /\ \A x \in Writers : Lost(x)' <=> Lost(x)
  BY <1>2, <1>3 DEF Lost, DescriptorInv, TypeOK, WireTypes
<1>10. \A x \in seen[d] : x \in Writers /\ (Channel!Delivered(x) > 0 \/ Lost(x))
  <2> SUFFICES ASSUME NEW x \in seen[d] PROVE x \in Writers /\ (Channel!Delivered(x) > 0 \/ Lost(x))
    OBVIOUS
  <2>1. x \in Writers /\ pos[x] \in Nat
    BY DEF DescriptorInv, TypeOK, ProcessTypes, WireTypes
  <2>2. Follows(d, x)
    BY Unshared DEF ScanOrder, AllFollow
  <2>3. Coming(d)
    <3>1. cur \in Fds /\ owner[cur] = d /\ pc \in Reading
      BY <1>1, ReadConnection DEF Reading, Conn
    <3> QED
      BY <3>1 DEF Coming
  <2>4. FirstHeard(x) \/ Lost(x)
    BY <1>2, <2>2, <2>3 DEF Follows, Settled
  <2>5. FirstHeard(x) => Channel!Delivered(x) > 0
    BY <1>4, <2>1, Thirds DEF FirstHeard
  <2> QED
    BY <2>1, <2>4, <2>5
<1> QED
  BY <1>3, <1>7, <1>8, <1>9, <1>10 DEF Lost, Over, Channel!Deliver

-----------------------------------------------------------------------------
(* Every step is one of the channel, or none. *)

LEMMA StepsImplement ==
  ASSUME Forks = {}, DescriptorInv, FrameInv, ScanOrder, NothingLost, ChannelInv, [Next]_vars
  PROVE  [Channel!Next]_(Channel!chan)
<1>1. ASSUME NEW w \in Writers, WriterStep(w) PROVE [Channel!Next]_(Channel!chan)
  <2>1. nev[w] \in Nat /\ nev[w] + 1 \in Nat
    BY DEF DescriptorInv, TypeOK, ProcessTypes
  <2>2. CASE Connect(w)
    BY <2>2, ConnectImplements DEF Channel!Next
  <2>3. CASE WriteMsgType(w)
    BY <2>1, <2>3, FieldImplements DEF WriteMsgType, ItemKinds
  <2>4. CASE WriteEventType(w)
    BY <2>1, <2>4, FieldImplements DEF WriteEventType, ItemKinds
  <2>5. CASE WriteBody(w)
    <3>1. IF Connected(w) THEN Channel!Post(w) ELSE UNCHANGED Channel!chan
      BY <2>1, <2>5, FieldImplements DEF WriteBody, ItemKinds
    <3> QED
      BY <3>1 DEF Channel!Next
  <2>6. CASE WriteDone(w)
    BY <2>1, <2>6, FieldImplements DEF WriteDone, ItemKinds
  <2>7. CASE ConnectFails(w) \/ Die(w)
    BY <2>7, OthersImplement
  <2> QED
    BY <1>1, <2>2, <2>3, <2>4, <2>5, <2>6, <2>7 DEF WriterStep
<1>2. CASE ChildExit \/ WaitpidStep \/ AppStep \/ UNCHANGED vars
  BY <1>2, OthersImplement
<1>3. ASSUME NEW fd \in Fds, ScanStep(fd) PROVE [Channel!Next]_(Channel!chan)
  BY <1>3, ScanImplements DEF Channel!Next
<1>4. CASE Select \/ SelectFails \/ EndScan \/ CloseListener \/ Return
  BY <1>4, LoopImplements DEF Channel!Next
<1>5. CASE ReadMsgType \/ ReadEventType \/ HandleEvent
  <2>1. CASE UNCHANGED log
    BY <1>5, <2>1, ReadsOnImplements
  <2>2. CASE ~UNCHANGED log
    <3>1. HandleEvent
      BY <1>5, <2>2 DEF ReadMsgType, ReadEventType
    <3> QED
      BY <2>2, <3>1, DeliverImplements DEF Channel!Next
  <2> QED
    BY <2>1, <2>2
<1> QED
  BY <1>1, <1>2, <1>3, <1>4, <1>5 DEF Next, Returned, ServerStep

LEMMA InitImplements == Init => ChannelInv /\ Channel!Init
<1> SUFFICES ASSUME Init PROVE ChannelInv /\ Channel!Init
  OBVIOUS
<1>1. Len(<<>>) = 0 /\ DOMAIN <<>> = {} /\ 0 \div 3 = 0
  OBVIOUS
<1>2. \A x \in Writers : stream[x] = <<>> /\ pos[x] = 0 /\ sock[x] = x /\ nev[x] = 0 /\ link[x] = "none"
  BY DEF Init
<1>3. ASSUME NEW x \in Writers PROVE Channel!Delivered(x) = 0
  <2>1. CallbacksFor(x) = {}
    BY <1>1 DEF Init, CallbacksFor
  <2> QED
    BY <2>1, DeliveredCounts, FS_EmptySet
<1>4. ChannelInv
  BY <1>1, <1>2, <1>3 DEF ChannelInv, Numbered, Connected
<1>5. Channel!Init
  BY <1>1, <1>2 DEF Init, Channel!Init
<1> QED
  BY <1>4, <1>5

\* In a tree of processes that does not fork without exec, the n-th event of a writer
\* takes the items 3n - 2 to 3n of its connection, and what is called back is what was
\* read to its end.
THEOREM EventsKeepTheirNumbers ==
  ASSUME Forks = {}
  PROVE  Spec => []ChannelInv
<1>1. Init => ChannelInv
  BY InitImplements
<1>2. DescriptorInv /\ FrameInv /\ ChannelInv /\ [Next]_vars => ChannelInv'
  BY NumberSteps
<1> QED
  BY <1>1, <1>2, DescriptorsInOrder, FramesInOrder, PTL DEF Spec

\* There the server, the sockets and the interposers are an event channel: each event
\* that is sent in full is called back once, in order and without gaps, after the first
\* events that its connection was made after, and nothing is given up before the loop
\* ends unless select() reports errors.
THEOREM ServerImplementsChannel ==
  ASSUME Forks = {}
  PROVE  Spec => ImplementsChannel
<1>1. Init => Channel!Init
  BY InitImplements
<1>2. /\ DescriptorInv /\ FrameInv /\ ScanOrder /\ NothingLost /\ ChannelInv
      /\ [Next]_vars
      => [Channel!Next]_(Channel!chan)
  BY StepsImplement
<1> QED
  BY <1>1, <1>2, DescriptorsInOrder, FramesInOrder, ScansInOrder, LosesOnlyOnErrors,
     EventsKeepTheirNumbers, PTL DEF Spec, ImplementsChannel, Channel!Spec
=============================================================================
