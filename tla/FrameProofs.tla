----------------------------- MODULE FrameProofs -----------------------------
(***************************************************************************)
(* The two ends of a connection agree on where a message starts, and       *)
(* events are called back at most once and in the order their writer sent  *)
(* them, for every value of the constants of VoyeurServer.                 *)
(***************************************************************************)
EXTENDS ServerProofs

USE DEF childVars, waitVars, writerVars, connVars, wireVars, fdVars, constVars,
        selectVars, exitVars

-----------------------------------------------------------------------------
(* Places in a frame. *)

\* Counting modulo three.
LEMMA ModThree ==
  \A n \in Nat : /\ n % 3 \in {0, 1, 2}
                 /\ n % 3 = 0 => (n + 1) % 3 = 1
                 /\ n % 3 = 1 => (n + 1) % 3 = 2
                 /\ n % 3 = 2 => (n + 1) % 3 = 0
  OBVIOUS

\* Outside of the two later reads of a message every connection is between frames.
LEMMA BetweenFrames ==
  ASSUME pc \notin {"evtype", "body"}
  PROVE  \A c \in Writers : ReadPhase(c) = 0
  BY DEF ReadPhase

\* The connection that is being read, and every other one, stays where it is while
\* the loop does and its descriptor refers to it.
LEMMA SamePhase ==
  ASSUME pc' = pc, cur' = cur, pc \in {"evtype", "body"} => owner'[cur] = owner[cur]
  PROVE  \A c \in Writers : ReadPhase(c)' = ReadPhase(c)
  BY DEF ReadPhase

\* closing a descriptor ends connections that were made, and no others.
LEMMA CloseFdLinks ==
  ASSUME DescriptorInv, NEW fd \in Fds, CloseFd(fd)
  PROVE  \A c \in Writers : link'[c] = link[c] \/ (link[c] # "none" /\ link'[c] = "gone")
<1>1. \A c \in Writers : owner[fd] = c => link[c] = "open"
  BY DEF DescriptorInv, Descriptors, Connections
<1> QED
  BY <1>1 DEF CloseFd

-----------------------------------------------------------------------------
(* Steps that leave what was sent and read alone. *)

\* A connection on which nothing was sent or read, and that was not made.
LEMMA QuietFrames ==
  ASSUME FrameInv, UNCHANGED <<sock, stream, pos>>,
         \A c \in Writers : \/ link'[c] = link[c]
                            \/ link[c] # "none" /\ link'[c] = "gone"
                            \/ link[c] = "queued" /\ link'[c] = "open",
         \A c \in Writers : wpc'[c] = wpc[c] \/ wpc'[c] = "closed",
         \A c \in Writers : ReadPhase(c)' = ReadPhase(c)
  PROVE  FrameInv'
<1> SUFFICES ASSUME NEW c \in Writers
             PROVE  FrameState(c)'
  BY DEF FrameInv
<1>1. FrameState(c)
  BY DEF FrameInv
<1>2. Mixed' = Mixed
  BY DEF Mixed
<1>3. Connected(c)' => Connected(c)
  BY DEF Connected
<1>4. Frames(c) => Frames(c)'
  BY DEF Frames
<1> QED
  BY <1>1, <1>2, <1>3, <1>4 DEF FrameState

\* The steps of other threads, of the child's end and of waitpid_thread.
LEMMA OthersFrames ==
  ASSUME DescriptorInv, FrameInv, ChildExit \/ WaitpidStep \/ AppStep \/ UNCHANGED vars
  PROVE  FrameInv'
<1>1. pc \in {"evtype", "body"} => /\ owner[cur] \in Writers
                                   /\ cur \in Fds
  BY DEF DescriptorInv, Descriptors, ScanSets, Reading
<1>2. CASE ChildExit
  <2>1. \A c \in Writers : wpc'[c] = wpc[c] \/ wpc'[c] = "closed"
    BY <1>2 DEF ChildExit
  <2>2. \A c \in Writers : ReadPhase(c)' = ReadPhase(c)
    BY <1>2, SamePhase DEF ChildExit
  <2> QED
    BY <1>2, <2>1, <2>2, QuietFrames DEF ChildExit
<1>3. CASE WaitpidReport \/ AppSpawn \/ AppReap \/ UNCHANGED vars
  <2>1. UNCHANGED <<writerVars, connVars, wireVars, owner, pc, cur>>
    BY <1>3 DEF WaitpidReport, AppSpawn, AppReap, vars
  <2>2. \A c \in Writers : ReadPhase(c)' = ReadPhase(c)
    BY <2>1, SamePhase
  <2> QED
    BY <2>1, <2>2, QuietFrames
<1>4. CASE WaitpidClose
  <2>1. owner[child_pipe_input] = "pipeIn" /\ child_pipe_input \in Fds
    BY <1>4 DEF WaitpidClose, DescriptorInv, Descriptors, OwnNumbers, TypeOK, DescriptorTypes
  <2>2. pc \in {"evtype", "body"} => cur # child_pipe_input
    BY <1>1, <2>1, WritersAreNotKinds
  <2>3. pc \in {"evtype", "body"} => owner'[cur] = owner[cur]
    BY <1>1, <1>4, <2>2 DEF WaitpidClose, CloseFd, DescriptorInv, TypeOK, DescriptorTypes
  <2>4. \A c \in Writers : ReadPhase(c)' = ReadPhase(c)
    BY <1>4, <2>3, SamePhase DEF WaitpidClose
  <2> QED
    BY <1>4, <2>1, <2>4, CloseFdLinks, QuietFrames DEF WaitpidClose
<1>5. ASSUME NEW fd \in Fds, AppOpen(fd) \/ AppClose(fd)
      PROVE  FrameInv'
  <2>1. owner[fd] \in {"free", "app"}
    BY <1>5 DEF AppOpen, AppClose, FreeFds
  <2>2. pc \in {"evtype", "body"} => cur # fd
    BY <1>1, <2>1, WritersAreNotKinds
  <2>3. pc \in {"evtype", "body"} => owner'[cur] = owner[cur]
    BY <1>1, <1>5, <2>2 DEF AppOpen, AppClose, DescriptorInv, TypeOK, DescriptorTypes
  <2>4. \A c \in Writers : ReadPhase(c)' = ReadPhase(c)
    BY <1>5, <2>3, SamePhase DEF AppOpen, AppClose
  <2> QED
    BY <1>5, <2>4, QuietFrames DEF AppOpen, AppClose
<1> QED
  BY <1>2, <1>3, <1>4, <1>5 DEF WaitpidStep, AppStep

\* The steps of the loop between two messages.
LEMMA LoopFrames ==
  ASSUME DescriptorInv, FrameInv,
         \/ Select \/ SelectFails \/ EndScan \/ CloseListener \/ Return
         \/ \E fd \in Fds : ScanStep(fd)
  PROVE  FrameInv'
<1>1. UNCHANGED <<writerVars, wireVars>>
  BY DEF Select, SelectFails, EndScan, CloseListener, Return, ScanStep, DropErrored,
         Accept, AcceptFails, ChildPipe, StartMessage, CloseStraggler
<1>2. pc \notin {"evtype", "body"} /\ pc' \notin {"evtype", "body"}
  BY DEF Select, SelectFails, EndScan, CloseListener, Return, ScanStep, DropErrored,
         Accept, AcceptFails, ChildPipe, StartMessage, CloseStraggler, Visit
<1>3. \A c \in Writers : ReadPhase(c)' = ReadPhase(c)
  BY <1>2 DEF ReadPhase
<1>4. \A c \in Writers : \/ link'[c] = link[c]
                         \/ link[c] # "none" /\ link'[c] = "gone"
                         \/ link[c] = "queued" /\ link'[c] = "open"
  <2>1. CASE Select \/ SelectFails \/ EndScan \/ Return
    BY <2>1 DEF Select, SelectFails, EndScan, Return
  <2>2. CASE CloseListener
    BY <2>2, CloseFdLinks DEF CloseListener, DescriptorInv, TypeOK, DescriptorTypes
  <2>3. ASSUME NEW fd \in Fds, DropErrored(fd) \/ ChildPipe(fd) \/ CloseStraggler(fd)
        PROVE  \A c \in Writers : link'[c] = link[c] \/ (link[c] # "none" /\ link'[c] = "gone")
    BY <2>3, CloseFdLinks DEF DropErrored, ChildPipe, CloseStraggler
  <2>4. ASSUME NEW fd \in Fds, AcceptFails(fd) \/ StartMessage(fd)
        PROVE  \A c \in Writers : link'[c] = link[c]
    BY <2>4 DEF AcceptFails, StartMessage
  <2>5. ASSUME NEW fd \in Fds, Accept(fd)
        PROVE  \A c \in Writers : link'[c] = link[c] \/ (link[c] = "queued" /\ link'[c] = "open")
    <3>1. backlog # <<>>
      BY <2>5 DEF Accept, Visit, Ahead, DescriptorInv, Descriptors, ScanSets
    <3>2. backlog \in Seq(Writers)
      BY DEF DescriptorInv, TypeOK, DescriptorTypes
    <3>3. Head(backlog) \in Writers /\ link[Head(backlog)] = "queued"
      BY <3>1, <3>2 DEF DescriptorInv, Descriptors, Connections
    <3>4. link' = [link EXCEPT ![Head(backlog)] = "open"]
      BY <2>5 DEF Accept, AcceptAs
    <3> QED
      BY <3>3, <3>4 DEF DescriptorInv, TypeOK, DescriptorTypes
  <2> QED
    BY <2>1, <2>2, <2>3, <2>4, <2>5 DEF ScanStep
<1> QED
  BY <1>1, <1>3, <1>4, QuietFrames

-----------------------------------------------------------------------------
(* Writers. *)

\* A connection is made with nothing on it, or fails.
LEMMA ConnectFrames ==
  ASSUME DescriptorInv, FrameInv, NEW w \in Writers, Connect(w) \/ ConnectFails(w)
  PROVE  FrameInv'
<1>1. /\ UNCHANGED <<sock, stream, pos, pc, cur, owner>>
      /\ wpc[w] = "unborn"
      /\ wpc' = [wpc EXCEPT ![w] = "idle"]
      /\ link' = [link EXCEPT ![w] = "queued"] \/ link' = [link EXCEPT ![w] = "gone"]
  BY DEF Connect, ConnectFails
<1>2. link[w] = "none" /\ sock[w] = w /\ stream[w] = <<>> /\ pos[w] = 0
  BY <1>1 DEF DescriptorInv, Descriptors, Connections, FrameInv, FrameState
<1>3. \A c \in Writers : ReadPhase(c)' = ReadPhase(c)
  BY <1>1, SamePhase
<1>4. ReadPhase(w) = 0
  <2>1. \A fd \in Fds : owner[fd] # w
    BY <1>2 DEF DescriptorInv, Descriptors, Connections
  <2>2. pc \in {"evtype", "body"} => cur \in Fds
    BY DEF DescriptorInv, Descriptors, ScanSets, Reading
  <2> QED
    BY <2>1, <2>2 DEF ReadPhase
<1>5. /\ wpc'[w] = "idle" /\ link'[w] # "none"
      /\ \A c \in Writers \ {w} : wpc'[c] = wpc[c] /\ link'[c] = link[c]
  BY <1>1 DEF DescriptorInv, TypeOK, ProcessTypes, DescriptorTypes
<1> SUFFICES ASSUME NEW c \in Writers
             PROVE  FrameState(c)'
  BY DEF FrameInv
<1>6. CASE c = w
  <2>1. Frames(w)'
    <3>1. stream'[w] = <<>> /\ pos'[w] = 0 /\ ReadPhase(w)' = 0
      BY <1>1, <1>2, <1>3, <1>4
    <3> QED
      BY <1>5, <3>1 DEF Frames, WritePhase
  <2> QED
    BY <1>1, <1>2, <1>5, <1>6, <2>1 DEF FrameState
<1>7. CASE c # w
  <2>1. Mixed' = Mixed
    BY <1>1 DEF Mixed
  <2>2. Frames(c) => Frames(c)'
    BY <1>1, <1>3, <1>5, <1>7 DEF Frames
  <2>3. FrameState(c)
    BY DEF FrameInv
  <2> QED
    BY <1>1, <1>5, <1>7, <2>1, <2>2, <2>3 DEF FrameState, Connected
<1> QED
  BY <1>6, <1>7

\* A field goes to the place in the frame for which it is meant.
LEMMA FieldFrames ==
  ASSUME DescriptorInv, FrameInv, NEW w \in Writers,
         NEW from \in {"idle", "type", "body"}, NEW to \in Holding \cup {"closed"},
         NEW n \in Nat, NEW kind \in ItemKinds, WriteField(w, from, to, n, kind),
         kind \in KindsAt(WritePhase[from]),
         to \in {"idle", "type", "body"} =>
             <<WritePhase[from], WritePhase[to]>> \in {<<0, 1>>, <<1, 2>>, <<2, 0>>}
  PROVE  FrameInv'
<1> DEFINE d == sock[w]
           item == Item(w, n, kind)
<1>1. /\ UNCHANGED <<sock, link, pos, pc, cur, owner>>
      /\ wpc[w] = from
      /\ wpc' = [wpc EXCEPT ![w] = to]
      /\ \/ stream' = [stream EXCEPT ![d] = Append(@, item)] /\ Connected(d)
         \/ stream' = stream
  BY DEF WriteField, Send
<1>2. /\ d \in Writers
      /\ wpc'[w] = to
      /\ \A c \in Writers \ {w} : wpc'[c] = wpc[c]
      /\ \A c \in Writers \ {d} : stream'[c] = stream[c]
      /\ \A c \in Writers : stream[c] \in Seq(Items)
  BY <1>1 DEF DescriptorInv, TypeOK, ProcessTypes, WireTypes
<1>3. \A c \in Writers : ReadPhase(c)' = ReadPhase(c)
  BY <1>1, SamePhase
<1>4. Mixed' = Mixed
  BY <1>1 DEF Mixed
<1>5. \A c \in Writers : Connected(c)' = Connected(c)
  BY <1>1 DEF Connected
<1> SUFFICES ASSUME NEW c \in Writers
             PROVE  FrameState(c)'
  BY DEF FrameInv
<1>6. FrameState(c)
  BY DEF FrameInv
<1>7. to # "unborn"
  BY DEF Holding
<1>8. wpc'[c] = "unborn" => wpc[c] = "unborn"
  BY <1>2, <1>7
<1>9. link[c] = "none" => stream'[c] = stream[c]
  BY <1>1, <1>2 DEF Connected
<1>10. ASSUME Connected(c), c \notin Mixed
       PROVE  Frames(c)'
  <2>1. Frames(c) /\ sock[c] = c
    BY <1>6, <1>10 DEF FrameState, Connected
  <2>2. CASE c # w
    <3>1. d # c
      BY <1>10, <2>2 DEF Mixed
    <3> QED
      BY <1>1, <1>2, <1>3, <2>1, <2>2, <3>1 DEF Frames
  <2>3. CASE c = w
    <3>1. d = c /\ stream' = [stream EXCEPT ![c] = Append(@, item)]
      BY <1>1, <1>10, <2>1, <2>3 DEF WriteField, Send
    <3> DEFINE m == Len(stream[c])
    <3>2. /\ m \in Nat /\ DOMAIN stream[c] = 1..m
          /\ Len(stream'[c]) = m + 1 /\ DOMAIN stream'[c] = 1..m + 1
          /\ \A i \in 1..m : stream'[c][i] = stream[c][i]
          /\ stream'[c][m + 1] = item
      BY <1>2, <3>1 DEF DescriptorInv, TypeOK, WireTypes
    <3>3. m % 3 = WritePhase[from]
      BY <1>1, <2>1, <2>3 DEF Frames
    <3>4. item.kind \in KindsAt(m % 3)
      BY <3>3 DEF Item
    <3>5. \A i \in DOMAIN stream'[c] : stream'[c][i].kind \in KindsAt((i - 1) % 3)
      <4> TAKE i \in DOMAIN stream'[c]
      <4>1. CASE i = m + 1
        <5>1. (i - 1) = m
          BY <3>2, <4>1
        <5> QED
          BY <3>2, <3>4, <4>1, <5>1
      <4>2. CASE i # m + 1
        <5>1. i \in DOMAIN stream[c] /\ stream'[c][i] = stream[c][i]
          BY <3>2, <4>2
        <5> QED
          BY <2>1, <5>1 DEF Frames
      <4> QED
        BY <4>1, <4>2
    <3>6. to \in {"idle", "type", "body"} => (m + 1) % 3 = WritePhase[to]
      <4> SUFFICES ASSUME to \in {"idle", "type", "body"}
                   PROVE  (m + 1) % 3 = WritePhase[to]
        OBVIOUS
      <4>1. \/ WritePhase[from] = 0 /\ WritePhase[to] = 1
            \/ WritePhase[from] = 1 /\ WritePhase[to] = 2
            \/ WritePhase[from] = 2 /\ WritePhase[to] = 0
        OBVIOUS
      <4>2. \A k \in Nat : k % 3 = WritePhase[from] => (k + 1) % 3 = WritePhase[to]
        BY <4>1, ModThree
      <4> QED
        BY <3>2, <3>3, <4>2
    <3>7. pos'[c] % 3 = ReadPhase(c)'
      BY <1>1, <1>3, <2>1, <2>3 DEF Frames
    <3> QED
      BY <1>2, <2>3, <3>2, <3>5, <3>6, <3>7 DEF Frames
  <2> QED
    BY <2>2, <2>3
<1> QED
  BY <1>1, <1>4, <1>5, <1>6, <1>8, <1>9, <1>10 DEF FrameState

\* fork(): the new process has no connection of its own, and the shared one is
\* no longer spoken of.
LEMMA ForkFrames ==
  ASSUME DescriptorInv, FrameInv, NEW w \in Writers, NEW v \in Writers, Fork(w, v)
  PROVE  FrameInv'
<1>1. /\ UNCHANGED <<link, stream, pos, pc, cur, owner>>
      /\ wpc[w] # "unborn" /\ wpc[v] = "unborn"
      /\ wpc' = [wpc EXCEPT ![v] = IF wpc[w] = "idle" THEN "idle" ELSE "stuck"]
      /\ sock' = [sock EXCEPT ![v] = sock[w]]
  BY DEF Fork
<1>2. /\ wpc'[v] # "unborn" /\ link[v] = "none" /\ sock[v] = v
      /\ \A c \in Writers \ {v} : wpc'[c] = wpc[c] /\ sock'[c] = sock[c]
  BY <1>1 DEF DescriptorInv, Descriptors, Connections, TypeOK, ProcessTypes,
              FrameInv, FrameState
<1>3. \A c \in Writers : ReadPhase(c)' = ReadPhase(c)
  BY <1>1, SamePhase
<1>4. \A c \in Writers : c \in Mixed => c \in Mixed'
  <2> SUFFICES ASSUME NEW c \in Writers, NEW u \in Writers \ {c}, sock[u] = c
               PROVE  \E x \in Writers \ {c} : sock'[x] = c
    BY DEF Mixed
  <2>1. u # v
    BY <1>2
  <2> QED
    BY <1>2, <2>1
<1> SUFFICES ASSUME NEW c \in Writers
             PROVE  FrameState(c)'
  BY DEF FrameInv
<1>5. FrameState(c)
  BY DEF FrameInv
<1>6. CASE c = v
  BY <1>1, <1>2, <1>5, <1>6 DEF FrameState, Connected
<1>7. CASE c # v
  <2>1. Frames(c) => Frames(c)'
    BY <1>1, <1>2, <1>3, <1>7 DEF Frames
  <2> QED
    BY <1>1, <1>2, <1>4, <1>5, <1>7, <2>1 DEF FrameState, Connected
<1> QED
  BY <1>6, <1>7

\* Every step of an instrumented process.
LEMMA WriterFrames ==
  ASSUME DescriptorInv, FrameInv, NEW w \in Writers, WriterStep(w)
  PROVE  FrameInv'
<1>1. nev[w] \in Nat /\ nev[w] + 1 \in Nat
  BY DEF DescriptorInv, TypeOK, ProcessTypes
<1>2. CASE Connect(w) \/ ConnectFails(w)
  BY <1>2, ConnectFrames
<1>3. CASE WriteMsgType(w)
  BY <1>1, <1>3, FieldFrames DEF WriteMsgType, WritePhase, KindsAt, ItemKinds, Holding
<1>4. CASE WriteEventType(w)
  BY <1>1, <1>4, FieldFrames DEF WriteEventType, WritePhase, KindsAt, ItemKinds, Holding
<1>5. CASE WriteBody(w)
  BY <1>1, <1>5, FieldFrames DEF WriteBody, WritePhase, KindsAt, ItemKinds, Holding
<1>6. CASE WriteDone(w)
  BY <1>1, <1>6, FieldFrames DEF WriteDone, WritePhase, KindsAt, ItemKinds, Holding
<1>7. CASE Die(w)
  <2>1. \A c \in Writers : wpc'[c] = wpc[c] \/ wpc'[c] = "closed"
    BY <1>7 DEF Die, DescriptorInv, TypeOK, ProcessTypes
  <2>2. \A c \in Writers : ReadPhase(c)' = ReadPhase(c)
    BY <1>7, SamePhase DEF Die
  <2> QED
    BY <1>7, <2>1, <2>2, QuietFrames DEF Die
<1> QED
  BY <1>2, <1>3, <1>4, <1>5, <1>6, <1>7 DEF WriterStep

-----------------------------------------------------------------------------
(* handle_message. *)

\* The connection that is being read is open and has no other number.
LEMMA ReadConnection ==
  ASSUME DescriptorInv, FrameInv, pc \in Reading
  PROVE  /\ cur \in Fds
         /\ Conn \in Writers
         /\ link[Conn] = "open"
         /\ sock[Conn] = Conn
         /\ wpc[Conn] # "unborn"
         /\ pos[Conn] \in Nat
         /\ stream[Conn] \in Seq(Items)
         /\ Len(stream[Conn]) \in Nat
         /\ FrameState(Conn)
<1>1. cur \in Fds /\ Conn \in Writers
  BY DEF DescriptorInv, Descriptors, ScanSets, Conn
<1>2. link[Conn] = "open"
  BY <1>1 DEF DescriptorInv, Descriptors, Connections, Conn
<1>3. FrameState(Conn)
  BY <1>1 DEF FrameInv
<1>4. pos[Conn] \in Nat /\ stream[Conn] \in Seq(Items)
  BY <1>1 DEF DescriptorInv, TypeOK, WireTypes
<1>5. sock[Conn] = Conn
  BY <1>2, <1>3 DEF FrameState
<1>6. wpc[Conn] # "unborn"
  BY <1>1, <1>2 DEF DescriptorInv, Descriptors, Connections
<1> QED
  BY <1>1, <1>2, <1>3, <1>4, <1>5, <1>6

\* A read concerns its own connection only, and what remains to be seen there is
\* that handle_message() knows where in a frame it is.
LEMMA ReadFrames ==
  ASSUME DescriptorInv, FrameInv, pc \in Reading, NEW kinds, NEW d \in Writers, d = Conn,
         UNCHANGED <<writerVars, stream>>,
         ReadsEof \/ ReadsItem(kinds),
         EndConnection \/ NextFd \/ NextField("evtype") \/ NextField("body"),
         Frames(d) /\ link'[d] = "open" => Frames(d)'
  PROVE  FrameInv'
<1>1. /\ cur \in Fds /\ link[d] = "open" /\ sock[d] = d
      /\ wpc[d] # "unborn" /\ FrameState(d)
  BY ReadConnection
<1>2. \A c \in Writers : link'[c] = link[c] \/ (link[c] # "none" /\ link'[c] = "gone")
  BY <1>1, CloseFdLinks DEF EndConnection, NextFd, NextField
<1>3. Mixed' = Mixed
  BY DEF Mixed
<1> SUFFICES ASSUME NEW c \in Writers
             PROVE  FrameState(c)'
  BY DEF FrameInv
<1>4. CASE c = d
  <2>1. Connected(d) /\ (Connected(d)' => link'[d] = "open")
    BY <1>1, <1>2 DEF Connected
  <2>2. link'[d] # "none"
    BY <1>1, <1>2
  <2>3. Connected(d)' /\ d \notin Mixed => Frames(d)'
    BY <1>1, <2>1 DEF FrameState
  <2> QED
    BY <1>1, <1>3, <1>4, <2>2, <2>3 DEF FrameState, Connected
<1>5. CASE c # d
  <2>1. FrameState(c)
    BY DEF FrameInv
  <2>2. pos'[c] = pos[c]
    BY <1>1, <1>5 DEF ReadsEof, ReadsItem, DescriptorInv, TypeOK, WireTypes
  <2>3. ReadPhase(c) = 0
    BY <1>5 DEF ReadPhase, Conn
  <2>4. ReadPhase(c)' = 0
    <3>1. CASE EndConnection \/ NextFd
      BY <3>1 DEF ReadPhase, EndConnection, NextFd
    <3>2. CASE NextField("evtype") \/ NextField("body")
      BY <1>5, <3>2 DEF ReadPhase, NextField, Conn
    <3> QED
      BY <3>1, <3>2
  <2>5. Frames(c) => Frames(c)'
    BY <2>2, <2>3, <2>4 DEF Frames
  <2>6. Connected(c)' => Connected(c)
    BY <1>2 DEF Connected
  <2> QED
    BY <1>2, <1>3, <2>1, <2>2, <2>5, <2>6 DEF FrameState
<1> QED
  BY <1>4, <1>5

\* The item that is read is of a kind for the place where handle_message() is.
LEMMA ItemRead ==
  ASSUME DescriptorInv, FrameInv, pc \in Reading, NEW kinds, ReadsItem(kinds), Frames(Conn)
  PROVE  /\ NextItem(Conn).kind \in kinds \cap KindsAt(ReadPhase(Conn))
         /\ ReadPhase(Conn) = 0 => pos'[Conn] % 3 = 1
         /\ ReadPhase(Conn) = 1 => pos'[Conn] % 3 = 2
         /\ ReadPhase(Conn) = 2 => pos'[Conn] % 3 = 0
<1> DEFINE d == Conn
           p == pos[d]
<1>1. d \in Writers /\ p \in Nat /\ stream[d] \in Seq(Items) /\ Len(stream[d]) \in Nat
  BY ReadConnection
<1>2. p < Len(stream[d])
  BY <1>1 DEF ReadsItem, Unread
<1>3. p % 3 = ReadPhase(d)
  BY <1>1, <1>2 DEF Frames
<1>4. p + 1 \in DOMAIN stream[d] /\ (p + 1) - 1 = p
  BY <1>1, <1>2
<1>5. stream[d][p + 1].kind \in KindsAt(((p + 1) - 1) % 3)
  BY <1>4 DEF Frames
<1>6. NextItem(d).kind \in kinds \cap KindsAt(ReadPhase(d))
  BY <1>3, <1>4, <1>5 DEF NextItem, ReadsItem
<1>7. pos'[d] = p + 1
  BY <1>1 DEF ReadsItem, DescriptorInv, TypeOK, WireTypes
<1> QED
  BY <1>1, <1>3, <1>6, <1>7, ModThree

\* handle_message() goes to the next field of the frame it is in.
LEMMA MessageFrames ==
  ASSUME DescriptorInv, FrameInv, ReadMsgType \/ ReadEventType \/ HandleEvent
  PROVE  FrameInv'
<1>1. pc \in Reading /\ UNCHANGED <<writerVars, stream>>
  BY DEF Reading, ReadMsgType, ReadEventType, HandleEvent
<1> PICK d \in Writers : d = Conn
  BY <1>1, ReadConnection
<1>2. /\ cur \in Fds /\ sock[d] = d /\ wpc[d] # "unborn"
      /\ pos[d] \in Nat /\ Len(stream[d]) \in Nat
      /\ link \in [Writers -> {"none", "queued", "open", "gone"}]
      /\ wpc[d] \in {"unborn", "closed"} \cup Holding
  BY <1>1, ReadConnection DEF DescriptorInv, TypeOK, DescriptorTypes, ProcessTypes
<1>3. EndConnection => link'[d] = "gone"
  BY <1>2 DEF EndConnection, CloseFd, Conn
<1>4. pos'[d] % 3 = ReadPhase(d)' /\ Frames(d) => Frames(d)'
  BY <1>1 DEF Frames
<1>5. CASE ReadMsgType
  <2>1. ReadPhase(d) = 0
    BY <1>5 DEF ReadPhase, ReadMsgType
  <2>2. CASE EndConnection /\ \E kinds : ReadsEof \/ ReadsItem(kinds)
    BY <1>1, <1>3, <2>2, ReadFrames
  <2>3. CASE ReadsItem({"EVENT"}) /\ NextField("evtype")
    <3>1. ReadPhase(d)' = 1
      BY <2>3 DEF ReadPhase, NextField, Conn
    <3>2. Frames(d) => Frames(d)'
      BY <1>1, <1>4, <2>1, <2>3, <3>1, ItemRead
    <3> QED
      BY <1>1, <2>3, <3>2, ReadFrames
  <2>4. CASE ReadsItem({"TYPE", "BODY"}) /\ NextField("evtype")
    <3>1. ~Frames(d)
      BY <1>1, <2>1, <2>4, ItemRead DEF KindsAt
    <3> QED
      BY <1>1, <2>4, <3>1, ReadFrames
  <2> QED
    BY <1>5, <2>2, <2>3, <2>4 DEF ReadMsgType
<1>6. CASE ReadEventType
  <2>1. ReadPhase(d) = 1
    BY <1>6 DEF ReadPhase, ReadEventType, Conn
  <2>2. CASE ReadsEof /\ EndConnection
    BY <1>1, <1>3, <2>2, ReadFrames
  <2>3. CASE ReadsItem({"TYPE"}) /\ NextField("body")
    <3>1. ReadPhase(d)' = 2
      BY <2>3 DEF ReadPhase, NextField, Conn
    <3>2. Frames(d) => Frames(d)'
      BY <1>1, <1>4, <2>1, <2>3, <3>1, ItemRead
    <3> QED
      BY <1>1, <2>3, <3>2, ReadFrames
  <2>4. CASE ReadsItem({"EVENT", "BODY", "DONE"}) /\ (NextFd \/ NextField("body"))
    <3>1. ~Frames(d)
      BY <1>1, <2>1, <2>4, ItemRead DEF KindsAt
    <3> QED
      BY <1>1, <2>4, <3>1, ReadFrames
  <2> QED
    BY <1>6, <2>2, <2>3, <2>4 DEF ReadEventType
<1>7. CASE HandleEvent
  <2>1. ReadPhase(d) = 2
    BY <1>7 DEF ReadPhase, HandleEvent, Conn
  <2>2. CASE ReadsEof /\ NextFd
    <3>1. pos'[d] = Len(stream[d])
      BY <1>2, <2>2 DEF ReadsEof, Unread
    <3>2. wpc[d] = "closed"
      BY <1>2, <2>2 DEF ReadsEof, Eof
    <3>3. Frames(d) => Frames(d)'
      BY <1>1, <3>1, <3>2 DEF Frames
    <3> QED
      BY <1>1, <2>2, <3>3, ReadFrames
  <2>3. CASE ReadsItem({"BODY"}) /\ NextFd
    <3>1. ReadPhase(d)' = 0
      BY <2>3 DEF ReadPhase, NextFd
    <3>2. Frames(d) => Frames(d)'
      BY <1>1, <1>4, <2>1, <2>3, <3>1, ItemRead
    <3> QED
      BY <1>1, <2>3, <3>2, ReadFrames
  <2>4. CASE ReadsItem({"EVENT", "TYPE", "DONE"}) /\ (NextFd \/ NextField("body"))
    <3>1. ~Frames(d)
      BY <1>1, <2>1, <2>4, ItemRead DEF KindsAt
    <3> QED
      BY <1>1, <2>4, <3>1, ReadFrames
  <2> QED
    BY <1>7, <2>2, <2>3, <2>4 DEF HandleEvent
<1> QED
  BY <1>5, <1>6, <1>7

-----------------------------------------------------------------------------
(* The theorem. *)

\* Initially no connection is made.
LEMMA InitFrames == Init => FrameInv
<1> SUFFICES ASSUME Init, NEW c \in Writers
             PROVE  FrameState(c)
  BY DEF FrameInv
<1>1. link[c] = "none" /\ sock[c] = c /\ stream[c] = <<>> /\ pos[c] = 0
  BY DEF Init
<1> QED
  BY <1>1 DEF FrameState, Connected

\* What is unread of a connection starts with what handle_message() expects.
LEMMA FramesAreFramed == TypeOK /\ FrameInv => Framed
<1> SUFFICES ASSUME TypeOK, FrameInv, NEW c \in Writers \ Mixed, Connected(c), Unread(c) > 0
             PROVE  NextItem(c).kind \in Expected(c)
  BY DEF Framed
<1> DEFINE p == pos[c]
<1>1. p \in Nat /\ Len(stream[c]) \in Nat /\ DOMAIN stream[c] = 1 .. Len(stream[c])
  BY DEF TypeOK, WireTypes
<1>2. Frames(c)
  BY DEF FrameInv, FrameState
<1>3. p < Len(stream[c]) /\ p + 1 \in DOMAIN stream[c] /\ (p + 1) - 1 = p
  BY <1>1 DEF Unread
<1>4. p % 3 = ReadPhase(c)
  BY <1>1, <1>2, <1>3 DEF Frames
<1>5. stream[c][p + 1].kind \in KindsAt(((p + 1) - 1) % 3)
  BY <1>2, <1>3 DEF Frames
<1>6. NextItem(c).kind \in KindsAt(ReadPhase(c))
  BY <1>3, <1>4, <1>5 DEF NextItem
<1> QED
  BY <1>6 DEF KindsAt, ReadPhase, Expected

\* Where the two ends of a connection are in a frame is an inductive invariant, given
\* the order of the descriptors.
THEOREM FramesInOrder == Spec => []FrameInv
<1>1. Init => FrameInv
  BY InitFrames
<1>2. DescriptorInv /\ FrameInv /\ [Next]_vars => FrameInv'
  <2> SUFFICES ASSUME DescriptorInv, FrameInv, [Next]_vars PROVE FrameInv'
    OBVIOUS
  <2>1. ASSUME NEW w \in Writers, WriterStep(w) PROVE FrameInv'
    BY <2>1, WriterFrames
  <2>2. ASSUME NEW f \in Forks, Fork(f[1], f[2]) PROVE FrameInv'
    <3>1. f[1] \in Writers /\ f[2] \in Writers
      BY ServerAssumption
    <3> QED
      BY <2>2, <3>1, ForkFrames
  <2>3. CASE ChildExit \/ WaitpidStep \/ AppStep \/ UNCHANGED vars
    BY <2>3, OthersFrames
  <2>4. CASE ServerStep
    BY <2>4, LoopFrames, MessageFrames DEF ServerStep
  <2> QED
    BY <2>1, <2>2, <2>3, <2>4 DEF Next, Returned
<1> QED
  BY <1>1, <1>2, DescriptorsInOrder, PTL DEF Spec

\* Whatever processes end in the middle of an event, and whichever descriptors
\* are closed and used again meanwhile, what run_server reads next on the socket of
\* one process is the field handle_message() and the handlers are about to read.
THEOREM BothEndsAgree == Spec => []Framed
<1>1. DescriptorInv => TypeOK
  BY DEF DescriptorInv
<1> QED
  BY <1>1, DescriptorsInOrder, FramesInOrder, FramesAreFramed, PTL

-----------------------------------------------------------------------------
(* The order of the callbacks: steps that send and call back nothing. *)

\* Initially nothing was sent.
LEMMA InitCallbacks == Init => CallbackInv
<1> SUFFICES ASSUME Init PROVE CallbackInv
  OBVIOUS
<1>1. DOMAIN log = {} /\ \A c \in Writers : DOMAIN stream[c] = {}
  BY DEF Init
<1> QED
  BY <1>1 DEF CallbackInv, SentInOrder, AllReadToEnd, CalledBack, WriterOrder

\* What has been read stays read.
LEMMA StaysRead ==
  ASSUME TypeOK, NEW e, ReadToEnd(e), UNCHANGED stream,
         \A c \in Writers : pos'[c] \in Nat /\ pos[c] <= pos'[c]
  PROVE  ReadToEnd(e)'
<1>1. \A c \in Writers : \A i \in DOMAIN stream[c] : i <= pos[c] => i <= pos'[c]
  BY DEF TypeOK, WireTypes
<1> QED
  BY <1>1 DEF ReadToEnd

\* A step that moves writers on only by ending them.
LEMMA QuietCallbacks ==
  ASSUME TypeOK, CallbackInv, UNCHANGED <<sock, nev, stream, log>>,
         \A c \in Writers : pos'[c] \in Nat /\ pos[c] <= pos'[c],
         \A w \in Writers : \/ wpc'[w] = wpc[w]
                            \/ wpc'[w] = "closed"
                            \/ wpc[w] = "unborn" /\ wpc'[w] = "idle"
  PROVE  CallbackInv'
<1>1. ASSUME NEW w \in Writers PROVE SentInOrder(w)'
  <2>1. SentInOrder(w)
    BY DEF CallbackInv
  <2> QED
    BY <2>1 DEF SentInOrder, EndsEventOf
<1>2. AllReadToEnd'
  BY StaysRead DEF CallbackInv, AllReadToEnd, CalledBack
<1>3. WriterOrder'
  BY DEF CallbackInv, WriterOrder
<1> QED
  BY <1>1, <1>2, <1>3 DEF CallbackInv

-----------------------------------------------------------------------------
(* Writers. *)

\* A field of an event: the last one is that of the event the writer is in, and
\* the first one starts the next event.
LEMMA FieldCallbacks ==
  ASSUME TypeOK, CallbackInv, NEW w \in Writers,
         NEW from \in {"idle", "type", "body"}, NEW to \in Holding \cup {"closed"},
         NEW n \in Nat, NEW kind \in ItemKinds, WriteField(w, from, to, n, kind),
         n = nev[w] \/ n = nev[w] + 1,
         kind = "BODY" => from = "body" /\ to \notin {"type", "body"} /\ n = nev[w],
         to \in {"type", "body"} => from \in {"type", "body"} \/ n = nev[w] + 1
  PROVE  CallbackInv'
<1> DEFINE d == sock[w]
           item == Item(w, n, kind)
<1>1. /\ UNCHANGED <<sock, pos, log>>
      /\ wpc[w] = from /\ wpc'[w] = to /\ nev'[w] = n /\ nev[w] \in Nat
      /\ \A v \in Writers \ {w} : wpc'[v] = wpc[v] /\ nev'[v] = nev[v]
      /\ stream' = [stream EXCEPT ![d] = Append(@, item)] \/ stream' = stream
      /\ d \in Writers
      /\ stream[d] \in Seq(Items)
      /\ \A c \in Writers : stream[c] \in Seq(Items)
  BY DEF WriteField, Send, TypeOK, ProcessTypes, WireTypes
<1>2. /\ item.kind = kind /\ item.ev[1] = w /\ item.ev[2] = n
  BY DEF Item
<1>3. ASSUME NEW c \in Writers
      PROVE  /\ \A i \in DOMAIN stream[c] :
                  /\ i \in DOMAIN stream'[c] /\ stream'[c][i] = stream[c][i]
                  /\ i \in Nat /\ i <= Len(stream[c])
             /\ \A i \in DOMAIN stream'[c] :
                  \/ i \in DOMAIN stream[c]
                  \/ c = d /\ i = Len(stream[c]) + 1 /\ stream'[c][i] = item
  <2>1. stream[c] \in Seq(Items)
    BY <1>1
  <2>2. CASE stream'[c] = stream[c]
    BY <2>1, <2>2
  <2>3. CASE c = d /\ stream'[c] = Append(stream[c], item)
    BY <2>1, <2>3
  <2> QED
    BY <1>1, <2>2, <2>3 DEF TypeOK, WireTypes
<1>5. ASSUME NEW v \in Writers PROVE SentInOrder(v)'
  <2>1. SentInOrder(v)
    BY DEF CallbackInv
  <2>2. ASSUME NEW c \in Writers, NEW i \in DOMAIN stream'[c], EndsEventOf(v, c, i)'
        PROVE  /\ c = sock'[v]
               /\ wpc'[v] # "unborn"
               /\ stream'[c][i].ev[2] <= nev'[v]
               /\ wpc'[v] \in {"type", "body"} => stream'[c][i].ev[2] < nev'[v]
    <3>1. CASE i \in DOMAIN stream[c]
      <4>1. /\ EndsEventOf(v, c, i) /\ stream'[c][i] = stream[c][i]
            /\ stream[c][i] \in Items
            /\ nev[v] \in Nat
        BY <1>1, <1>3, <2>2, <3>1 DEF EndsEventOf, TypeOK, ProcessTypes
      <4>2. stream[c][i].ev[2] \in Nat
        BY <4>1 DEF Items
      <4>3. /\ c = sock[v] /\ wpc[v] # "unborn"
            /\ stream[c][i].ev[2] <= nev[v]
            /\ wpc[v] \in {"type", "body"} => stream[c][i].ev[2] < nev[v]
        BY <2>1, <3>1, <4>1 DEF SentInOrder
      <4>4. CASE v = w
        BY <1>1, <4>1, <4>3, <4>4, <4>2 DEF Holding
      <4>5. CASE v # w
        BY <1>1, <4>1, <4>3, <4>5
      <4> QED
        BY <4>4, <4>5
    <3>2. CASE c = d /\ stream'[c][i] = item
      <4>1. kind = "BODY" /\ v = w
        BY <1>2, <2>2, <3>2 DEF EndsEventOf
      <4> QED
        BY <1>1, <1>2, <3>2, <4>1 DEF Holding
    <3> QED
      BY <1>3, <3>1, <3>2
  <2>3. ASSUME NEW c \in Writers, NEW i \in DOMAIN stream'[c], NEW j \in DOMAIN stream'[c],
               i < j, EndsEventOf(v, c, i)', EndsEventOf(v, c, j)'
        PROVE  stream'[c][i].ev[2] < stream'[c][j].ev[2]
    <3>1. i \in DOMAIN stream[c] /\ stream'[c][i] = stream[c][i]
      <4>1. j \in Nat /\ j <= Len(stream[c]) + 1 /\ Len(stream[c]) \in Nat
        BY <1>1, <1>3
      <4> QED
        BY <1>3, <2>3, <4>1
    <3>2. EndsEventOf(v, c, i)
      BY <2>3, <3>1 DEF EndsEventOf
    <3>3. CASE j \in DOMAIN stream[c]
      <4>1. EndsEventOf(v, c, j) /\ stream'[c][j] = stream[c][j]
        BY <1>3, <2>3, <3>3 DEF EndsEventOf
      <4> QED
        BY <2>1, <2>3, <3>1, <3>2, <3>3, <4>1 DEF SentInOrder
    <3>4. CASE c = d /\ stream'[c][j] = item
      <4>1. kind = "BODY" /\ v = w
        BY <1>2, <2>3, <3>4 DEF EndsEventOf
      <4>2. stream[c][i].ev[2] < nev[w]
        BY <1>1, <2>1, <3>1, <3>2, <4>1 DEF SentInOrder
      <4> QED
        BY <1>2, <3>1, <3>4, <4>1, <4>2
    <3> QED
      BY <1>3, <3>3, <3>4
  <2> QED
    BY <2>2, <2>3 DEF SentInOrder
<1>6. ASSUME NEW e, ReadToEnd(e) PROVE ReadToEnd(e)'
  BY <1>1, <1>3, <1>6 DEF ReadToEnd
<1>7. AllReadToEnd'
  BY <1>1, <1>6 DEF CallbackInv, AllReadToEnd, CalledBack
<1>8. WriterOrder'
  BY <1>1 DEF CallbackInv, WriterOrder
<1> QED
  BY <1>5, <1>7, <1>8 DEF CallbackInv

\* A forked process has sent nothing yet, neither here nor there.
LEMMA ForkCallbacks ==
  ASSUME TypeOK, CallbackInv, NEW w \in Writers, NEW v \in Writers, Fork(w, v)
  PROVE  CallbackInv'
<1>1. /\ UNCHANGED <<nev, stream, pos, log>>
      /\ wpc[v] = "unborn"
      /\ \A u \in Writers \ {v} : wpc'[u] = wpc[u] /\ sock'[u] = sock[u]
  BY DEF Fork, TypeOK, ProcessTypes
<1>2. ASSUME NEW u \in Writers PROVE SentInOrder(u)'
  <2>1. SentInOrder(u)
    BY DEF CallbackInv
  <2>2. CASE u = v
    BY <1>1, <2>1, <2>2 DEF SentInOrder, EndsEventOf
  <2>3. CASE u # v
    BY <1>1, <2>1, <2>3 DEF SentInOrder, EndsEventOf
  <2> QED
    BY <2>2, <2>3
<1>3. AllReadToEnd'
  BY <1>1 DEF CallbackInv, AllReadToEnd, CalledBack, ReadToEnd
<1>4. WriterOrder'
  BY <1>1 DEF CallbackInv, WriterOrder
<1> QED
  BY <1>2, <1>3, <1>4 DEF CallbackInv

\* Every step of an instrumented process.
LEMMA WriterCallbacks ==
  ASSUME TypeOK, CallbackInv, NEW w \in Writers, WriterStep(w)
  PROVE  CallbackInv'
<1>1. /\ nev[w] \in Nat /\ nev[w] + 1 \in Nat
      /\ \A c \in Writers : pos[c] \in Nat
  BY DEF TypeOK, ProcessTypes, WireTypes
<1>2. CASE Connect(w) \/ ConnectFails(w) \/ Die(w)
  <2>1. UNCHANGED <<sock, nev, stream, pos, log>>
    BY <1>2 DEF Connect, ConnectFails, Die
  <2>2. \A v \in Writers : \/ wpc'[v] = wpc[v]
                           \/ wpc'[v] = "closed"
                           \/ wpc[v] = "unborn" /\ wpc'[v] = "idle"
    BY <1>2 DEF Connect, ConnectFails, Die, TypeOK, ProcessTypes
  <2> QED
    BY <1>1, <2>1, <2>2, QuietCallbacks
<1>3. CASE WriteMsgType(w)
  BY <1>1, <1>3, FieldCallbacks DEF WriteMsgType, ItemKinds, Holding
<1>4. CASE WriteEventType(w)
  BY <1>1, <1>4, FieldCallbacks DEF WriteEventType, ItemKinds, Holding
<1>5. CASE WriteBody(w)
  BY <1>1, <1>5, FieldCallbacks DEF WriteBody, ItemKinds, Holding
<1>6. CASE WriteDone(w)
  BY <1>1, <1>6, FieldCallbacks DEF WriteDone, ItemKinds, Holding
<1> QED
  BY <1>2, <1>3, <1>4, <1>5, <1>6 DEF WriterStep

-----------------------------------------------------------------------------
(* run_server and the rest of the observer. *)

\* A read never goes back.
LEMMA ReadsOnward ==
  ASSUME TypeOK, NEW kinds, ReadsEof \/ ReadsItem(kinds)
  PROVE  \A c \in Writers : pos'[c] \in Nat /\ pos[c] <= pos'[c]
<1>1. \A c \in Writers : pos[c] \in Nat
  BY DEF TypeOK, WireTypes
<1>2. CASE ReadsEof
  BY <1>1, <1>2 DEF ReadsEof
<1>3. CASE ReadsItem(kinds)
  BY <1>1, <1>3 DEF ReadsItem, TypeOK, WireTypes
<1> QED
  BY <1>2, <1>3

\* Steps without a callback.
LEMMA SilentSteps ==
  ASSUME TypeOK, CallbackInv,
         \/ ChildExit \/ WaitpidStep \/ AppStep \/ UNCHANGED vars
         \/ Select \/ SelectFails \/ EndScan \/ CloseListener \/ Return
         \/ \E fd \in Fds : ScanStep(fd)
         \/ ReadMsgType \/ ReadEventType
  PROVE  CallbackInv'
<1>1. \A c \in Writers : pos[c] \in Nat
  BY DEF TypeOK, WireTypes
<1>2. CASE ReadMsgType \/ ReadEventType
  <2>1. \A c \in Writers : pos'[c] \in Nat /\ pos[c] <= pos'[c]
    BY <1>2, ReadsOnward DEF ReadMsgType, ReadEventType
  <2> QED
    BY <1>2, <2>1, QuietCallbacks DEF ReadMsgType, ReadEventType
<1>3. CASE ChildExit
  <2>1. \A w \in Writers : wpc'[w] = wpc[w] \/ wpc'[w] = "closed"
    BY <1>3 DEF ChildExit
  <2> QED
    BY <1>1, <1>3, <2>1, QuietCallbacks DEF ChildExit
<1>4. CASE WaitpidStep \/ AppStep \/ UNCHANGED vars
  <2>1. UNCHANGED <<writerVars, wireVars, log>>
    BY <1>4 DEF WaitpidStep, WaitpidReport, WaitpidClose, AppStep, AppOpen, AppClose,
                AppSpawn, AppReap, vars
  <2> QED
    BY <1>1, <2>1, QuietCallbacks
<1>5. CASE \/ Select \/ SelectFails \/ EndScan \/ CloseListener \/ Return
           \/ \E fd \in Fds : ScanStep(fd)
  <2>1. UNCHANGED <<writerVars, wireVars, log>>
    BY <1>5 DEF Select, SelectFails, EndScan, CloseListener, Return, ScanStep, DropErrored,
                Accept, AcceptFails, ChildPipe, StartMessage, CloseStraggler
  <2> QED
    BY <1>1, <2>1, QuietCallbacks
<1> QED
  BY <1>2, <1>3, <1>4, <1>5

\* A callback: the event that has just been read ends behind all those of its
\* writer that were called back before.
LEMMA HandlerCallbacks ==
  ASSUME TypeOK, ScanSets, CallbackInv, HandleEvent
  PROVE  CallbackInv'
<1>1. /\ Conn \in Writers /\ UNCHANGED <<writerVars, stream>>
      /\ log \in Seq(Writers \X Nat)
      /\ \A c \in Writers : pos'[c] \in Nat /\ pos[c] <= pos'[c]
  BY HandledConnection, ReadsOnward DEF HandleEvent, Reading, TypeOK, LoopTypes
<1>2. CASE UNCHANGED log
  BY <1>1, <1>2, QuietCallbacks
<1>3. ASSUME NEW e \in Writers \X Nat, log' = Append(log, e),
             e[2] > 0 => /\ ReadToEnd(e)'
                         /\ \A i \in DOMAIN log : log[i][2] > 0 /\ log[i][1] = e[1]
                                                  => log[i][2] < e[2]
      PROVE  CallbackInv'
  <2>1. \A w \in Writers : SentInOrder(w)'
    BY <1>1 DEF CallbackInv, SentInOrder, EndsEventOf
  <2>2. \A i \in DOMAIN log' : \/ i \in DOMAIN log /\ log'[i] = log[i]
                               \/ i = Len(log) + 1 /\ log'[i] = e
    BY <1>1, <1>3
  <2>3. AllReadToEnd'
    <3> SUFFICES ASSUME NEW b \in CalledBack', b[2] > 0
                 PROVE  ReadToEnd(b)'
      BY DEF AllReadToEnd
    <3>1. b \in CalledBack \/ b = e
      BY <2>2 DEF CalledBack
    <3>2. CASE b \in CalledBack
      BY <1>1, <3>2, StaysRead DEF CallbackInv, AllReadToEnd
    <3> QED
      BY <1>3, <3>1, <3>2
  <2>4. WriterOrder'
    <3> SUFFICES ASSUME NEW i \in DOMAIN log', NEW j \in DOMAIN log', i < j,
                        log'[i][1] = log'[j][1], log'[i][2] > 0, log'[j][2] > 0
                 PROVE  log'[i][2] < log'[j][2]
      BY DEF WriterOrder
    <3>1. i \in DOMAIN log /\ log'[i] = log[i]
      BY <1>1, <1>3, <2>2
    <3>2. CASE j \in DOMAIN log /\ log'[j] = log[j]
      BY <3>1, <3>2 DEF CallbackInv, WriterOrder
    <3>3. CASE log'[j] = e
      BY <1>3, <3>1, <3>3
    <3> QED
      BY <2>2, <3>2, <3>3
  <2> QED
    BY <2>1, <2>3, <2>4 DEF CallbackInv
<1>4. CASE log' = Append(log, Garbled(Conn))
  <2>1. Garbled(Conn) \in Writers \X Nat /\ ~(Garbled(Conn)[2] > 0)
    BY <1>1 DEF Garbled
  <2> QED
    BY <1>3, <1>4, <2>1
<1>5. CASE ReadsItem({"BODY"}) /\ log' = Append(log, NextItem(Conn).ev)
  <2>1. PICK d \in Writers : d = Conn
    BY <1>1
  <2>2. PICK m \in Nat : m = pos[d] + 1
    BY DEF TypeOK, WireTypes
  <2>3. /\ pos[d] \in Nat /\ stream[d] \in Seq(Items) /\ m \in DOMAIN stream[d]
        /\ pos'[d] = m
    BY <1>5, <2>1, <2>2 DEF ReadsItem, Unread, TypeOK, WireTypes
  <2>4. stream[d][m] = NextItem(Conn) /\ stream[d][m] \in Items
    BY <2>1, <2>2, <2>3 DEF NextItem
  <2>5. PICK e \in Writers \X Nat : e = stream[d][m].ev
    BY <2>4 DEF Items
  <2>6. stream[d][m].kind = "BODY"
    BY <1>5, <2>4 DEF ReadsItem
  <2>7. ReadToEnd(e)'
    <3>1. m <= pos'[d] /\ m \in DOMAIN stream'[d] /\ stream'[d][m] = stream[d][m]
      BY <1>1, <2>3
    <3> QED
      BY <2>5, <2>6, <3>1 DEF ReadToEnd
  <2>8. ASSUME NEW i \in DOMAIN log, log[i][2] > 0, log[i][1] = e[1]
        PROVE  log[i][2] < e[2]
    <3>1. ReadToEnd(log[i])
      <4>1. PICK b \in Writers \X Nat : b = log[i]
        BY <1>1
      <4> QED
        BY <2>8, <4>1 DEF CallbackInv, AllReadToEnd, CalledBack
    <3>2. PICK c \in Writers : \E j \in DOMAIN stream[c] :
             j <= pos[c] /\ stream[c][j].kind = "BODY" /\ stream[c][j].ev = log[i]
      BY <3>1 DEF ReadToEnd
    <3>3. PICK j \in DOMAIN stream[c] :
             j <= pos[c] /\ stream[c][j].kind = "BODY" /\ stream[c][j].ev = log[i]
      BY <3>2
    <3>4. e[1] \in Writers /\ SentInOrder(e[1])
      BY DEF CallbackInv
    <3>5. EndsEventOf(e[1], c, j) /\ EndsEventOf(e[1], d, m)
      BY <2>5, <2>6, <2>8, <3>3 DEF EndsEventOf
    <3>6. c = d
      BY <2>3, <3>4, <3>5 DEF SentInOrder
    <3>7. j \in Nat /\ j < m
      BY <2>2, <2>3, <3>3, <3>6
    <3>8. stream[d][j].ev[2] < stream[d][m].ev[2]
      BY <2>3, <3>4, <3>5, <3>6, <3>7 DEF SentInOrder
    <3> QED
      BY <2>5, <3>3, <3>6, <3>8
  <2> QED
    BY <1>3, <1>5, <2>4, <2>5, <2>7, <2>8
<1> QED
  BY <1>2, <1>4, <1>5 DEF HandleEvent

-----------------------------------------------------------------------------
(* The theorem. *)

\* How far each writer, each connection and the callbacks have got is an inductive
\* invariant, given the order of the descriptors.
THEOREM CallbacksInOrder == Spec => []CallbackInv
<1>1. Init => CallbackInv
  BY InitCallbacks
<1>2. DescriptorInv /\ CallbackInv /\ [Next]_vars => CallbackInv'
  <2> SUFFICES ASSUME TypeOK, ScanSets, CallbackInv, [Next]_vars PROVE CallbackInv'
    BY DEF DescriptorInv, Descriptors
  <2>1. ASSUME NEW w \in Writers, WriterStep(w) PROVE CallbackInv'
    BY <2>1, WriterCallbacks
  <2>2. ASSUME NEW f \in Forks, Fork(f[1], f[2]) PROVE CallbackInv'
    <3>1. f[1] \in Writers /\ f[2] \in Writers
      BY ServerAssumption
    <3> QED
      BY <2>2, <3>1, ForkCallbacks
  <2>3. CASE ChildExit \/ WaitpidStep \/ AppStep \/ UNCHANGED vars
    BY <2>3, SilentSteps
  <2>4. CASE ServerStep
    BY <2>4, SilentSteps, HandlerCallbacks DEF ServerStep
  <2> QED
    BY <2>1, <2>2, <2>3, <2>4 DEF Next, Returned
<1> QED
  BY <1>1, <1>2, DescriptorsInOrder, PTL DEF Spec

\* Even on a connection that a fork() shares, where frames of two processes mix and
\* callbacks may get anyone's data, no event of a writer is called back twice or
\* before an earlier one of the same writer.
THEOREM CalledBackInOrder == Spec => []WriterOrder
<1>1. CallbackInv => WriterOrder
  BY DEF CallbackInv
<1> QED
  BY <1>1, CallbacksInOrder, PTL
=============================================================================
