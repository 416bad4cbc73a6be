---------------------------- MODULE ServerProofs ----------------------------
(***************************************************************************)
(* Proofs about VoyeurServer, for every value of its constants.            *)
(***************************************************************************)
EXTENDS ServerInvariants, TLAPS

USE DEF childVars, waitVars, writerVars, connVars, wireVars, fdVars, constVars,
        selectVars, exitVars

-----------------------------------------------------------------------------
(* Type correctness. *)

\* A writer is not one of the other things a descriptor can refer to.
LEMMA WritersAreNotKinds ==
  \A w \in Writers : w \notin {"free", "app", "listen", "pipeOut", "pipeIn"}
  BY ServerAssumption DEF FdKinds

\* Initially every variable has its type.
LEMMA InitTypeOK == Init => TypeOK
<1> SUFFICES ASSUME Init PROVE TypeOK
  OBVIOUS
<1>1. ProcessTypes
  <2>1. pipe \in Seq(Statuses)
    BY DEF Init
  <2>2. /\ wpc \in [Writers -> {"unborn", "closed"} \cup Holding]
        /\ sock \in [Writers -> Writers]
    BY DEF Init
  <2>3. nev \in [Writers -> Nat] /\ seen \in [Writers -> SUBSET Writers]
    BY DEF Init
  <2> QED
    BY <2>1, <2>2, <2>3 DEF Init, ProcessTypes
<1>2. WireTypes
  BY DEF Init, WireTypes
<1>3. PICK l \in Layouts : /\ server_sock = l[1]
                           /\ child_pipe_output = l[2]
                           /\ child_pipe_input = l[3]
  BY DEF Init
<1>4. server_sock \in Fds /\ child_pipe_output \in Fds /\ child_pipe_input \in Fds
  BY <1>3, ServerAssumption
<1>5. DescriptorTypes
  BY <1>4 DEF Init, DescriptorTypes, FdKinds
<1>6. LoopTypes
  <2>1. log \in Seq(Writers \X Nat)
    BY DEF Init
  <2>2. active_fd_set \subseteq Fds /\ read_fd_set \subseteq Fds /\ error_fd_set \subseteq Fds
    BY <1>4 DEF Init
  <2> QED
    BY <2>1, <2>2 DEF Init, LoopTypes
<1> QED
  BY <1>1, <1>2, <1>5, <1>6 DEF TypeOK

\* Closing a descriptor keeps the types of what it changes.
LEMMA CloseFdType ==
  ASSUME TypeOK, NEW fd \in Fds, CloseFd(fd), UNCHANGED constVars
  PROVE  DescriptorTypes'
  BY DEF TypeOK, DescriptorTypes, CloseFd, FdKinds

\* Sending a field keeps the types of the wire.
LEMMA SendType ==
  ASSUME WireTypes, NEW w \in Writers, sock[w] \in Writers,
         NEW item \in Items, Send(w, item), UNCHANGED pos
  PROVE  WireTypes'
<1>1. CASE UNCHANGED stream
  BY <1>1 DEF WireTypes
<1>2. CASE stream' = [stream EXCEPT ![sock[w]] = Append(@, item)]
  <2>1. \A v \in Writers : stream[v] \in Seq(Items)
    BY DEF WireTypes
  <2>2. \A v \in Writers : Len(stream[v]) \in Nat
    BY <2>1
  <2>3. /\ Append(stream[sock[w]], item) \in Seq(Items)
        /\ Len(Append(stream[sock[w]], item)) = Len(stream[sock[w]]) + 1
    BY <2>1
  <2>4. stream' \in [Writers -> Seq(Items)]
    BY <1>2, <2>3 DEF WireTypes
  <2>5. \A v \in Writers : Len(stream[v]) <= Len(stream'[v])
    BY <1>2, <2>2, <2>3 DEF WireTypes
  <2> QED
    BY <2>2, <2>4, <2>5 DEF WireTypes
<1> QED
  BY <1>1, <1>2 DEF Send

\* The steps of the instrumented processes keep every type.
LEMMA WriterTypeOK ==
  ASSUME TypeOK, NEW w \in Writers, WriterStep(w)
  PROVE  TypeOK'
<1> USE DEF TypeOK
<1>1. CASE Connect(w)
  <2>1. ProcessTypes'
    <3>1. seen' \in [Writers -> SUBSET Writers]
      BY <1>1 DEF ProcessTypes, Connect
    <3> QED
      BY <1>1, <3>1 DEF ProcessTypes, Connect, Holding
  <2>2. WireTypes' /\ LoopTypes'
    BY <1>1 DEF WireTypes, LoopTypes, Connect
  <2>3. DescriptorTypes'
    BY <1>1 DEF DescriptorTypes, Connect
  <2> QED
    BY <2>1, <2>2, <2>3
<1>2. CASE ConnectFails(w)
  <2>1. WireTypes' /\ LoopTypes'
    BY <1>2 DEF WireTypes, LoopTypes, ConnectFails
  <2> QED
    BY <1>2, <2>1 DEF ProcessTypes, DescriptorTypes, ConnectFails, Holding
<1>3. CASE Die(w)
  <2>1. WireTypes' /\ LoopTypes' /\ DescriptorTypes'
    BY <1>3 DEF WireTypes, LoopTypes, DescriptorTypes, Die
  <2> QED
    BY <1>3, <2>1 DEF ProcessTypes, Die
<1>4. ASSUME NEW from \in Holding, NEW to \in Holding \cup {"closed"},
             NEW n \in Nat, NEW kind \in ItemKinds, WriteField(w, from, to, n, kind)
      PROVE  TypeOK'
  <2>1. ProcessTypes'
    BY <1>4 DEF ProcessTypes, WriteField
  <2>2. Item(w, n, kind) \in Items
    BY DEF Item, Items
  <2>3. WireTypes'
    BY <1>4, <2>2, SendType DEF WriteField, ProcessTypes
  <2>4. DescriptorTypes' /\ LoopTypes'
    BY <1>4 DEF DescriptorTypes, LoopTypes, WriteField
  <2> QED
    BY <2>1, <2>3, <2>4
<1>5. nev[w] \in Nat /\ nev[w] + 1 \in Nat
  BY DEF ProcessTypes
<1>6. CASE WriteMsgType(w) \/ WriteEventType(w) \/ WriteBody(w) \/ WriteDone(w)
  BY <1>4, <1>5, <1>6
     DEF WriteMsgType, WriteEventType, WriteBody, WriteDone, ItemKinds, Holding
<1> QED
  BY <1>1, <1>2, <1>3, <1>6 DEF WriterStep

\* So do the steps of the child, of the waitpid thread and of the application.
LEMMA ProcessTypeOK ==
  ASSUME TypeOK,
         \/ \E f \in Forks : Fork(f[1], f[2])
         \/ ChildExit
         \/ WaitpidStep
         \/ AppStep
  PROVE  TypeOK'
<1> USE DEF TypeOK
<1>1. ASSUME NEW f \in Forks, Fork(f[1], f[2]) PROVE TypeOK'
  <2>1. f[1] \in Writers /\ f[2] \in Writers
    BY ServerAssumption
  <2>2. WireTypes' /\ LoopTypes' /\ DescriptorTypes'
    BY <1>1 DEF WireTypes, LoopTypes, DescriptorTypes, Fork
  <2>3. ProcessTypes'
    BY <1>1, <2>1 DEF ProcessTypes, Fork, Holding
  <2> QED
    BY <2>2, <2>3
<1>2. CASE ChildExit
  <2>1. WireTypes' /\ LoopTypes' /\ DescriptorTypes'
    BY <1>2 DEF WireTypes, LoopTypes, DescriptorTypes, ChildExit
  <2>2. ProcessTypes'
    BY <1>2 DEF ProcessTypes, ChildExit
  <2> QED
    BY <2>1, <2>2
<1>3. CASE WaitpidReport
  <2>1. WireTypes' /\ LoopTypes' /\ DescriptorTypes'
    BY <1>3 DEF WireTypes, LoopTypes, DescriptorTypes, WaitpidReport
  <2>2. pipe' = pipe
    BY <1>3 DEF WaitpidReport, DoWrite
  <2>3. ProcessTypes'
    BY <1>3, <2>2 DEF ProcessTypes, WaitpidReport
  <2> QED
    BY <2>1, <2>3
<1>4. CASE WaitpidClose
  <2>1. DescriptorTypes'
    BY <1>4, CloseFdType DEF DescriptorTypes, WaitpidClose
  <2>2. WireTypes' /\ LoopTypes' /\ ProcessTypes'
    BY <1>4 DEF WireTypes, LoopTypes, ProcessTypes, WaitpidClose
  <2> QED
    BY <2>1, <2>2
<1>5. ASSUME NEW fd \in Fds, AppOpen(fd) \/ AppClose(fd) PROVE TypeOK'
  <2>1. WireTypes' /\ LoopTypes' /\ ProcessTypes'
    BY <1>5 DEF WireTypes, LoopTypes, ProcessTypes, AppOpen, AppClose
  <2>2. DescriptorTypes'
    BY <1>5 DEF DescriptorTypes, AppOpen, AppClose, FdKinds
  <2> QED
    BY <2>1, <2>2
<1>6. CASE AppSpawn \/ AppReap
  <2>1. WireTypes' /\ LoopTypes' /\ DescriptorTypes'
    BY <1>6 DEF WireTypes, LoopTypes, DescriptorTypes, AppSpawn, AppReap
  <2>2. ProcessTypes'
    BY <1>6 DEF ProcessTypes, AppSpawn, AppReap
  <2> QED
    BY <2>1, <2>2
<1> QED
  BY <1>1, <1>2, <1>3, <1>4, <1>5, <1>6 DEF WaitpidStep, AppStep

\* The connection being handled is one, so its stream and pos are defined.
LEMMA HandledConnection ==
  ASSUME ScanSets, pc \in Reading
  PROVE  cur \in Fds /\ Conn \in Writers
  BY DEF ScanSets, Conn

\* A read of an item or of the end of the file keeps the types of the wire.
LEMMA ReadType ==
  ASSUME WireTypes, Conn \in Writers, NEW kinds, UNCHANGED stream,
         ReadsEof \/ ReadsItem(kinds)
  PROVE  WireTypes'
<1>1. stream[Conn] \in Seq(Items) /\ pos[Conn] \in Nat
  BY DEF WireTypes
<1>2. Len(stream[Conn]) \in Nat
  BY <1>1
<1>3. CASE ReadsEof
  BY <1>3 DEF WireTypes, ReadsEof
<1>4. CASE ReadsItem(kinds)
  <2>1. pos[Conn] + 1 <= Len(stream[Conn])
    BY <1>1, <1>2, <1>4 DEF ReadsItem, Unread
  <2> QED
    BY <1>1, <1>4, <2>1 DEF WireTypes, ReadsItem
<1> QED
  BY <1>3, <1>4

\* handle_message() keeps the types of the descriptors whichever way it ends.
LEMMA AfterReadType ==
  ASSUME TypeOK, cur \in Fds, UNCHANGED <<constVars, read_fd_set, error_fd_set, exitVars, log>>,
         \/ EndConnection
         \/ NextFd
         \/ NextField("evtype")
         \/ NextField("body")
  PROVE  DescriptorTypes' /\ LoopTypes'
<1> USE DEF TypeOK
<1>1. CASE EndConnection
  BY <1>1, CloseFdType DEF EndConnection, LoopTypes
<1>2. CASE NextFd
  BY <1>2 DEF NextFd, DescriptorTypes, LoopTypes
<1>3. CASE NextField("evtype") \/ NextField("body")
  BY <1>3 DEF NextField, DescriptorTypes, LoopTypes
<1> QED
  BY <1>1, <1>2, <1>3

\* The steps of run_server keep every type.
LEMMA ServerTypeOK ==
  ASSUME TypeOK, ScanSets, ServerStep
  PROVE  TypeOK'
<1> USE DEF TypeOK
<1>1. CASE Select \/ SelectFails \/ EndScan \/ Return
  <2>1. WireTypes' /\ ProcessTypes' /\ DescriptorTypes'
    BY <1>1 DEF WireTypes, ProcessTypes, DescriptorTypes, Select, SelectFails, EndScan, Return
  <2>2. LoopTypes'
    BY <1>1 DEF LoopTypes, Select, SelectFails, EndScan, Return, Exceptional
  <2> QED
    BY <2>1, <2>2
<1>2. ASSUME NEW fd \in Fds, ScanStep(fd) PROVE TypeOK'
  <2>1. CASE DropErrored(fd) \/ CloseStraggler(fd)
    <3>1. WireTypes' /\ ProcessTypes'
      BY <2>1 DEF WireTypes, ProcessTypes, DropErrored, CloseStraggler
    <3>2. LoopTypes'
      BY <2>1 DEF LoopTypes, DropErrored, CloseStraggler, Visit
    <3>3. DescriptorTypes'
      BY <2>1, CloseFdType DEF DropErrored, CloseStraggler
    <3> QED
      BY <3>1, <3>2, <3>3
  <2>2. CASE Accept(fd)
    <3>1. WireTypes' /\ ProcessTypes'
      BY <2>2 DEF WireTypes, ProcessTypes, Accept
    <3>2. PICK new \in FreeFds : /\ AcceptAs(new)
                                 /\ active_fd_set' = active_fd_set \cup {new}
      BY <2>2 DEF Accept
    <3>3. LoopTypes'
      BY <2>2, <3>2 DEF LoopTypes, Accept, Visit, FreeFds
    <3>4. Head(backlog) \in Writers /\ Tail(backlog) \in Seq(Writers)
      <4>1. backlog # <<>> /\ backlog \in Seq(Writers)
        BY <2>2 DEF Accept, Visit, Ahead, ScanSets, DescriptorTypes
      <4> QED
        BY <4>1
    <3>5. DescriptorTypes'
      BY <2>2, <3>2, <3>4 DEF DescriptorTypes, AcceptAs, Accept, FreeFds
    <3> QED
      BY <3>1, <3>3, <3>5
  <2>3. CASE AcceptFails(fd) \/ StartMessage(fd)
    <3>1. WireTypes' /\ ProcessTypes' /\ DescriptorTypes'
      BY <2>3 DEF WireTypes, ProcessTypes, DescriptorTypes, AcceptFails, StartMessage
    <3>2. LoopTypes'
      BY <2>3 DEF LoopTypes, AcceptFails, StartMessage, Visit
    <3> QED
      BY <3>1, <3>2
  <2>4. CASE ChildPipe(fd)
    <3>1. WireTypes'
      BY <2>4 DEF WireTypes, ChildPipe
    <3>2. /\ pipe # <<>> => Head(pipe) \in Statuses
          /\ pipe' \in Seq(Statuses)
      BY <2>4 DEF ProcessTypes, ChildPipe
    <3>3. ProcessTypes'
      BY <2>4, <3>2 DEF ProcessTypes, ChildPipe
    <3>4. LoopTypes'
      BY <2>4, <3>2 DEF LoopTypes, ChildPipe, Visit
    <3>5. DescriptorTypes'
      BY <2>4, CloseFdType DEF ChildPipe
    <3> QED
      BY <3>1, <3>3, <3>4, <3>5
  <2> QED
    BY <1>2, <2>1, <2>2, <2>3, <2>4 DEF ScanStep
<1>3. CASE CloseListener
  <2>1. WireTypes' /\ ProcessTypes' /\ LoopTypes'
    BY <1>3 DEF WireTypes, ProcessTypes, LoopTypes, CloseListener
  <2>2. DescriptorTypes'
    BY <1>3, CloseFdType DEF CloseListener, DescriptorTypes
  <2> QED
    BY <2>1, <2>2
<1>4. CASE ReadMsgType \/ ReadEventType
  <2>1. cur \in Fds /\ Conn \in Writers
    BY <1>4, HandledConnection DEF ReadMsgType, ReadEventType, Reading
  <2>2. WireTypes'
    BY <1>4, <2>1, ReadType DEF ReadMsgType, ReadEventType
  <2>3. ProcessTypes'
    BY <1>4 DEF ProcessTypes, ReadMsgType, ReadEventType
  <2>4. DescriptorTypes' /\ LoopTypes'
    BY <1>4, <2>1, AfterReadType DEF ReadMsgType, ReadEventType
  <2> QED
    BY <2>2, <2>3, <2>4
<1>5. CASE HandleEvent
  <2>1. cur \in Fds /\ Conn \in Writers
    BY <1>5, HandledConnection DEF HandleEvent, Reading
  <2>2. WireTypes'
    BY <1>5, <2>1, ReadType DEF HandleEvent
  <2>3. ProcessTypes'
    BY <1>5 DEF ProcessTypes, HandleEvent
  <2>4. DescriptorTypes'
    BY <1>5 DEF DescriptorTypes, HandleEvent, NextFd, NextField
  <2>5. log' \in Seq(Writers \X Nat)
    <3>1. CASE UNCHANGED log
      BY <3>1 DEF LoopTypes
    <3>2. CASE ReadsItem({"BODY"}) /\ log' = Append(log, NextItem(Conn).ev)
      <4>1. stream[Conn] \in Seq(Items) /\ pos[Conn] \in Nat
        BY <2>1 DEF WireTypes
      <4>2. pos[Conn] + 1 \in 1 .. Len(stream[Conn])
        BY <3>2, <4>1 DEF ReadsItem, Unread
      <4>3. NextItem(Conn) \in Items
        BY <4>1, <4>2 DEF NextItem
      <4>4. NextItem(Conn).ev \in Writers \X Nat
        BY <4>3 DEF Items
      <4> QED
        BY <3>2, <4>4 DEF LoopTypes
    <3>3. CASE log' = Append(log, Garbled(Conn))
      BY <2>1, <3>3 DEF LoopTypes, Garbled
    <3> QED
      BY <1>5, <3>1, <3>2, <3>3 DEF HandleEvent
  <2>6. LoopTypes'
    BY <1>5, <2>5 DEF LoopTypes, HandleEvent, NextFd, NextField
  <2> QED
    BY <2>2, <2>3, <2>4, <2>6
<1> QED
  BY <1>1, <1>2, <1>3, <1>4, <1>5 DEF ServerStep

-----------------------------------------------------------------------------
(* Descriptors. *)

\* The invariant holds when voyeur_start() begins.
LEMMA InitDescriptors == Init => Descriptors
<1> SUFFICES ASSUME Init PROVE Descriptors
  OBVIOUS
<1>1. /\ server_sock # child_pipe_output
      /\ server_sock # child_pipe_input
      /\ child_pipe_output # child_pipe_input
      /\ server_sock \in Fds /\ child_pipe_output \in Fds /\ child_pipe_input \in Fds
  BY ServerAssumption DEF Init
<1>2. \A fd \in Fds : /\ owner[fd] = "listen" <=> fd = server_sock
                      /\ owner[fd] = "pipeOut" <=> fd = child_pipe_output
                      /\ owner[fd] = "pipeIn" <=> fd = child_pipe_input
                      /\ owner[fd] \notin Writers
  BY <1>1, WritersAreNotKinds DEF Init
<1>3. OwnNumbers
  BY <1>1, <1>2 DEF Init, OwnNumbers
<1>4. ActiveSet
  BY <1>1, <1>2 DEF Init, ActiveSet, ToWatch
<1>5. ScanSets
  BY DEF Init, ScanSets, Ahead, Reading
<1>6. Connections
  BY <1>2 DEF Init, Connections
<1> QED
  BY <1>3, <1>4, <1>5, <1>6 DEF Descriptors

\* A step that changes no descriptor and no socket leaves them in order.
LEMMA SameDescriptors ==
  ASSUME Descriptors,
         UNCHANGED <<connVars, fdVars, constVars, selectVars, exitVars, pc, cur>>,
         wp' = "ended" <=> wp = "ended",
         \A w \in Writers : wpc'[w] = "unborn" => wpc[w] = "unborn"
  PROVE  Descriptors'
<1>1. OwnNumbers' /\ ActiveSet'
  BY DEF Descriptors, OwnNumbers, ActiveSet, ToWatch, Listening
<1>2. ScanSets' /\ Connections'
  BY DEF Descriptors, ScanSets, Ahead, Connections, Listening
<1> QED
  BY <1>1, <1>2 DEF Descriptors

\* The steps of the instrumented processes leave the descriptors in order.
LEMMA WriterDescriptors ==
  ASSUME TypeOK, Descriptors, NEW w \in Writers, WriterStep(w)
  PROVE  Descriptors'
<1> USE DEF Descriptors
<1>1. CASE Connect(w)
  <2>1. OwnNumbers' /\ ActiveSet'
    BY <1>1 DEF Connect, OwnNumbers, ActiveSet, ToWatch, Listening
  <2>2. backlog \in Seq(Writers) /\ backlog' = Append(backlog, w)
    BY <1>1 DEF Connect, TypeOK, DescriptorTypes
  <2>3. /\ backlog' # <<>>
        /\ DOMAIN backlog' = DOMAIN backlog \cup {Len(backlog) + 1}
        /\ \A i \in DOMAIN backlog : backlog'[i] = backlog[i] /\ backlog[i] \in Writers
        /\ backlog'[Len(backlog) + 1] = w
    BY <2>2
  <2>4. ScanSets'
    BY <1>1, <2>3 DEF Connect, ScanSets, Ahead
  <2>5. link[w] = "none"
    BY <1>1 DEF Connect, Connections
  <2>6. \A v \in Writers : link'[v] = IF v = w THEN "queued" ELSE link[v]
    BY <1>1 DEF Connect, TypeOK, DescriptorTypes
  <2>7. \A v \in Writers : wpc'[v] = "unborn" => v # w /\ wpc[v] = "unborn"
    BY <1>1 DEF Connect, TypeOK, ProcessTypes
  <2>8. \A i \in DOMAIN backlog : backlog[i] # w
    BY <2>3, <2>5 DEF Connections
  <2>9. /\ \A i \in DOMAIN backlog' : link'[backlog'[i]] = "queued"
        /\ \A i, j \in DOMAIN backlog' : backlog'[i] = backlog'[j] => i = j
    BY <2>3, <2>6, <2>8 DEF Connections
  <2>10. Connections'
    BY <1>1, <2>5, <2>6, <2>7, <2>9 DEF Connect, Connections, Listening
  <2> QED
    BY <2>1, <2>4, <2>10
<1>2. CASE ConnectFails(w)
  <2>1. OwnNumbers' /\ ActiveSet'
    BY <1>2 DEF ConnectFails, OwnNumbers, ActiveSet, ToWatch, Listening
  <2>2. ScanSets'
    BY <1>2 DEF ConnectFails, ScanSets, Ahead
  <2>3. link[w] = "none" /\ UNCHANGED <<backlog, owner>>
    BY <1>2 DEF ConnectFails, Connections
  <2>4. \A v \in Writers : link'[v] = IF v = w THEN "gone" ELSE link[v]
    BY <1>2 DEF ConnectFails, TypeOK, DescriptorTypes
  <2>5. \A i \in DOMAIN backlog : backlog[i] \in Writers
    BY DEF TypeOK, DescriptorTypes
  <2>6. \A v \in Writers : wpc'[v] = "unborn" => wpc[v] = "unborn" /\ v # w
    BY <1>2 DEF ConnectFails, TypeOK, ProcessTypes
  <2>7. Connections'
    BY <2>3, <2>4, <2>5, <2>6 DEF Connections, Listening
  <2> QED
    BY <2>1, <2>2, <2>7
<1>3. CASE Die(w)
  BY <1>3, SameDescriptors DEF Die, TypeOK, ProcessTypes
<1>4. CASE WriteMsgType(w) \/ WriteEventType(w) \/ WriteBody(w) \/ WriteDone(w)
  BY <1>4, SameDescriptors
     DEF WriteMsgType, WriteEventType, WriteBody, WriteDone, WriteField, TypeOK, ProcessTypes
<1> QED
  BY <1>1, <1>2, <1>3, <1>4 DEF WriterStep

\* What close() does to the rest of the table.
LEMMA CloseFdOwner ==
  ASSUME TypeOK, NEW fd \in Fds, CloseFd(fd)
  PROVE  \A g \in Fds : owner'[g] = IF g = fd THEN "free" ELSE owner[g]
  BY DEF TypeOK, DescriptorTypes, CloseFd

\* Closing something that is neither the listener nor a connection resets no
\* connection.
LEMMA CloseFdPlain ==
  ASSUME TypeOK, NEW fd \in Fds, CloseFd(fd), owner[fd] \notin {"listen"} \cup Writers
  PROVE  link' = link /\ backlog' = backlog
  BY DEF TypeOK, DescriptorTypes, CloseFd

\* Closing anything but the listener leaves the queue alone and the listener
\* listening.
LEMMA CloseFdListening ==
  ASSUME TypeOK, NEW fd \in Fds, CloseFd(fd), owner[fd] # "listen"
  PROVE  backlog' = backlog /\ Listening' = Listening
<1>1. backlog' = backlog
  BY DEF CloseFd
<1>2. \A g \in Fds : owner'[g] = "listen" <=> owner[g] = "listen"
  BY CloseFdOwner
<1> QED
  BY <1>1, <1>2 DEF Listening

\* close() keeps the connections in order, whatever it is called on.
LEMMA CloseFdConnections ==
  ASSUME TypeOK, OwnNumbers, Connections, NEW fd \in Fds, CloseFd(fd), UNCHANGED wpc
  PROVE  Connections'
<1>1. \A g \in Fds : owner'[g] = IF g = fd THEN "free" ELSE owner[g]
  BY CloseFdOwner
<1>2. \A w \in Writers : w # "free"
  BY WritersAreNotKinds
<1>3. \A f, g \in Fds : owner'[f] = owner'[g] /\ owner'[f] \in Writers => f = g
  BY <1>1, <1>2 DEF Connections
<1>4. /\ \A i \in DOMAIN backlog : backlog[i] \in Writers
      /\ link \in [Writers -> {"none", "queued", "open", "gone"}]
  BY DEF TypeOK, DescriptorTypes
<1>5. CASE owner[fd] = "listen"
  <2>1. /\ backlog' = <<>>
        /\ \A w \in Writers : link'[w] = IF link[w] = "queued" THEN "gone" ELSE link[w]
    BY <1>5, WritersAreNotKinds DEF CloseFd
  <2>2. \A w \in Writers : link'[w] = "open" <=> \E g \in Fds : owner'[g] = w
    BY <1>1, <1>2, <1>5, <2>1, WritersAreNotKinds DEF Connections
  <2> QED
    BY <1>3, <2>1, <2>2 DEF Connections
<1>6. CASE owner[fd] \in Writers
  <2>1. \A w \in Writers : link'[w] = IF w = owner[fd] THEN "gone" ELSE link[w]
    BY <1>6, WritersAreNotKinds DEF CloseFd
  <2>2. backlog' = backlog /\ Listening' = Listening
    BY <1>6, CloseFdListening, WritersAreNotKinds
  <2>3. link[owner[fd]] = "open"
    BY <1>6 DEF Connections
  <2>4. \A w \in Writers : link'[w] = "open" <=> \E g \in Fds : owner'[g] = w
    BY <1>1, <1>2, <1>6, <2>1 DEF Connections
  <2>5. \A i \in DOMAIN backlog : link'[backlog[i]] = "queued"
    BY <1>4, <2>1, <2>3 DEF Connections
  <2>6. \A w \in Writers : /\ link'[w] = "queued" => Listening'
                           /\ wpc'[w] = "unborn" => link'[w] = "none"
    BY <2>1, <2>2, <2>3 DEF Connections
  <2> QED
    BY <1>3, <2>2, <2>4, <2>5, <2>6 DEF Connections
<1>7. CASE owner[fd] \notin {"listen"} \cup Writers
  <2>1. link' = link /\ backlog' = backlog /\ Listening' = Listening
    BY <1>7, CloseFdPlain, CloseFdListening
  <2>2. \A w \in Writers : link'[w] = "open" <=> \E g \in Fds : owner'[g] = w
    BY <1>1, <1>2, <1>7, <2>1 DEF Connections
  <2> QED
    BY <1>3, <2>1, <2>2 DEF Connections
<1> QED
  BY <1>5, <1>6, <1>7

\* So do the steps of the child, of the waitpid thread and of the application.
LEMMA ProcessDescriptors ==
  ASSUME TypeOK, Descriptors,
         \/ \E f \in Forks : Fork(f[1], f[2])
         \/ ChildExit
         \/ WaitpidStep
         \/ AppStep
  PROVE  Descriptors'
<1>1. ASSUME NEW f \in Forks, Fork(f[1], f[2]) PROVE Descriptors'
  <2>1. f[1] \in Writers /\ f[2] \in Writers
    BY ServerAssumption
  <2> QED
    BY <1>1, <2>1, SameDescriptors DEF Fork, TypeOK, ProcessTypes
<1>2. CASE ChildExit
  BY <1>2, SameDescriptors DEF ChildExit
<1>3. CASE WaitpidReport
  BY <1>3, SameDescriptors DEF WaitpidReport
<1>4. CASE WaitpidClose
  <2>1. /\ CloseFd(child_pipe_input) /\ wp = "reported" /\ wp' = "ended"
        /\ child_pipe_input \in Fds
        /\ UNCHANGED <<wpc, constVars, selectVars, exitVars, pc, cur>>
    BY <1>4 DEF WaitpidClose, TypeOK, DescriptorTypes
  <2>2. owner[child_pipe_input] = "pipeIn"
    BY <2>1 DEF Descriptors, OwnNumbers
  <2>3. \A g \in Fds : owner'[g] = IF g = child_pipe_input THEN "free" ELSE owner[g]
    BY <2>1, CloseFdOwner
  <2>4. link' = link /\ backlog' = backlog /\ Listening' = Listening
    BY <2>1, <2>2, CloseFdPlain, CloseFdListening, WritersAreNotKinds
  <2>5. server_sock \in Fds /\ child_pipe_output \in Fds
    BY DEF TypeOK, DescriptorTypes
  <2>6. OwnNumbers'
    BY <2>1, <2>2, <2>3, <2>5 DEF Descriptors, OwnNumbers, Looping, Scanning, Reading
  <2>7. ToWatch' = ToWatch
    BY <2>2, <2>3, WritersAreNotKinds DEF ToWatch
  <2>8. ActiveSet'
    BY <2>1, <2>4, <2>7 DEF Descriptors, ActiveSet
  <2>9. \A g \in Fds : owner[g] \in Writers => owner'[g] \in Writers
    BY <2>2, <2>3, WritersAreNotKinds
  <2>10. ScanSets'
    BY <2>1, <2>4, <2>9 DEF Descriptors, ScanSets, Ahead, TypeOK, LoopTypes
  <2>11. Connections'
    BY <2>1, CloseFdConnections DEF Descriptors
  <2> QED
    BY <2>6, <2>8, <2>10, <2>11 DEF Descriptors
<1>5. ASSUME NEW fd \in Fds, AppOpen(fd) \/ AppClose(fd) PROVE Descriptors'
  <2>1. PICK o \in {"free", "app"} :
          /\ owner[fd] \in {"free", "app"}
          /\ owner' = [owner EXCEPT ![fd] = o]
          /\ UNCHANGED <<wp, wpc, connVars, constVars, selectVars, exitVars, pc, cur>>
    BY <1>5 DEF AppOpen, AppClose, FreeFds
  <2>2. \A g \in Fds : owner'[g] = IF g = fd THEN o ELSE owner[g]
    BY <2>1 DEF TypeOK, DescriptorTypes
  <2>3. server_sock \in Fds /\ child_pipe_output \in Fds
    BY DEF TypeOK, DescriptorTypes
  <2>4. OwnNumbers'
    BY <2>1, <2>2, <2>3 DEF Descriptors, OwnNumbers
  <2>5. ToWatch' = ToWatch /\ Listening' = Listening
    BY <2>1, <2>2, WritersAreNotKinds DEF ToWatch, Listening
  <2>6. ActiveSet'
    BY <2>1, <2>5 DEF Descriptors, ActiveSet
  <2>7. \A g \in Fds : owner[g] \in Writers <=> owner'[g] \in Writers
    BY <2>1, <2>2, WritersAreNotKinds
  <2>8. ScanSets'
    BY <2>1, <2>7 DEF Descriptors, ScanSets, Ahead, TypeOK, LoopTypes
  <2>9. \A w \in Writers, g \in Fds : owner'[g] = w <=> owner[g] = w
    BY <2>1, <2>2, WritersAreNotKinds
  <2>10. Connections'
    BY <2>1, <2>5, <2>7, <2>9 DEF Descriptors, Connections
  <2> QED
    BY <2>4, <2>6, <2>8, <2>10 DEF Descriptors
<1>6. CASE AppSpawn \/ AppReap
  BY <1>6, SameDescriptors DEF AppSpawn, AppReap
<1> QED
  BY <1>1, <1>2, <1>3, <1>4, <1>5, <1>6 DEF WaitpidStep, AppStep

\* A step of run_server that only moves on, dropping members of the scan.
LEMMA LoopMoves ==
  ASSUME TypeOK, Descriptors,
         UNCHANGED <<connVars, fdVars, constVars, exitVars, wp, wpc, active_fd_set>>,
         \/ pc \in Looping /\ pc' \in Looping
         \/ pc \in Looping /\ pc' = "shutdown"
         \/ pc = "stragglers" /\ pc' = "done" /\ active_fd_set = {},
         ScanSets'
  PROVE  Descriptors'
<1>1. OwnNumbers'
  BY DEF Descriptors, OwnNumbers, Looping, Scanning, Reading
<1>2. ToWatch' = ToWatch /\ Listening' = Listening
  BY DEF ToWatch, Listening
<1>3. ActiveSet'
  BY <1>2 DEF Descriptors, ActiveSet, Looping, Scanning, Reading
<1>4. Connections'
  BY <1>2 DEF Descriptors, Connections
<1> QED
  BY <1>1, <1>3, <1>4 DEF Descriptors

\* A step of run_server that closes a connection or the pipe and clears its bit.
LEMMA LoopCloses ==
  ASSUME TypeOK, Descriptors, NEW fd \in Fds, CloseFd(fd),
         UNCHANGED <<constVars, wp, wpc>>,
         pc \in Looping, pc' = "scan",
         owner[fd] \in {"pipeOut"} \cup Writers,
         active_fd_set' = active_fd_set \ {fd},
         child_exited' = (child_exited \/ owner[fd] = "pipeOut"),
         fd \notin Ahead',
         read_fd_set' \subseteq read_fd_set, error_fd_set' \subseteq error_fd_set
  PROVE  Descriptors'
<1>1. \A g \in Fds : owner'[g] = IF g = fd THEN "free" ELSE owner[g]
  BY CloseFdOwner
<1>2. owner[fd] # "listen" /\ owner[fd] # "pipeIn" /\ \A w \in Writers : w # "free"
  BY WritersAreNotKinds
<1>3. backlog' = backlog /\ Listening' = Listening
  BY <1>2, CloseFdListening
<1>4. server_sock \in Fds /\ child_pipe_output \in Fds /\ child_exited \in BOOLEAN
  BY DEF TypeOK, DescriptorTypes, LoopTypes
<1>5. /\ owner[server_sock] = "listen"
      /\ owner[child_pipe_output] = "pipeOut" <=> ~child_exited
  BY DEF Descriptors, OwnNumbers
<1>6. fd # server_sock /\ (owner[fd] = "pipeOut" => fd = child_pipe_output)
  BY <1>2, <1>5 DEF Descriptors, OwnNumbers
<1>7. owner'[child_pipe_output] = "pipeOut" <=> ~child_exited'
  BY <1>1, <1>4, <1>5, <1>6
<1>8. OwnNumbers'
  BY <1>1, <1>2, <1>4, <1>5, <1>6, <1>7 DEF Descriptors, OwnNumbers
<1>9. ToWatch' = ToWatch \ {fd}
  BY <1>1, <1>2 DEF ToWatch
<1>10. ActiveSet'
  BY <1>9 DEF Descriptors, ActiveSet, Looping, Scanning
<1>11. ScanSets'
  <2>1. Ahead' \subseteq active_fd_set'
    BY DEF Descriptors, ScanSets, Ahead
  <2>2. \A g \in error_fd_set' : owner'[g] \in Writers
    BY <1>1 DEF Descriptors, ScanSets, Ahead, TypeOK, LoopTypes
  <2>3. child_exited' => child_pipe_output' \notin Ahead'
    BY <1>6 DEF Descriptors, ScanSets, Ahead
  <2> QED
    BY <1>3, <2>1, <2>2, <2>3 DEF Descriptors, ScanSets, Scanning, Reading
<1>12. Connections'
  BY CloseFdConnections DEF Descriptors
<1> QED
  BY <1>8, <1>10, <1>11, <1>12 DEF Descriptors

\* accept_connection() moves the head of the queue to a free number and watches it.
LEMMA AcceptDescriptors ==
  ASSUME TypeOK, Descriptors, NEW fd \in Fds, Accept(fd)
  PROVE  Descriptors'
<1>1. PICK new \in FreeFds : /\ AcceptAs(new)
                             /\ active_fd_set' = active_fd_set \cup {new}
  BY DEF Accept
<1>2. backlog # <<>> /\ backlog \in Seq(Writers) /\ pc = "scan" /\ pc' = "scan"
  BY DEF Accept, Visit, Ahead, Descriptors, ScanSets, TypeOK, DescriptorTypes
<1> DEFINE c == Head(backlog)
<1>3. /\ c \in Writers /\ backlog' \in Seq(Writers) /\ backlog' = Tail(backlog)
      /\ 1 \in DOMAIN backlog /\ c = backlog[1]
      /\ \A i \in DOMAIN backlog' : /\ backlog'[i] = backlog[i + 1]
                                    /\ i + 1 \in DOMAIN backlog
                                    /\ i + 1 # 1
                                    /\ i \in Nat
  BY <1>1, <1>2 DEF AcceptAs
<1>4. new \in Fds /\ owner[new] = "free" /\ link[c] = "queued"
  BY <1>3 DEF FreeFds, Descriptors, Connections
<1> HIDE DEF c
<1>5. /\ \A g \in Fds : owner'[g] = IF g = new THEN c ELSE owner[g]
      /\ \A w \in Writers : link'[w] = IF w = c THEN "open" ELSE link[w]
  BY <1>1, <1>3, <1>4 DEF AcceptAs, TypeOK, DescriptorTypes, c
<1>6. server_sock \in Fds /\ child_pipe_output \in Fds
      /\ UNCHANGED <<constVars, wp, wpc, exitVars, cur>>
  BY DEF Accept, TypeOK, DescriptorTypes
<1>7. OwnNumbers'
  BY <1>2, <1>3, <1>4, <1>5, <1>6, WritersAreNotKinds
     DEF Descriptors, OwnNumbers, Looping, Scanning
<1>8. ToWatch' = ToWatch \cup {new}
  BY <1>3, <1>4, <1>5 DEF ToWatch
<1>9. ActiveSet'
  BY <1>1, <1>2, <1>8 DEF Descriptors, ActiveSet, Looping, Scanning
<1>10. /\ Ahead' \subseteq Ahead
       /\ server_sock \notin read_fd_set'
       /\ error_fd_set' \subseteq error_fd_set
  BY DEF Accept, Visit, Ahead
<1>11. \A g \in Fds : owner[g] \in Writers => owner'[g] = owner[g]
  BY <1>4, <1>5, WritersAreNotKinds
<1>12. ScanSets'
  <2>1. Ahead' \subseteq active_fd_set'
    BY <1>1, <1>10 DEF Descriptors, ScanSets
  <2>2. \A g \in error_fd_set' : owner'[g] \in Writers
    BY <1>10, <1>11 DEF Descriptors, ScanSets, TypeOK, LoopTypes
  <2>3. child_exited' => child_pipe_output' \notin Ahead'
    BY <1>6, <1>10 DEF Descriptors, ScanSets
  <2> QED
    BY <1>2, <1>6, <1>10, <2>1, <2>2, <2>3 DEF ScanSets, Scanning, Reading
<1>13. \A w \in Writers : link'[w] = "open" <=> \E g \in Fds : owner'[g] = w
  BY <1>3, <1>4, <1>5, WritersAreNotKinds DEF Descriptors, Connections
<1>14. \A f, g \in Fds : owner'[f] = owner'[g] /\ owner'[f] \in Writers => f = g
  BY <1>3, <1>4, <1>5 DEF Descriptors, Connections
<1>15. \A i \in DOMAIN backlog : backlog[i] = c => i = 1
  BY <1>3 DEF Descriptors, Connections
<1>16. /\ \A i \in DOMAIN backlog' : link'[backlog'[i]] = "queued"
       /\ \A i, j \in DOMAIN backlog' : backlog'[i] = backlog'[j] => i = j
  <2>1. \A i \in DOMAIN backlog' : backlog'[i] \in Writers /\ backlog'[i] # c
    BY <1>3, <1>15
  <2>2. \A i \in DOMAIN backlog' : link'[backlog'[i]] = "queued"
    BY <1>3, <1>5, <2>1 DEF Descriptors, Connections
  <2>3. \A i, j \in DOMAIN backlog' : backlog'[i] = backlog'[j] => i = j
    <3> SUFFICES ASSUME NEW i \in DOMAIN backlog', NEW j \in DOMAIN backlog',
                        backlog'[i] = backlog'[j]
                 PROVE  i = j
      OBVIOUS
    <3>1. i + 1 = j + 1
      BY <1>3 DEF Descriptors, Connections
    <3> QED
      BY <1>3, <3>1
  <2> QED
    BY <2>2, <2>3
<1>17. Listening => Listening'
  BY <1>4, <1>5 DEF Listening
<1>18. Connections'
  BY <1>4, <1>5, <1>6, <1>13, <1>14, <1>16, <1>17 DEF Descriptors, Connections
<1> QED
  BY <1>7, <1>9, <1>12, <1>18 DEF Descriptors

\* The end of run_server: the listener, then whatever is still in active_fd_set.
LEMMA EndDescriptors ==
  ASSUME TypeOK, Descriptors, CloseListener \/ \E fd \in Fds : CloseStraggler(fd)
  PROVE  Descriptors'
<1>1. server_sock \in Fds
  BY DEF TypeOK, DescriptorTypes
<1>2. CASE CloseListener
  <2>1. /\ CloseFd(server_sock) /\ pc = "shutdown" /\ pc' = "stragglers"
        /\ UNCHANGED <<wp, wpc, constVars, selectVars, exitVars, cur>>
    BY <1>2 DEF CloseListener
  <2>2. \A g \in Fds : owner'[g] = IF g = server_sock THEN "free" ELSE owner[g]
    BY <1>1, <2>1, CloseFdOwner
  <2>3. OwnNumbers'
    BY <1>1, <2>1, <2>2 DEF Descriptors, OwnNumbers, Looping, Scanning, Reading
  <2>4. ToWatch' = ToWatch \ {server_sock} /\ server_sock \in ToWatch
    BY <1>1, <2>1, <2>2, WritersAreNotKinds DEF ToWatch, Descriptors, OwnNumbers
  <2>5. ~Listening'
    BY <2>2 DEF Listening, Descriptors, OwnNumbers
  <2>6. ActiveSet'
    BY <2>1, <2>4, <2>5 DEF Descriptors, ActiveSet, Looping, Scanning, Reading
  <2>7. ScanSets'
    BY <2>1 DEF Descriptors, ScanSets, Ahead, Scanning, Reading
  <2>8. Connections'
    BY <1>1, <2>1, CloseFdConnections DEF Descriptors
  <2> QED
    BY <2>3, <2>6, <2>7, <2>8 DEF Descriptors
<1>3. ASSUME NEW fd \in Fds, CloseStraggler(fd) PROVE Descriptors'
  <2>1. /\ CloseFd(fd) /\ pc = "stragglers" /\ pc' = pc /\ fd \in active_fd_set
        /\ active_fd_set' = active_fd_set \ {fd}
        /\ UNCHANGED <<wp, wpc, constVars, read_fd_set, error_fd_set, exitVars, cur>>
    BY <1>3 DEF CloseStraggler
  <2>2. \A g \in Fds : owner'[g] = IF g = fd THEN "free" ELSE owner[g]
    BY <2>1, CloseFdOwner
  <2>3. owner[fd] # "pipeIn"
    BY <2>1, WritersAreNotKinds DEF Descriptors, OwnNumbers, ActiveSet, ToWatch
  <2>4. OwnNumbers'
    BY <1>1, <2>1, <2>2, <2>3 DEF Descriptors, OwnNumbers, Looping, Scanning, Reading
  <2>5. ToWatch' = ToWatch \ {fd}
    BY <2>2, WritersAreNotKinds DEF ToWatch
  <2>6. ~Listening'
    BY <2>1, <2>2 DEF Listening, Descriptors, ActiveSet
  <2>7. ActiveSet'
    BY <2>1, <2>5, <2>6 DEF Descriptors, ActiveSet, Looping, Scanning, Reading
  <2>8. ScanSets'
    BY <2>1 DEF Descriptors, ScanSets, Ahead, Scanning, Reading
  <2>9. Connections'
    BY <2>1, CloseFdConnections DEF Descriptors
  <2> QED
    BY <2>4, <2>7, <2>8, <2>9 DEF Descriptors
<1> QED
  BY <1>2, <1>3

\* Whichever way handle_message() returns, the descriptors stay in order.
LEMMA MessageDescriptors ==
  ASSUME TypeOK, Descriptors, pc \in Reading,
         UNCHANGED <<wp, wpc, constVars, read_fd_set, error_fd_set, exitVars>>,
         \/ EndConnection
         \/ NextFd
         \/ NextField("evtype")
         \/ NextField("body")
  PROVE  Descriptors'
<1>1. /\ cur \in Fds /\ owner[cur] \in Writers /\ cur \notin Ahead
      /\ Ahead' = Ahead
      /\ pc \in Looping
  BY DEF Descriptors, ScanSets, Ahead, Looping, Scanning
<1>2. CASE EndConnection
  <2>1. /\ CloseFd(cur) /\ pc' = "scan" /\ active_fd_set' = active_fd_set \ {cur}
    BY <1>2 DEF EndConnection
  <2>2. child_exited' = (child_exited \/ owner[cur] = "pipeOut")
    BY <1>1, WritersAreNotKinds DEF TypeOK, LoopTypes
  <2> QED
    BY <1>1, <2>1, <2>2, LoopCloses
<1>3. CASE NextFd
  <2>1. ScanSets'
    BY <1>1, <1>3 DEF NextFd, Descriptors, ScanSets, Scanning, Reading
  <2> QED
    BY <1>1, <1>3, <2>1, LoopMoves DEF NextFd, Looping, Scanning
<1>4. CASE NextField("evtype") \/ NextField("body")
  <2>1. ScanSets'
    BY <1>1, <1>4 DEF NextField, Descriptors, ScanSets, Scanning, Reading
  <2>2. pc' \in Looping
    BY <1>4 DEF NextField, Looping, Scanning, Reading
  <2> QED
    BY <1>1, <1>4, <2>1, <2>2, LoopMoves DEF NextField
<1> QED
  BY <1>2, <1>3, <1>4

\* The steps of run_server leave the descriptors in order.
LEMMA ServerDescriptors ==
  ASSUME TypeOK, Descriptors, ServerStep
  PROVE  Descriptors'
<1>1. CASE Select
  <2>1. ScanSets'
    <3>1. Ahead' \subseteq active_fd_set' /\ \A g \in error_fd_set' : owner'[g] \in Writers
      BY <1>1 DEF Select, Ahead, Exceptional
    <3>2. server_sock' \in read_fd_set' => backlog' # <<>>
      BY <1>1, WritersAreNotKinds
         DEF Select, Readable, Descriptors, OwnNumbers, Looping
    <3>3. ~child_exited
      BY <1>1 DEF Select, Descriptors, ScanSets
    <3> QED
      BY <1>1, <3>1, <3>2, <3>3 DEF Select, ScanSets, Scanning, Reading
  <2> QED
    BY <1>1, <2>1, LoopMoves DEF Select, Looping, Scanning
<1>2. CASE SelectFails
  <2>1. ScanSets'
    BY <1>2 DEF SelectFails, Descriptors, ScanSets, Ahead, Scanning, Reading
  <2> QED
    BY <1>2, <2>1, LoopMoves DEF SelectFails, Looping
<1>3. CASE EndScan
  <2>1. ScanSets'
    BY <1>3 DEF EndScan, Descriptors, ScanSets, Ahead, Scanning, Reading
  <2> QED
    BY <1>3, <2>1, LoopMoves DEF EndScan, Looping, Scanning
<1>4. CASE Return
  <2>1. ScanSets'
    BY <1>4 DEF Return, Descriptors, ScanSets, Ahead, Scanning, Reading
  <2> QED
    BY <1>4, <2>1, LoopMoves DEF Return
<1>5. ASSUME NEW fd \in Fds, Visit(fd)
      PROVE  /\ pc = "scan" /\ pc \in Looping /\ fd \in Ahead /\ fd \notin Ahead'
             /\ Ahead' \subseteq Ahead
             /\ read_fd_set' \subseteq read_fd_set /\ error_fd_set' \subseteq error_fd_set
  BY <1>5 DEF Visit, Ahead, Looping, Scanning
<1>6. ASSUME NEW fd \in Fds, DropErrored(fd) PROVE Descriptors'
  <2>1. owner[fd] \in Writers /\ owner[fd] # "pipeOut"
    BY <1>6, WritersAreNotKinds DEF DropErrored, Descriptors, ScanSets
  <2>2. child_exited' = (child_exited \/ owner[fd] = "pipeOut")
    BY <1>6, <2>1 DEF DropErrored, TypeOK, LoopTypes
  <2>3. Visit(fd)
    BY <1>6 DEF DropErrored
  <2> QED
    BY <1>5, <1>6, <2>1, <2>2, <2>3, LoopCloses DEF DropErrored
<1>7. ASSUME NEW fd \in Fds, Accept(fd) PROVE Descriptors'
  BY <1>7, AcceptDescriptors
<1>8. ASSUME NEW fd \in Fds, AcceptFails(fd) PROVE Descriptors'
  <2>1. ScanSets'
    BY <1>5, <1>8
       DEF AcceptFails, Descriptors, ScanSets, Scanning, Reading
  <2> QED
    BY <1>5, <1>8, <2>1, LoopMoves DEF AcceptFails, Looping, Scanning
<1>9. ASSUME NEW fd \in Fds, ChildPipe(fd) PROVE Descriptors'
  <2>1. Visit(fd) /\ fd = child_pipe_output /\ fd # server_sock
    BY <1>9 DEF ChildPipe
  <2>2. owner[fd] = "pipeOut"
    BY <1>5, <2>1 DEF Descriptors, OwnNumbers, ScanSets
  <2> QED
    BY <1>5, <1>9, <2>1, <2>2, LoopCloses DEF ChildPipe
<1>10. ASSUME NEW fd \in Fds, StartMessage(fd) PROVE Descriptors'
  <2>1. /\ Visit(fd) /\ pc' = "msgtype" /\ cur' = fd /\ fd # server_sock
        /\ fd # child_pipe_output
        /\ UNCHANGED <<connVars, fdVars, constVars, exitVars, wp, wpc, active_fd_set>>
    BY <1>10 DEF StartMessage
  <2>2. owner[fd] \in Writers
    BY <1>5, <2>1 DEF Descriptors, ScanSets, ActiveSet, ToWatch, OwnNumbers
  <2>3. ScanSets'
    BY <1>5, <2>1, <2>2 DEF Descriptors, ScanSets, Scanning, Reading
  <2> QED
    BY <1>5, <2>1, <2>3, LoopMoves DEF Looping, Scanning, Reading
<1>11. CASE ReadMsgType \/ ReadEventType \/ HandleEvent
  BY <1>11, MessageDescriptors DEF ReadMsgType, ReadEventType, HandleEvent, Reading
<1>12. CASE CloseListener \/ \E fd \in Fds : CloseStraggler(fd)
  BY <1>12, EndDescriptors
<1> QED
  BY <1>1, <1>2, <1>3, <1>4, <1>6, <1>7, <1>8, <1>9, <1>10, <1>11, <1>12
     DEF ServerStep, ScanStep

\* The types and the order of the descriptors are an inductive invariant: every
\* step of every thread and process keeps both.
THEOREM DescriptorsInOrder == Spec => []DescriptorInv
<1> USE DEF DescriptorInv
<1>1. Init => DescriptorInv
  BY InitTypeOK, InitDescriptors
<1>2. DescriptorInv /\ [Next]_vars => DescriptorInv'
  <2> SUFFICES ASSUME DescriptorInv, [Next]_vars PROVE DescriptorInv'
    OBVIOUS
  <2>1. ASSUME NEW w \in Writers, WriterStep(w) PROVE DescriptorInv'
    BY <2>1, WriterTypeOK, WriterDescriptors
  <2>2. CASE \/ \E f \in Forks : Fork(f[1], f[2])
             \/ ChildExit
             \/ WaitpidStep
             \/ AppStep
    BY <2>2, ProcessTypeOK, ProcessDescriptors
  <2>3. CASE ServerStep
    BY <2>3, ServerTypeOK, ServerDescriptors DEF Descriptors
  <2>4. CASE UNCHANGED vars
    <3>1. TypeOK'
      BY <2>4 DEF vars, TypeOK, ProcessTypes, WireTypes, DescriptorTypes, LoopTypes
    <3>2. Descriptors'
      BY <2>4, SameDescriptors DEF vars
    <3> QED
      BY <3>1, <3>2
  <2> QED
    BY <2>1, <2>2, <2>3, <2>4 DEF Next, Returned
<1> QED
  BY <1>1, <1>2, PTL DEF Spec

\* Every variable keeps its type.
THEOREM TypeCorrect == Spec => []TypeOK
<1>1. DescriptorInv => TypeOK
  BY DEF DescriptorInv
<1> QED
  BY <1>1, DescriptorsInOrder, PTL

\* While the loop runs it waits for exactly what it should.
THEOREM WatchesWhatItOwns == Spec => []Watched
<1>1. DescriptorInv => Watched
  <2> SUFFICES ASSUME DescriptorInv PROVE Watched
    OBVIOUS
  <2>1. ASSUME pc \in Looping
        PROVE  /\ active_fd_set = ToWatch
               /\ owner[server_sock] = "listen"
               /\ owner[child_pipe_output] = "pipeOut" <=> ~child_exited
    BY <2>1 DEF DescriptorInv, Descriptors, OwnNumbers, ActiveSet
  <2>2. Ahead \subseteq active_fd_set
    BY DEF DescriptorInv, Descriptors, ScanSets
  <2>3. ASSUME pc \in Reading PROVE cur \in ToWatch
    BY <2>3 DEF DescriptorInv, Descriptors, ScanSets, ToWatch
  <2>4. {"select", "scan"} \cup Reading = Looping
    BY DEF Looping, Scanning
  <2>5. Reading \subseteq Looping
    BY DEF Looping, Scanning
  <2>6. /\ \A f, g \in Fds : owner[f] = owner[g] /\ owner[f] \in Writers => f = g
        /\ \A c \in Writers : link[c] = "open" <=> \E fd \in Fds : owner[fd] = c
    BY DEF DescriptorInv, Descriptors, Connections
  <2> QED
    BY <2>1, <2>2, <2>3, <2>4, <2>5, <2>6 DEF Watched, ToWatch
<1> QED
  BY <1>1, DescriptorsInOrder, PTL

\* voyeur_start() returns with everything it opened closed.
THEOREM LeavesNothingOpen == Spec => []NoLeak
<1>1. DescriptorInv => NoLeak
  <2> SUFFICES ASSUME DescriptorInv, pc = "done"
               PROVE  /\ \A fd \in Fds : \/ owner[fd] \in {"free", "app"}
                                         \/ owner[fd] = "pipeIn" /\ wp # "ended"
                      /\ \A c \in Writers : ~Connected(c)
    BY DEF NoLeak
  <2>1. ToWatch = {} /\ ~Listening
    BY DEF DescriptorInv, Descriptors, ActiveSet
  <2>2. \A fd \in Fds : owner[fd] = "pipeIn" => wp # "ended"
    BY DEF DescriptorInv, Descriptors, OwnNumbers
  <2>3. \A fd \in Fds : owner[fd] \in FdKinds \cup Writers
    BY DEF DescriptorInv, TypeOK, DescriptorTypes
  <2>4. \A fd \in Fds : \/ owner[fd] \in {"free", "app"}
                        \/ owner[fd] = "pipeIn" /\ wp # "ended"
    BY <2>1, <2>2, <2>3 DEF ToWatch, FdKinds
  <2>5. \A c \in Writers : link[c] # "open"
    BY <2>1, ZenonT(40) DEF ToWatch, DescriptorInv, Descriptors, Connections
  <2>6. \A c \in Writers : link[c] # "queued"
    BY <2>1 DEF DescriptorInv, Descriptors, Connections
  <2> QED
    BY <2>4, <2>5, <2>6 DEF Connected
<1> QED
  BY <1>1, DescriptorsInOrder, PTL

\* The only descriptor of another thread that the library can close is one that
\* was given the listener's number between the two times it is closed.
THEOREM ClosesOneForeignDescriptor == Spec => []ForeignOnlyListener
<1>1. Init => ForeignOnlyListener
  BY DEF Init, ForeignOnlyListener
<1>2. DescriptorInv /\ ForeignOnlyListener /\ [Next]_vars => ForeignOnlyListener'
  <2> SUFFICES ASSUME DescriptorInv, foreign \subseteq {server_sock}, [Next]_vars
               PROVE  foreign' \subseteq {server_sock'}
    BY DEF ForeignOnlyListener
  <2> USE DEF DescriptorInv
  <2>1. ASSUME NEW fd \in Fds, CloseFd(fd), owner[fd] # "app" \/ fd = server_sock,
               UNCHANGED constVars
        PROVE  foreign' \subseteq {server_sock'}
    BY <2>1 DEF CloseFd
  <2>2. ASSUME NEW w \in Writers, WriterStep(w) PROVE UNCHANGED <<foreign, server_sock>>
    BY <2>2 DEF WriterStep, Connect, ConnectFails, WriteMsgType, WriteEventType,
                WriteBody, WriteDone, WriteField, Die
  <2>3. CASE (\E f \in Forks : Fork(f[1], f[2])) \/ ChildExit \/ AppStep
    BY <2>3 DEF Fork, ChildExit, AppStep, AppOpen, AppClose, AppSpawn, AppReap
  <2>4. CASE WaitpidStep
    <3>1. CASE WaitpidReport
      BY <3>1 DEF WaitpidReport
    <3>2. CASE WaitpidClose
      <4>1. child_pipe_input \in Fds /\ owner[child_pipe_input] = "pipeIn"
        BY <3>2 DEF WaitpidClose, Descriptors, OwnNumbers, TypeOK, DescriptorTypes
      <4> QED
        BY <2>1, <3>2, <4>1 DEF WaitpidClose
    <3> QED
      BY <2>4, <3>1, <3>2 DEF WaitpidStep
  <2>5. CASE Select \/ SelectFails \/ EndScan \/ Return
    BY <2>5 DEF Select, SelectFails, EndScan, Return
  <2>6. ASSUME NEW fd \in Fds, ScanStep(fd) PROVE foreign' \subseteq {server_sock'}
    <3>1. fd \in active_fd_set => owner[fd] # "app" \/ fd = server_sock
      <4>1. CASE pc \in Looping \cup {"shutdown", "stragglers", "done"}
        BY <4>1, WritersAreNotKinds DEF Descriptors, ActiveSet, ToWatch
      <4> QED
        BY <4>1 DEF TypeOK, LoopTypes, Looping, Scanning, Reading
    <3>2. Visit(fd) => fd \in active_fd_set
      BY DEF Visit, Descriptors, ScanSets
    <3>3. CASE DropErrored(fd) \/ ChildPipe(fd) \/ CloseStraggler(fd)
      BY <2>1, <3>1, <3>2, <3>3 DEF DropErrored, ChildPipe, CloseStraggler
    <3>4. CASE Accept(fd) \/ AcceptFails(fd) \/ StartMessage(fd)
      BY <3>4 DEF Accept, AcceptAs, AcceptFails, StartMessage
    <3> QED
      BY <2>6, <3>3, <3>4 DEF ScanStep
  <2>7. CASE ReadMsgType \/ ReadEventType \/ HandleEvent
    <3>1. cur \in Fds /\ owner[cur] # "app" /\ UNCHANGED constVars
      BY <2>7, WritersAreNotKinds
         DEF ReadMsgType, ReadEventType, HandleEvent, Descriptors, ScanSets, Reading
    <3>2. CASE EndConnection
      BY <2>1, <3>1, <3>2 DEF EndConnection
    <3>3. CASE UNCHANGED foreign
      BY <3>1, <3>3
    <3> QED
      BY <2>7, <3>2, <3>3 DEF ReadMsgType, ReadEventType, HandleEvent, NextFd, NextField
  <2>8. CASE CloseListener
    BY <2>1, <2>8 DEF CloseListener, TypeOK, DescriptorTypes
  <2>9. CASE UNCHANGED vars
    BY <2>9 DEF vars
  <2> QED
    BY <2>2, <2>3, <2>4, <2>5, <2>6, <2>7, <2>8, <2>9 DEF Next, ServerStep, Returned
<1> QED
  BY <1>1, <1>2, DescriptorsInOrder, PTL DEF Spec

-----------------------------------------------------------------------------
(* When voyeur_start() returns. *)

\* What every step but those of the child, of waitpid_thread and of the scan
\* leaves alone keeps the order in which they end.
LEMMA SameExitOrder ==
  ASSUME ExitOrder, UNCHANGED <<child, wp, pipe, child_pipe_output, child_exited>>,
         read_fd_set' \subseteq read_fd_set,
         pc' \notin Looping => pc \notin Looping
  PROVE  ExitOrder'
  BY DEF ExitOrder

\* Every step keeps it.
LEMMA ExitOrderKept ==
  ASSUME TypeOK, Descriptors, ExitOrder, [Next]_vars
  PROVE  ExitOrder'
<1>1. ASSUME NEW w \in Writers, WriterStep(w) PROVE ExitOrder'
  BY <1>1, SameExitOrder
     DEF WriterStep, Connect, ConnectFails, WriteMsgType, WriteEventType,
         WriteBody, WriteDone, WriteField, Die
<1>2. CASE (\E f \in Forks : Fork(f[1], f[2])) \/ AppStep
  BY <1>2, SameExitOrder DEF Fork, AppStep, AppOpen, AppClose, AppSpawn, AppReap
<1>3. CASE ChildExit
  BY <1>3 DEF ChildExit, ExitOrder
<1>4. CASE WaitpidReport
  BY <1>4 DEF WaitpidReport, DoWrite, ExitOrder
<1>5. CASE WaitpidClose
  BY <1>5 DEF WaitpidClose, ExitOrder
<1>6. CASE Select
  <2>1. owner[child_pipe_output] = "pipeOut"
    BY <1>6 DEF Select, Descriptors, OwnNumbers, ScanSets, Looping
  <2>2. child_pipe_output \in read_fd_set' => wp = "ended"
    BY <1>6, <2>1, WritersAreNotKinds DEF Select, Readable, ExitOrder
  <2> QED
    BY <1>6, <2>2 DEF Select, ExitOrder, Looping, Scanning
<1>7. CASE SelectFails \/ EndScan
  BY <1>7 DEF SelectFails, EndScan, ExitOrder, Looping, Scanning
<1>8. CASE CloseListener \/ Return \/ \E fd \in Fds : CloseStraggler(fd)
  <2>1. pc \notin Looping
    BY <1>8 DEF CloseListener, Return, CloseStraggler, Looping, Scanning, Reading
  <2> QED
    BY <1>8, <2>1, SameExitOrder DEF CloseListener, Return, CloseStraggler
<1>9. ASSUME NEW fd \in Fds,
             DropErrored(fd) \/ Accept(fd) \/ AcceptFails(fd) \/ StartMessage(fd)
      PROVE  ExitOrder'
  <2>1. read_fd_set' \subseteq read_fd_set /\ pc' \in Looping
    BY <1>9 DEF DropErrored, Accept, AcceptFails, StartMessage, Visit,
                Looping, Scanning, Reading
  <2> QED
    BY <1>9, <2>1, SameExitOrder DEF DropErrored, Accept, AcceptFails, StartMessage
<1>10. ASSUME NEW fd \in Fds, ChildPipe(fd) PROVE ExitOrder'
  <2>1. child_pipe_output \in read_fd_set
    BY <1>10, WritersAreNotKinds
       DEF ChildPipe, Visit, Ahead, Descriptors, OwnNumbers, ScanSets, Looping, Scanning
  <2>2. pc' \in Looping /\ read_fd_set' \subseteq read_fd_set
    BY <1>10 DEF ChildPipe, Visit, Looping, Scanning
  <2> QED
    BY <1>10, <2>1, <2>2 DEF ChildPipe, ExitOrder
<1>11. CASE ReadMsgType \/ ReadEventType \/ HandleEvent
  <2>1. pc' \in Looping
    BY <1>11 DEF ReadMsgType, ReadEventType, HandleEvent, EndConnection, NextFd,
                 NextField, Looping, Scanning, Reading
  <2> QED
    BY <1>11, <2>1, SameExitOrder DEF ReadMsgType, ReadEventType, HandleEvent
<1>12. CASE UNCHANGED vars
  BY <1>12, SameExitOrder DEF vars
<1> QED
  BY <1>1, <1>2, <1>3, <1>4, <1>5, <1>6, <1>7, <1>8, <1>9, <1>10, <1>11, <1>12
     DEF Next, WaitpidStep, ServerStep, ScanStep, Returned

\* Unless select() fails or a signal interrupts waitpid(), voyeur_start() returns
\* only after the child has ended.
THEOREM ReturnsAfterChild ==
  ASSUME ~KernelErrors, ~Signals
  PROVE  Spec => []ReturnsAfterExit
<1>1. Init => ExitOrder
  BY DEF Init, ExitOrder, Looping
<1>2. DescriptorInv /\ ExitOrder /\ [Next]_vars => ExitOrder'
  BY ExitOrderKept DEF DescriptorInv
<1>3. ExitOrder => ReturnsAfterExit
  <2>1. ASSUME pc \in {"shutdown", "stragglers", "done"} PROVE pc \notin Looping
    BY <2>1 DEF Looping, Scanning, Reading
  <2> QED
    BY <2>1 DEF ExitOrder, ReturnsAfterExit
<1> QED
  BY <1>1, <1>2, <1>3, DescriptorsInOrder, PTL DEF Spec

=============================================================================
