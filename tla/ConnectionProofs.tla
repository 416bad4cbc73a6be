-------------------------- MODULE ConnectionProofs --------------------------
(***************************************************************************)
(* Proofs about what the processes of Interposer send on their             *)
(* connections, for any number of processes, threads and calls.            *)
(***************************************************************************)
EXTENDS InterposerProofs, SequenceTheorems

USE DEF processVars

-----------------------------------------------------------------------------
(* What each step does to the calls of a stack. *)

\* In place of call c thread t is inside of the calls D.
Replaces(t, c, D, r) ==
    /\ CallsIn(stack[t]) = {c} \cup CallsIn(r)
    /\ CallsIn(stack'[t]) = D \cup CallsIn(r)
    /\ \A u \in Threads \ {t} : stack'[u] = stack[u]

\* No call has the mutex of the library that an inner one has.
LEMMA OtherMutex ==
  ASSUME CallInv, NEW t \in Threads, stack[t] # <<>>,
         NEW c, c = Top(t), NEW r, r = Tail(stack[t]), NEW b \in CallsIn(r), Owns(b), Owns(c)
  PROVE  b.hook # c.hook
<1>1. c.hook \notin Owned(r)
  <2>1. Owned(r) = Owned(stack[t]) \ {c.hook}
    BY OnceOwned
  <2> QED
    BY <2>1
<1>2. b.hook \in Owned(r)
  BY DEF Owned
<1> QED
  BY <1>1, <1>2

\* What a call may be inside of, and what it has the mutex of meanwhile.
LEMMA RestOf ==
  ASSUME CallInv, NEW t \in Threads, stack[t] # <<>>,
         NEW c, c = Top(t), NEW r, r = Tail(stack[t]), NEW b \in CallsIn(r)
  PROVE  /\ b.op \in {"exit", "exec", "cleanup"} /\ b \in CallsIn(stack[t])
         /\ Owns(b) => /\ b.op = "cleanup" /\ b.at = "reset" /\ b.hook \in Hooks
                       /\ Owns(c) => b.hook # c.hook
<1>1. stack[t] \in Seq(Calls) /\ Shape(stack[t]) /\ TypeOK /\ StackInv
  BY DEF CallInv, TypeOK, StackInv
<1>2. PICK s \in Seq(Calls) : s = stack[t]
  BY <1>1
<1>3. s # <<>> /\ Shape(s) /\ c = Head(s) /\ r = Tail(s)
  BY <1>1, <1>2 DEF Top
<1>4. Under(c, r)
  BY <1>3, Beneath
<1>5. /\ Shape(r) /\ r \in Seq(Calls)
      /\ CallsIn(stack[t]) = {c} \cup CallsIn(r)
  BY <1>1, TopOf
<1>6. Form(b)
  BY <1>5 DEF Shape, CallsIn
<1>7. b.op \in {"exit", "exec"} \/ (b.op = "cleanup" /\ b.at = "reset")
  BY <1>4 DEF Under, CallsIn
<1>8. Owns(b) => /\ b.op = "cleanup" /\ b.at = "reset" /\ b.hook \in Hooks
  BY <1>6, <1>7 DEF Owns, Form
<1>9. Owns(b) /\ Owns(c) => b.hook # c.hook
  BY OtherMutex
<1> QED
  BY <1>5, <1>7, <1>8, <1>9

LEMMA TopCalls ==
  ASSUME CallInv, NEW t \in Threads, stack[t] # <<>>,
         NEW c, c = Top(t), NEW r, r = Tail(stack[t])
  PROVE  /\ CallsIn(stack[t]) = {c} \cup CallsIn(r) /\ c \in CallsIn(stack[t])
         /\ c \in Calls /\ Form(c) /\ r \in Seq(Calls) /\ Home[t] \in Procs
         /\ stack \in [Threads -> Seq(Calls)]
<1>1. TypeOK /\ StackInv
  BY DEF CallInv
<1>2. CallsIn(stack[t]) = {c} \cup CallsIn(r)
  BY <1>1, TopOf
<1>3. c \in Calls /\ Form(c) /\ r \in Seq(Calls) /\ Home[t] \in Procs
  BY <1>1, TopOf
<1> QED
  BY <1>1, <1>2, <1>3 DEF TypeOK

LEMMA GotoCalls ==
  ASSUME CallInv, NEW t \in Threads, stack[t] # <<>>, NEW at \in Labels, Goto(t, at),
         NEW c, c = Top(t), NEW r, r = Tail(stack[t]), NEW d, d = Placed(c, at)
  PROVE  Replaces(t, c, {d}, r)
<1>1. /\ CallsIn(stack[t]) = {c} \cup CallsIn(r) /\ c \in Calls /\ r \in Seq(Calls)
      /\ stack \in [Threads -> Seq(Calls)]
  BY TopCalls
<1>2. d \in Calls
  BY <1>1 DEF Calls, Placed
<1>3. PICK n : n = <<d>> \o r
  OBVIOUS
<1>4. CallsIn(n) = {d} \cup CallsIn(r)
  BY <1>1, <1>2, <1>3, CallsOf
<1>5. Moved(t, at) = n
  BY <1>1, <1>3, MovedPlaces
<1>6. stack' = [stack EXCEPT ![t] = n]
  BY <1>5 DEF Goto
<1> QED
  BY <1>1, <1>4, <1>6 DEF Replaces

LEMMA PlacedCall ==
  ASSUME NEW c, NEW at, NEW d, d = Placed(c, at)
  PROVE  d.op = c.op /\ d.hook = c.hook /\ d.at = at /\ d.ev = c.ev /\ d.conn = c.conn
BY DEF Placed

LEMMA ReturnCalls ==
  ASSUME CallInv, NEW t \in Threads, stack[t] # <<>>, Return(t),
         NEW c, c = Top(t), NEW r, r = Tail(stack[t])
  PROVE  Replaces(t, c, {}, r)
<1>1. /\ CallsIn(stack[t]) = {c} \cup CallsIn(r) /\ c \in Calls /\ r \in Seq(Calls)
      /\ stack \in [Threads -> Seq(Calls)]
  BY TopCalls
<1>2. stack' = [stack EXCEPT ![t] = r]
  BY DEF Return
<1> QED
  BY <1>1, <1>2 DEF Replaces

LEMMA EnterCalls ==
  ASSUME CallInv, NEW t \in Threads, NEW d \in Calls, NEW q \in Seq(Calls), Enter(t, d, q)
  PROVE  /\ CallsIn(stack'[t]) = {d} \cup CallsIn(q)
         /\ \A u \in Threads \ {t} : stack'[u] = stack[u]
<1>1. PICK n : n = <<d>> \o q
  OBVIOUS
<1>2. CallsIn(n) = {d} \cup CallsIn(q)
  BY <1>1, CallsOf
<1>3. stack' = [stack EXCEPT ![t] = n] /\ stack \in [Threads -> Seq(Calls)]
  BY <1>1 DEF Enter, CallInv, TypeOK
<1> QED
  BY <1>2, <1>3

-----------------------------------------------------------------------------
(* What is sent. *)

IsReport(c) == c.op = "report" /\ c.conn # NoConn

\* Library l of process p is not the library of another connection.
LEMMA OwnConn ==
  ASSUME CallInv, LibConns, NEW p \in Procs, NEW q \in Procs, NEW h \in Hooks, NEW k \in Hooks,
         lib[p][h].sock = lib[q][k].sock, lib[p][h].sock \in Conns \ shared
  PROVE  p = q /\ h = k
BY DEF LibConns, LibConn

\* What WholeFrames says of one connection.
Framed(w) ==
    \A i \in DOMAIN w :
        CASE w[i].kind = "EVENT" -> i > 1 => w[i - 1].kind = "BODY"
          [] w[i].kind = "TYPE"  -> i > 1 /\ w[i - 1] = Item(w[i].ev, "EVENT")
          [] w[i].kind = "BODY"  -> i > 1 /\ w[i - 1] = Item(w[i].ev, "TYPE")
          [] w[i].kind = "DONE"  -> /\ i > 1 => w[i - 1].kind = "BODY"
                                    /\ i = Len(w)

LEMMA Frames == WholeFrames <=> \A c \in Conns \ shared : Framed(wire[c])
BY Zenon DEF WholeFrames, Framed

LEMMA FramesLater == WholeFrames' <=> \A c \in Conns' \ shared' : Framed(wire'[c])
BY Zenon DEF WholeFrames, Framed

\* A step that sends nothing and makes no connection.
LEMMA SilentStep ==
  ASSUME CallInv, WireInv, NEW t \in Threads, wire' = wire, shared' = shared,
         \A u \in Threads \ {t} : stack'[u] = stack[u],
         \A p \in Procs : \A h \in Hooks :
            \/ lib'[p][h].sock = lib[p][h].sock /\ lib'[p][h].initialized = lib[p][h].initialized
            \/ lib'[p][h].sock = NoConn /\ (lib[p][h].sock \in Conns \ shared => Ended(lib[p][h].sock)),
         \A p \in Procs : \A h \in Hooks :
            lib'[p][h].sock \in Conns \ shared /\ lib'[p][h].mutex = None
              => lib[p][h].mutex = None \/ AtRest(wire[lib'[p][h].sock]),
         \A d \in CallsIn(stack'[t]) :
            Owns(d) /\ d.hook \in Hooks /\ lib'[Home[t]][d.hook].sock \in Conns \ shared
              => Midway(d, wire[lib'[Home[t]][d.hook].sock]),
         \A d \in CallsIn(stack'[t]) : IsReport(d) =>
            /\ Midway(d, wire[d.conn])
            /\ \E c \in CallsIn(stack[t]) :
                 IsReport(c) /\ c.conn = d.conn /\ c.hook = d.hook,
         \A c \in CallsIn(stack[t]) : IsReport(c) =>
            \/ Ended(c.conn)
            \/ \E d \in CallsIn(stack'[t]) : IsReport(d) /\ c.conn = d.conn
  PROVE  WireInv'
<1>0. LibConns /\ ReportConns /\ WholeFrames /\ OneOpenConnection /\ TypeOK
  BY DEF WireInv, CallInv
<1>1. Conns' = Conns /\ NoConn \notin Conns
  BY <1>0 DEF Conns, TypeOK
<1>2. LibConns'
  <2>1. ASSUME NEW p \in Procs, NEW h \in Hooks
        PROVE  LibConn(p, h)' /\ (lib'[p][h].sock # NoConn => lib'[p][h].sock[2] \in Hooks)
    <3>1. LibConn(p, h) /\ (lib[p][h].sock # NoConn => lib[p][h].sock[2] \in Hooks)
      BY <1>0 DEF LibConns
    <3>2. PICK c : c = lib'[p][h].sock
      OBVIOUS
    <3>3. CASE c = NoConn
      BY <1>1, <3>2, <3>3 DEF LibConn
    <3>4. CASE c # NoConn
      <4>1. c = lib[p][h].sock
        BY <3>2, <3>4
      <4>2. ASSUME c \in Conns \ shared
            PROVE  /\ c[1] = p /\ c[2] = h
                   /\ lib'[p][h].mutex = None => AtRest(wire[c])
        BY <3>1, <3>2, <4>1, <4>2 DEF LibConn
      <4>3. ASSUME c \in Conns \ shared, NEW u \in Threads, NEW d \in CallsIn(stack'[u]),
                   Home[u] = p, Owns(d), d.hook = h
            PROVE  Midway(d, wire[c])
        <5>1. CASE u = t
          BY <3>2, <4>3, <5>1
        <5>2. CASE u # t
          <6>1. d \in CallsIn(stack[u])
            BY <4>3, <5>2
          <6> QED
            BY <3>1, <4>1, <4>3, <6>1 DEF LibConn
        <5> QED
          BY <5>1, <5>2
      <4>4. LibConn(p, h)'
        BY <1>1, <3>2, <4>2, <4>3 DEF LibConn
      <4> QED
        BY <3>1, <3>2, <4>1, <4>4
    <3> QED
      BY <3>3, <3>4
  <2> QED
    BY <1>0, <2>1 DEF LibConns
<1>3. ReportConns'
  <2> SUFFICES ASSUME NEW u \in Threads, NEW d \in CallsIn(stack'[u]),
                      d.op = "report", d.conn # NoConn
               PROVE  /\ d.conn[1] = Home[u] /\ d.conn[2] = d.hook
                      /\ Midway(d, wire[d.conn])
                      /\ \A v \in Threads : \A q \in CallsIn(stack'[v]) :
                            q.op = "report" /\ q.conn = d.conn => v = u
    BY DEF ReportConns
  <2>1. ASSUME NEW v \in Threads, NEW e \in CallsIn(stack'[v]), e.op = "report", e.conn # NoConn
        PROVE  /\ Midway(e, wire[e.conn])
               /\ \E c \in CallsIn(stack[v]) :
                     c.op = "report" /\ c.conn = e.conn /\ c.hook = e.hook
    <3>1. CASE v = t
      BY <2>1, <3>1 DEF IsReport
    <3>2. CASE v # t
      BY <1>0, <2>1, <3>2 DEF ReportConns
    <3> QED
      BY <3>1, <3>2
  <2>2. Midway(d, wire[d.conn])
    BY <2>1
  <2>3. PICK c \in CallsIn(stack[u]) : c.op = "report" /\ c.conn = d.conn /\ c.hook = d.hook
    BY <2>1
  <2>4. d.conn[1] = Home[u] /\ d.conn[2] = d.hook
    BY <1>0, <2>3 DEF ReportConns
  <2>5. ASSUME NEW v \in Threads, NEW q \in CallsIn(stack'[v]), q.op = "report", q.conn = d.conn
        PROVE  v = u
    <3>1. PICK e \in CallsIn(stack[v]) : e.op = "report" /\ e.conn = d.conn
      BY <2>1, <2>5
    <3> QED
      BY <1>0, <2>3, <3>1 DEF ReportConns
  <2> QED
    BY <2>2, <2>4, <2>5
<1>4. WholeFrames'
  BY <1>0, <1>1, Frames, FramesLater
<1>5. OneOpenConnection'
  <2> SUFFICES ASSUME NEW c \in Conns \ shared
               PROVE  \/ Ended(c)'
                      \/ /\ c[2] \in Hooks /\ lib'[c[1]][c[2]].initialized
                         /\ lib'[c[1]][c[2]].sock = c
                      \/ \E u \in Threads : Home[u] = c[1] /\ \E i \in DOMAIN stack'[u] :
                           stack'[u][i].op = "report" /\ stack'[u][i].conn = c
    BY <1>1 DEF OneOpenConnection
  <2>1. Ended(c)' <=> Ended(c)
    BY DEF Ended
  <2>2. CASE c[2] \in Hooks /\ lib[c[1]][c[2]].initialized /\ lib[c[1]][c[2]].sock = c
    <3>1. c \in ConnNames /\ c # NoConn
      BY <1>0 DEF TypeOK
    <3>2. c[1] \in Procs
      BY <3>1 DEF ConnNames, NoConn
    <3> QED
      BY <2>1, <2>2, <3>2
  <2>3. CASE \E u \in Threads : Home[u] = c[1] /\ \E i \in DOMAIN stack[u] :
                           stack[u][i].op = "report" /\ stack[u][i].conn = c
    <3>1. PICK u \in Threads : Home[u] = c[1] /\ \E i \in DOMAIN stack[u] :
             stack[u][i].op = "report" /\ stack[u][i].conn = c
      BY <2>3
    <3>2. CASE u # t
      BY <3>1, <3>2
    <3>3. CASE u = t
      <4>1. PICK b \in CallsIn(stack[t]) : IsReport(b) /\ b.conn = c
        BY <1>1, <3>1, <3>3 DEF IsReport, CallsIn
      <4>2. CASE Ended(c)
        BY <2>1, <4>2
      <4>3. CASE \E d \in CallsIn(stack'[t]) : IsReport(d) /\ b.conn = d.conn
        BY <3>1, <3>3, <4>1, <4>3 DEF IsReport, CallsIn
      <4> QED
        BY <4>1, <4>2, <4>3
    <3> QED
      BY <3>2, <3>3
  <2> QED
    BY <1>0, <2>1, <2>2, <2>3 DEF OneOpenConnection
<1> QED
  BY <1>2, <1>3, <1>4, <1>5 DEF WireInv

\* What may be sent next.
Fits(w, e, k) ==
    /\ k \in {"EVENT", "DONE"} => AtRest(w)
    /\ k = "TYPE" => w # <<>> /\ LastOf(w) = Item(e, "EVENT")
    /\ k = "BODY" => w # <<>> /\ LastOf(w) = Item(e, "TYPE")

Items == [kind : Fields \cup {"DONE"}, ev : Events]

LEMMA AppendItem ==
  ASSUME NEW w \in Seq(Items), NEW x \in Items, NEW v, v = Append(w, x)
  PROVE  /\ v # <<>> /\ LastOf(v) = x /\ v \in Seq(Items) /\ Len(v) = Len(w) + 1
         /\ v[Len(w) + 1] = x /\ DOMAIN v = 1 .. Len(w) + 1 /\ Len(w) \in Nat
         /\ DOMAIN w = 1 .. Len(w)
         /\ \A i \in DOMAIN w : v[i] = w[i]
         /\ w # <<>> => Len(w) \in DOMAIN w /\ LastOf(w) = w[Len(w)] /\ LastOf(w) \in Items
<1> HIDE DEF Items
<1>1. Len(w) \in Nat /\ DOMAIN w = 1 .. Len(w)
  OBVIOUS
<1>2. v \in Seq(Items) /\ Len(v) = Len(w) + 1 /\ v[Len(w) + 1] = x
  OBVIOUS
<1>3. \A i \in DOMAIN w : v[i] = w[i]
  OBVIOUS
<1>4. DOMAIN v = 1 .. Len(w) + 1
  BY <1>2
<1>5. v # <<>> /\ LastOf(v) = x
  BY <1>1, <1>2 DEF LastOf
<1>6. w # <<>> => Len(w) \in DOMAIN w /\ LastOf(w) = w[Len(w)] /\ LastOf(w) \in Items
  BY <1>1 DEF LastOf
<1> QED
  BY <1>1, <1>2, <1>3, <1>4, <1>5, <1>6

LEMMA LastAppended ==
  ASSUME NEW w \in Seq(Items), NEW x \in Items, NEW v, v = Append(w, x)
  PROVE  LastOf(v) = x
BY AppendItem, ZenonT(40)

LEMMA SomeAppended ==
  ASSUME NEW w \in Seq(Items), NEW x \in Items, NEW v, v = Append(w, x)
  PROVE  v # <<>>
BY AppendItem

LEMMA FramedAppend ==
  ASSUME NEW w \in Seq(Items), NEW e \in Events, NEW k \in Fields \cup {"DONE"},
         Framed(w), Fits(w, e, k), NEW v, v = Append(w, Item(e, k))
  PROVE  Framed(v)
<1>1. PICK x \in Items : x = Item(e, k)
  BY DEF Items, Item
<1>2. /\ Len(w) \in Nat /\ v[Len(w) + 1] = x /\ DOMAIN v = 1 .. Len(w) + 1 /\ DOMAIN w = 1 .. Len(w)
      /\ \A i \in DOMAIN w : v[i] = w[i]
      /\ w # <<>> => Len(w) \in DOMAIN w /\ LastOf(w) = w[Len(w)]
  BY <1>1, AppendItem
<1>3. x.kind = k /\ x.ev = e
  BY <1>1 DEF Item
<1>4. w # <<>> => LastOf(w).kind # "DONE"
  BY DEF Fits, AtRest, Item, Fields
<1> DEFINE F(u, i) ==
        CASE u[i].kind = "EVENT" -> i > 1 => u[i - 1].kind = "BODY"
          [] u[i].kind = "TYPE"  -> i > 1 /\ u[i - 1] = Item(u[i].ev, "EVENT")
          [] u[i].kind = "BODY"  -> i > 1 /\ u[i - 1] = Item(u[i].ev, "TYPE")
          [] u[i].kind = "DONE"  -> /\ i > 1 => u[i - 1].kind = "BODY"
                                    /\ i = Len(u)
<1>5. ASSUME NEW i \in DOMAIN v PROVE F(v, i)
  <2>0. w[i].kind \in {"EVENT", "TYPE", "BODY", "DONE"} \/ i \notin DOMAIN w
    <3>1. i \in DOMAIN w => w[i] \in Items
      OBVIOUS
    <3> QED
      BY <3>1 DEF Items, Fields
  <2>1. CASE i \in DOMAIN w
    <3>4. F(w, i)
      BY <2>1, Zenon DEF Framed
    <3>1. F(w, i) /\ v[i] = w[i] /\ (i > 1 => v[i - 1] = w[i - 1])
      <4>1. v[i] = w[i] /\ (i > 1 => i - 1 \in DOMAIN w)
        BY <1>2, <2>1
      <4> QED
        BY <1>2, <3>4, <4>1
    <3>2. w[i].kind # "DONE"
      <4>1. w[i].kind = "DONE" => i = Len(w)
        BY <3>1
      <4> QED
        BY <1>2, <1>4, <2>1, <4>1
    <3> QED
      BY <2>0, <2>1, <3>1, <3>2
  <2>2. CASE i \notin DOMAIN w
    <3>1. i = Len(w) + 1 /\ v[i] = x
      BY <1>2, <2>2
    <3>2. CASE w = <<>>
      <4>1. i = 1 /\ k \in {"EVENT", "DONE"}
        BY <3>1, <3>2 DEF Fits, Fields
      <4>2. Len(v) = 1 /\ v[i].kind = k
        BY <1>2, <1>3, <3>1, <4>1
      <4>3. ~(i > 1)
        BY <4>1
      <4> QED
        BY <4>1, <4>2, <4>3
    <3>3. CASE w # <<>>
      <4>1. i > 1 /\ v[i - 1] = LastOf(w) /\ i = Len(v)
        BY <1>2, <3>1, <3>3
      <4> QED
        BY <1>3, <3>1, <3>3, <4>1 DEF Fits, AtRest, Fields
    <3> QED
      BY <3>2, <3>3
  <2> QED
    BY <2>1, <2>2
<1> QED
  BY <1>5 DEF Framed

\* A step that sends an item.
LEMMA SendStep ==
  ASSUME CallInv, WireInv, NEW t \in Threads,
         NEW c \in Conns, NEW e \in Events, NEW k \in Fields \cup {"DONE"}, Write(c, Item(e, k)),
         lib' = lib, shared' = shared,
         \A u \in Threads \ {t} : stack'[u] = stack[u],
         c \notin shared => Fits(wire[c], e, k),
         c \notin shared => \A p \in Procs : \A h \in Hooks : lib[p][h].sock = c => lib[p][h].mutex # None,
         \A u \in Threads : \A d \in CallsIn(stack'[u]) :
            Owns(d) /\ d.hook \in Hooks /\ lib[Home[u]][d.hook].sock \in Conns \ shared
              => Midway(d, wire'[lib[Home[u]][d.hook].sock]),
         \A u \in Threads : \A d \in CallsIn(stack'[u]) : IsReport(d) =>
            /\ Midway(d, wire'[d.conn])
            /\ \E b \in CallsIn(stack[u]) : IsReport(b) /\ b.conn = d.conn /\ b.hook = d.hook,
         \A b \in CallsIn(stack[t]) : IsReport(b) =>
            \E d \in CallsIn(stack'[t]) : IsReport(d) /\ b.conn = d.conn
  PROVE  WireInv'
<1>0. LibConns /\ ReportConns /\ WholeFrames /\ OneOpenConnection /\ TypeOK
  BY DEF WireInv, CallInv
<1>1. /\ Conns' = Conns /\ NoConn \notin Conns /\ wire[c] \in Seq(Items)
      /\ wire'[c] = Append(wire[c], Item(e, k))
      /\ \A d \in Conns : d # c => wire'[d] = wire[d]
  <2>1. Conns' = Conns /\ NoConn \notin Conns
    BY <1>0, Writing DEF TypeOK
  <2>2. wire[c] \in Seq(Items)
    BY <1>0 DEF TypeOK, Items
  <2>3. /\ wire'[c] = Append(wire[c], Item(e, k))
        /\ \A d \in Conns : d # c => wire'[d] = wire[d]
    BY Writing
  <2> QED
    BY <2>1, <2>2, <2>3
<1>2. LibConns'
  <2>1. ASSUME NEW p \in Procs, NEW h \in Hooks PROVE LibConn(p, h)'
    <3>1. LibConn(p, h)
      BY <1>0 DEF LibConns
    <3>2. PICK d : d = lib[p][h].sock
      OBVIOUS
    <3>3. ASSUME d \in Conns \ shared
          PROVE  /\ d[1] = p /\ d[2] = h
                 /\ lib[p][h].mutex = None => AtRest(wire'[d])
      <4>1. d[1] = p /\ d[2] = h /\ (lib[p][h].mutex = None => AtRest(wire[d]))
        BY <3>1, <3>2, <3>3 DEF LibConn
      <4> QED
        BY <1>1, <3>2, <3>3, <4>1
    <3>4. ASSUME d \in Conns \ shared, NEW u \in Threads, NEW b \in CallsIn(stack'[u]),
                 Home[u] = p, Owns(b), b.hook = h
          PROVE  Midway(b, wire'[d])
      BY <3>2, <3>4
    <3> QED
      BY <1>1, <3>2, <3>3, <3>4 DEF LibConn
  <2> QED
    BY <1>0, <2>1 DEF LibConns
<1>3. ReportConns'
  <2> SUFFICES ASSUME NEW u \in Threads, NEW d \in CallsIn(stack'[u]),
                      d.op = "report", d.conn # NoConn
               PROVE  /\ d.conn[1] = Home[u] /\ d.conn[2] = d.hook
                      /\ Midway(d, wire'[d.conn])
                      /\ \A v \in Threads : \A q \in CallsIn(stack'[v]) :
                            q.op = "report" /\ q.conn = d.conn => v = u
    BY DEF ReportConns
  <2>1. ASSUME NEW v \in Threads, NEW b \in CallsIn(stack'[v]), b.op = "report", b.conn # NoConn
        PROVE  /\ Midway(b, wire'[b.conn])
               /\ \E a \in CallsIn(stack[v]) :
                     a.op = "report" /\ a.conn = b.conn /\ a.hook = b.hook
    BY <2>1 DEF IsReport
  <2>2. Midway(d, wire'[d.conn])
    BY <2>1
  <2>3. PICK a \in CallsIn(stack[u]) : a.op = "report" /\ a.conn = d.conn /\ a.hook = d.hook
    BY <2>1
  <2>4. d.conn[1] = Home[u] /\ d.conn[2] = d.hook
    BY <1>0, <2>3 DEF ReportConns
  <2>5. ASSUME NEW v \in Threads, NEW q \in CallsIn(stack'[v]), q.op = "report", q.conn = d.conn
        PROVE  v = u
    <3>1. PICK b \in CallsIn(stack[v]) : b.op = "report" /\ b.conn = d.conn
      BY <2>1, <2>5
    <3> QED
      BY <1>0, <2>3, <3>1 DEF ReportConns
  <2> QED
    BY <2>2, <2>4, <2>5
<1>4. WholeFrames'
  <2>1. ASSUME NEW d \in Conns \ shared PROVE Framed(wire'[d])
    <3>1. Framed(wire[d])
      BY <1>0, Frames
    <3>2. CASE d = c
      <4>1. PICK w \in Seq(Items) : w = wire[c]
        BY <1>1
      <4>2. PICK v : v = wire'[c]
        OBVIOUS
      <4>3. v = Append(w, Item(e, k))
        BY <1>1, <4>1, <4>2
      <4>4. Framed(w) /\ Fits(w, e, k)
        BY <2>1, <3>1, <3>2, <4>1
      <4> QED
        BY <3>2, <4>1, <4>2, <4>3, <4>4, FramedAppend, ZenonT(40)
    <3>3. CASE d # c
      BY <1>1, <3>1, <3>3
    <3> QED
      BY <3>2, <3>3
  <2> QED
    BY <1>1, <2>1, FramesLater
<1>5. OneOpenConnection'
  <2> SUFFICES ASSUME NEW d \in Conns \ shared
               PROVE  \/ Ended(d)'
                      \/ /\ d[2] \in Hooks /\ lib[d[1]][d[2]].initialized
                         /\ lib[d[1]][d[2]].sock = d
                      \/ \E u \in Threads : Home[u] = d[1] /\ \E i \in DOMAIN stack'[u] :
                           stack'[u][i].op = "report" /\ stack'[u][i].conn = d
    BY <1>1 DEF OneOpenConnection
  <2>1. Ended(d) => Ended(d)'
    <3>1. CASE d = c
      <4>1. ~Ended(d)
        BY <3>1 DEF Ended, Fits, AtRest, LastOf, Item, Fields
      <4> QED
        BY <4>1
    <3>2. CASE d # c
      BY <1>1, <3>2 DEF Ended
    <3> QED
      BY <3>1, <3>2
  <2>3. CASE \E u \in Threads : Home[u] = d[1] /\ \E i \in DOMAIN stack[u] :
                           stack[u][i].op = "report" /\ stack[u][i].conn = d
    <3>1. PICK u \in Threads : Home[u] = d[1] /\ \E i \in DOMAIN stack[u] :
             stack[u][i].op = "report" /\ stack[u][i].conn = d
      BY <2>3
    <3>2. CASE u # t
      BY <3>1, <3>2
    <3>3. CASE u = t
      <4>1. PICK b \in CallsIn(stack[t]) : IsReport(b) /\ b.conn = d
        BY <1>1, <3>1, <3>3 DEF IsReport, CallsIn
      <4>2. PICK a \in CallsIn(stack'[t]) : IsReport(a) /\ b.conn = a.conn
        BY <4>1
      <4> QED
        BY <3>1, <3>3, <4>1, <4>2 DEF IsReport, CallsIn
    <3> QED
      BY <3>2, <3>3
  <2> QED
    BY <1>0, <2>1, <2>3 DEF OneOpenConnection
<1> QED
  BY <1>2, <1>3, <1>4, <1>5 DEF WireInv

\* A step that makes connection e, for a library or for a report.
LEMMA ConnectStep ==
  ASSUME CallInv, WireInv, NEW t \in Threads, NEW e,
         e \notin Conns, e # NoConn, e[1] = Home[t], Conns' = Conns \cup {e},
         wire'[e] = <<>>, \A d \in Conns : wire'[d] = wire[d], shared' = shared,
         \A u \in Threads \ {t} : stack'[u] = stack[u],
         \A p \in Procs : \A h \in Hooks :
            \/ /\ lib'[p][h].sock = lib[p][h].sock /\ lib'[p][h].initialized = lib[p][h].initialized
               /\ lib'[p][h].mutex = lib[p][h].mutex
            \/ /\ p = e[1] /\ h = e[2] /\ lib'[p][h].sock = e /\ lib'[p][h].initialized
               /\ lib'[p][h].mutex # None /\ ~lib[p][h].initialized,
         \/ e[2] \in Hooks /\ lib'[e[1]][e[2]].sock = e /\ lib'[e[1]][e[2]].initialized
         \/ \E d \in CallsIn(stack'[t]) : IsReport(d) /\ d.conn = e,
         \A u \in Threads : \A d \in CallsIn(stack'[u]) :
            Owns(d) /\ d.hook \in Hooks /\ lib'[Home[u]][d.hook].sock \in Conns' \ shared
              => Midway(d, wire'[lib'[Home[u]][d.hook].sock]),
         \A u \in Threads : \A d \in CallsIn(stack'[u]) : IsReport(d) =>
            /\ Midway(d, wire'[d.conn])
            /\ \/ \E b \in CallsIn(stack[u]) : IsReport(b) /\ b.conn = d.conn /\ b.hook = d.hook
               \/ u = t /\ d.conn = e /\ d.hook = e[2],
         \A b \in CallsIn(stack[t]) : IsReport(b) =>
            \E d \in CallsIn(stack'[t]) : IsReport(d) /\ b.conn = d.conn
  PROVE  WireInv'
<1>0. LibConns /\ ReportConns /\ WholeFrames /\ OneOpenConnection /\ TypeOK
  BY DEF WireInv, CallInv
<1>1. NoConn \notin Conns /\ shared \subseteq Conns /\ e \notin shared
  BY <1>0 DEF TypeOK
<1>2. LibConns'
  <2>1. ASSUME NEW p \in Procs, NEW h \in Hooks
        PROVE  LibConn(p, h)' /\ (lib'[p][h].sock # NoConn => lib'[p][h].sock[2] \in Hooks)
    <3>1. LibConn(p, h) /\ (lib[p][h].sock # NoConn => lib[p][h].sock[2] \in Hooks)
      BY <1>0 DEF LibConns
    <3>2. PICK d : d = lib'[p][h].sock
      OBVIOUS
    <3>3. ASSUME d \in Conns' \ shared
          PROVE  /\ d[1] = p /\ d[2] = h
                 /\ lib'[p][h].mutex = None => AtRest(wire'[d])
      <4>1. CASE d = e
        <5>1. lib[p][h].sock # e
          BY <1>0, SMTT(30) DEF TypeOK
        <5>2. p = e[1] /\ h = e[2] /\ lib'[p][h].mutex # None
          BY <3>2, <4>1, <5>1
        <5> QED
          BY <4>1, <5>2
      <4>2. CASE d # e
        <5>1. d = lib[p][h].sock /\ d \in Conns \ shared /\ lib'[p][h].mutex = lib[p][h].mutex
          BY <3>2, <3>3, <4>2
        <5>2. d[1] = p /\ d[2] = h /\ (lib[p][h].mutex = None => AtRest(wire[d]))
          BY <3>1, <5>1 DEF LibConn
        <5> QED
          BY <5>1, <5>2
      <4> QED
        BY <4>1, <4>2
    <3>4. ASSUME d \in Conns' \ shared, NEW u \in Threads, NEW b \in CallsIn(stack'[u]),
                 Home[u] = p, Owns(b), b.hook = h
          PROVE  Midway(b, wire'[d])
      BY <3>2, <3>4
    <3>5. LibConn(p, h)'
      BY <3>2, <3>3, <3>4 DEF LibConn
    <3> QED
      BY <3>1, <3>5
  <2> QED
    BY <1>0, <2>1 DEF LibConns
<1>3. ReportConns'
  <2> SUFFICES ASSUME NEW u \in Threads, NEW d \in CallsIn(stack'[u]),
                      d.op = "report", d.conn # NoConn
               PROVE  /\ d.conn[1] = Home[u] /\ d.conn[2] = d.hook
                      /\ Midway(d, wire'[d.conn])
                      /\ \A v \in Threads : \A q \in CallsIn(stack'[v]) :
                            q.op = "report" /\ q.conn = d.conn => v = u
    BY DEF ReportConns
  <2>1. ASSUME NEW v \in Threads, NEW b \in CallsIn(stack'[v]), b.op = "report", b.conn # NoConn
        PROVE  /\ Midway(b, wire'[b.conn])
               /\ \/ /\ b.conn \in Conns
                     /\ \E a \in CallsIn(stack[v]) : a.op = "report" /\ a.conn = b.conn /\ a.hook = b.hook
                  \/ v = t /\ b.conn = e /\ b.hook = e[2]
    <3>1. IsReport(b)
      BY <2>1 DEF IsReport
    <3>2. CASE \E a \in CallsIn(stack[v]) : IsReport(a) /\ a.conn = b.conn /\ a.hook = b.hook
      <4>1. PICK a \in CallsIn(stack[v]) : IsReport(a) /\ a.conn = b.conn /\ a.hook = b.hook
        BY <3>2
      <4>2. a.conn \in Conns
        BY <4>1, Calling DEF IsReport
      <4> QED
        BY <3>1, <4>1, <4>2 DEF IsReport
    <3>3. CASE v = t /\ b.conn = e /\ b.hook = e[2]
      BY <3>1, <3>3
    <3> QED
      BY <3>1, <3>2, <3>3
  <2>2. Midway(d, wire'[d.conn])
    BY <2>1
  <2>3. CASE d.conn = e
    <3>1. u = t /\ d.hook = e[2]
      BY <2>1, <2>3
    <3>2. \A v \in Threads : \A q \in CallsIn(stack'[v]) :
             q.op = "report" /\ q.conn = d.conn => v = u
      BY <2>1, <2>3, <3>1
    <3> QED
      BY <2>2, <2>3, <3>1, <3>2
  <2>4. CASE d.conn # e
    <3>1. PICK a \in CallsIn(stack[u]) : a.op = "report" /\ a.conn = d.conn /\ a.hook = d.hook
      BY <2>1, <2>4
    <3>2. d.conn[1] = Home[u] /\ d.conn[2] = d.hook
      BY <1>0, <3>1 DEF ReportConns
    <3>3. ASSUME NEW v \in Threads, NEW q \in CallsIn(stack'[v]), q.op = "report", q.conn = d.conn
          PROVE  v = u
      <4>1. PICK b \in CallsIn(stack[v]) : b.op = "report" /\ b.conn = d.conn
        BY <2>1, <2>4, <3>3
      <4> QED
        BY <1>0, <3>1, <4>1 DEF ReportConns
    <3> QED
      BY <2>2, <3>2, <3>3
  <2> QED
    BY <2>3, <2>4
<1>4. WholeFrames'
  <2>1. \A d \in Conns \ shared : Framed(wire[d])
    BY <1>0, Frames
  <2>2. Framed(wire'[e])
    BY DEF Framed
  <2> QED
    BY <2>1, <2>2, FramesLater
<1>5. OneOpenConnection'
  <2> SUFFICES ASSUME NEW d \in Conns' \ shared
               PROVE  \/ Ended(d)'
                      \/ /\ d[2] \in Hooks /\ lib'[d[1]][d[2]].initialized
                         /\ lib'[d[1]][d[2]].sock = d
                      \/ \E u \in Threads : Home[u] = d[1] /\ \E i \in DOMAIN stack'[u] :
                           stack'[u][i].op = "report" /\ stack'[u][i].conn = d
    BY DEF OneOpenConnection
  <2>1. CASE d = e
    <3>1. CASE e[2] \in Hooks /\ lib'[e[1]][e[2]].sock = e /\ lib'[e[1]][e[2]].initialized
      BY <2>1, <3>1
    <3>2. CASE \E b \in CallsIn(stack'[t]) : IsReport(b) /\ b.conn = e
      BY <2>1, <3>2 DEF IsReport, CallsIn
    <3> QED
      BY <3>1, <3>2
  <2>2. CASE d # e
    <3>1. Ended(d) => Ended(d)'
      BY <2>2 DEF Ended
    <3>2. CASE d[2] \in Hooks /\ lib[d[1]][d[2]].initialized /\ lib[d[1]][d[2]].sock = d
      <4>1. d \in ConnNames /\ d # NoConn
        BY <1>0, <2>2 DEF TypeOK
      <4>2. d[1] \in Procs
        BY <4>1 DEF ConnNames, NoConn
      <4> QED
        BY <3>2, <4>2
    <3>3. CASE \E u \in Threads : Home[u] = d[1] /\ \E i \in DOMAIN stack[u] :
                             stack[u][i].op = "report" /\ stack[u][i].conn = d
      <4>1. PICK u \in Threads : Home[u] = d[1] /\ \E i \in DOMAIN stack[u] :
               stack[u][i].op = "report" /\ stack[u][i].conn = d
        BY <3>3
      <4>2. CASE u # t
        BY <4>1, <4>2
      <4>3. CASE u = t
        <5>1. PICK b \in CallsIn(stack[t]) : IsReport(b) /\ b.conn = d
          BY <1>1, <2>2, <4>1, <4>3 DEF IsReport, CallsIn
        <5>2. PICK a \in CallsIn(stack'[t]) : IsReport(a) /\ b.conn = a.conn
          BY <5>1
        <5> QED
          BY <4>1, <4>3, <5>1, <5>2 DEF IsReport, CallsIn
      <4> QED
        BY <4>2, <4>3
    <3> QED
      BY <1>0, <2>2, <3>1, <3>2, <3>3 DEF OneOpenConnection
  <2> QED
    BY <2>1, <2>2
<1> QED
  BY <1>2, <1>3, <1>4, <1>5 DEF WireInv

LEMMA ForkWires ==
  ASSUME CallInv, WireInv, NEW t \in Threads, NEW u \in Threads, Fork(t, u)
  PROVE  WireInv'
<1>0. LibConns /\ ReportConns /\ WholeFrames /\ OneOpenConnection /\ TypeOK /\ StackInv /\ LibInv
  BY DEF WireInv, CallInv
<1>1. PICK p \in Procs, q \in Procs : p = Home[t] /\ q = Home[u]
  BY InterposerAssumption
<1>2. /\ proc[p] = "alive" /\ proc[q] = "unborn" /\ p # q
      /\ lib' = [lib EXCEPT ![q] = lib[p]]
      /\ shared' = shared \cup ({lib[p][h].sock : h \in Hooks} \ {NoConn})
      /\ UNCHANGED <<stack, wire>>
  BY <1>1 DEF Fork, Idle, Runs
<1>3. /\ lib'[q] = lib[p]
      /\ \A r \in Procs \ {q} : lib'[r] = lib[r]
  BY <1>0, <1>2 DEF TypeOK
<1>4. Conns' = Conns
  BY <1>2 DEF Conns
<1>5. LibConns'
  <2>1. ASSUME NEW r \in Procs, NEW h \in Hooks
        PROVE  LibConn(r, h)' /\ (lib'[r][h].sock # NoConn => lib'[r][h].sock[2] \in Hooks)
    <3>1. /\ LibConn(r, h) /\ (lib[r][h].sock # NoConn => lib[r][h].sock[2] \in Hooks)
          /\ lib[p][h].sock # NoConn => lib[p][h].sock[2] \in Hooks
      BY <1>0 DEF LibConns
    <3>2. CASE r = q
      <4>1. lib'[r][h].sock \notin Conns' \ shared'
        BY <1>0, <1>2, <1>3, <1>4, <3>2 DEF TypeOK
      <4> QED
        BY <1>3, <3>1, <3>2, <4>1 DEF LibConn
    <3>3. CASE r # q
      <4>1. lib'[r][h] = lib[r][h]
        BY <1>3, <3>3
      <4>2. LibConn(r, h)'
        BY <1>2, <1>4, <3>1, <4>1 DEF LibConn
      <4> QED
        BY <3>1, <4>1, <4>2
    <3> QED
      BY <3>2, <3>3
  <2>2. \A c \in shared' : c[2] \in Hooks
    BY <1>0, <1>2 DEF LibConns
  <2> QED
    BY <2>1, <2>2 DEF LibConns
<1>6. ReportConns'
  BY <1>0, <1>2 DEF ReportConns
<1>7. WholeFrames'
  <2>1. \A d \in Conns \ shared : Framed(wire[d])
    BY <1>0, Frames
  <2> QED
    BY <1>2, <1>4, <2>1, FramesLater
<1>8. OneOpenConnection'
  <2> SUFFICES ASSUME NEW d \in Conns \ shared
               PROVE  \/ Ended(d)'
                      \/ /\ d[2] \in Hooks /\ lib'[d[1]][d[2]].initialized
                         /\ lib'[d[1]][d[2]].sock = d
                      \/ \E v \in Threads : Home[v] = d[1] /\ \E i \in DOMAIN stack'[v] :
                           stack'[v][i].op = "report" /\ stack'[v][i].conn = d
    BY <1>2, <1>4 DEF OneOpenConnection
  <2>1. Ended(d)' <=> Ended(d)
    BY <1>2 DEF Ended
  <2>2. CASE d[2] \in Hooks /\ lib[d[1]][d[2]].initialized /\ lib[d[1]][d[2]].sock = d
    <3>1. d \in ConnNames /\ d # NoConn
      BY <1>0 DEF TypeOK
    <3>2. d[1] \in Procs
      BY <3>1 DEF ConnNames, NoConn
    <3>3. d[1] # q
      <4>1. LibState(q, d[2])
        BY <1>0, <2>2 DEF LibInv
      <4> QED
        BY <1>2, <2>2, <3>1, <4>1 DEF LibState, Unloaded
    <3> QED
      BY <1>3, <2>2, <3>2, <3>3
  <2> QED
    BY <1>0, <1>2, <2>1, <2>2 DEF OneOpenConnection
<1> QED
  BY <1>5, <1>6, <1>7, <1>8 DEF WireInv

-----------------------------------------------------------------------------
(* The steps of the threads, and what they send. *)

LEMMA NoReports ==
  ASSUME CallInv, NEW t \in Threads, stack[t] # <<>> => Top(t).op # "report"
  PROVE  \A b \in CallsIn(stack[t]) : ~IsReport(b) /\ b.op # "report"
<1>1. CASE stack[t] = <<>>
  BY <1>1 DEF CallsIn
<1>2. CASE stack[t] # <<>>
  <2>1. PICK c, r : c = Top(t) /\ r = Tail(stack[t])
    OBVIOUS
  <2>2. CallsIn(stack[t]) = {c} \cup CallsIn(r)
    BY <1>2, <2>1, TopCalls
  <2>3. \A b \in CallsIn(r) : b.op \in {"exit", "exec", "cleanup"}
    BY <1>2, <2>1, RestOf
  <2> QED
    BY <1>2, <2>1, <2>2, <2>3 DEF IsReport
<1> QED
  BY <1>1, <1>2

LEMMA OnlyReport ==
  ASSUME CallInv, NEW t \in Threads, NEW b \in CallsIn(stack[t]), b.op = "report"
  PROVE  stack[t] # <<>> /\ b = Top(t) /\ b.hook \in {"exit", "exec"}
<1>1. stack[t] # <<>>
  BY DEF CallsIn
<1>2. PICK c, r : c = Top(t) /\ r = Tail(stack[t])
  OBVIOUS
<1>3. CallsIn(stack[t]) = {c} \cup CallsIn(r) /\ Form(c)
  BY <1>1, <1>2, TopCalls
<1>4. b \notin CallsIn(r)
  BY <1>1, <1>2, RestOf
<1> QED
  BY <1>1, <1>2, <1>3, <1>4 DEF Form

LEMMA OwnedMidway ==
  ASSUME CallInv, LibConns, NEW t \in Threads, NEW c \in CallsIn(stack[t]), Owns(c), c.hook \in Hooks,
         NEW s, s = lib[Home[t]][c.hook].sock
  PROVE  /\ lib[Home[t]][c.hook].mutex = t /\ Home[t] \in Procs
         /\ s \in Conns \ shared => /\ Midway(c, wire[s])
                                    /\ s[1] = Home[t] /\ s[2] = c.hook
<1>1. c.hook \in Owned(stack[t]) /\ Home[t] \in Procs
  BY InterposerAssumption DEF Owned
<1>2. lib[Home[t]][c.hook].mutex = t
  BY <1>1 DEF CallInv, Locked
<1>3. LibConn(Home[t], c.hook)
  BY <1>1 DEF LibConns
<1> QED
  BY <1>1, <1>2, <1>3 DEF LibConn

\* No report has the connection of a library.
LEMMA ReportApart ==
  ASSUME CallInv, WireInv, NEW u \in Threads, NEW d \in CallsIn(stack[u]), IsReport(d)
  PROVE  /\ d.conn \in Conns \ shared
         /\ \A p \in Procs : \A h \in Hooks : lib[p][h].sock # d.conn
<1>1. d.op = "report" /\ d.conn # NoConn /\ d.hook \in {"exit", "exec"}
  BY OnlyReport DEF IsReport
<1>2. d.conn[2] \in {"exit", "exec"}
  BY <1>1 DEF WireInv, ReportConns
<1>3. d.conn[2] \notin Hooks
  BY <1>2, InterposerAssumption
<1>4. d.conn \in Conns
  BY <1>1, Calling
<1> QED
  BY <1>1, <1>3, <1>4 DEF WireInv, LibConns

\* A silent step that keeps the connections of the libraries, and of the calls it
\* begins or moves, D.
LEMMA SilentCalls ==
  ASSUME CallInv, WireInv, NEW t \in Threads, wire' = wire, shared' = shared,
         \A u \in Threads \ {t} : stack'[u] = stack[u],
         \A p \in Procs : \A h \in Hooks :
            /\ lib'[p][h].sock = lib[p][h].sock /\ lib'[p][h].initialized = lib[p][h].initialized
            /\ lib'[p][h].mutex = None /\ lib[p][h].sock \in Conns \ shared
                 => lib[p][h].mutex = None \/ AtRest(wire[lib[p][h].sock]),
         NEW D, CallsIn(stack'[t]) \subseteq D \cup CallsIn(stack[t]),
         \A d \in D :
            Owns(d) /\ d.hook \in Hooks /\ lib[Home[t]][d.hook].sock \in Conns \ shared
              => Midway(d, wire[lib[Home[t]][d.hook].sock]),
         \A d \in D : ~IsReport(d),
         \A c \in CallsIn(stack[t]) : IsReport(c) =>
            \/ Ended(c.conn)
            \/ c \in CallsIn(stack'[t])
  PROVE  WireInv'
<1>0. LibConns /\ ReportConns /\ Home[t] \in Procs
  BY InterposerAssumption DEF WireInv
<1>1. ASSUME NEW d \in CallsIn(stack'[t]),
             Owns(d), d.hook \in Hooks, lib'[Home[t]][d.hook].sock \in Conns \ shared
      PROVE  Midway(d, wire[lib'[Home[t]][d.hook].sock])
  <2>1. lib'[Home[t]][d.hook].sock = lib[Home[t]][d.hook].sock
    BY <1>0, <1>1
  <2>2. CASE d \in D
    BY <1>1, <2>1, <2>2
  <2>3. CASE d \in CallsIn(stack[t])
    BY <1>0, <1>1, <2>1, <2>3, OwnedMidway
  <2> QED
    BY <2>2, <2>3
<1>2. ASSUME NEW d \in CallsIn(stack'[t]), IsReport(d)
      PROVE  /\ Midway(d, wire[d.conn])
             /\ \E c \in CallsIn(stack[t]) :
                  IsReport(c) /\ c.conn = d.conn /\ c.hook = d.hook
  <2>1. d \in CallsIn(stack[t])
    BY <1>2
  <2> QED
    BY <1>0, <1>2, <2>1 DEF ReportConns, IsReport
<1>3. \A c \in CallsIn(stack[t]) : IsReport(c) =>
            \/ Ended(c.conn)
            \/ \E d \in CallsIn(stack'[t]) : IsReport(d) /\ c.conn = d.conn
  OBVIOUS
<1>4. \A p \in Procs : \A h \in Hooks :
            lib'[p][h].sock \in Conns \ shared /\ lib'[p][h].mutex = None
              => lib[p][h].mutex = None \/ AtRest(wire[lib'[p][h].sock])
  OBVIOUS
<1> QED
  BY <1>1, <1>2, <1>3, <1>4, SilentStep

\* The same of steps that leave the libraries alone.
LEMMA SilentMove ==
  ASSUME CallInv, WireInv, NEW t \in Threads, wire' = wire, shared' = shared, lib' = lib,
         \A u \in Threads \ {t} : stack'[u] = stack[u],
         NEW D, CallsIn(stack'[t]) \subseteq D \cup CallsIn(stack[t]),
         \A d \in D :
            Owns(d) /\ d.hook \in Hooks /\ lib[Home[t]][d.hook].sock \in Conns \ shared
              => Midway(d, wire[lib[Home[t]][d.hook].sock]),
         \A d \in D : ~IsReport(d),
         \A c \in CallsIn(stack[t]) : IsReport(c) =>
            \/ Ended(c.conn)
            \/ c \in CallsIn(stack'[t])
  PROVE  WireInv'
<1>1. \A p \in Procs : \A h \in Hooks :
            /\ lib'[p][h].sock = lib[p][h].sock /\ lib'[p][h].initialized = lib[p][h].initialized
            /\ lib'[p][h].mutex = None /\ lib[p][h].sock \in Conns \ shared
                 => lib[p][h].mutex = None \/ AtRest(wire[lib[p][h].sock])
  OBVIOUS
<1> QED
  BY <1>1, SilentCalls

LEMMA StayingWires ==
  ASSUME CallInv, WireInv, UNCHANGED <<stack, lib, wire, shared>>, NEW t \in Threads
  PROVE  WireInv'
<1>1. PICK D : D = {}
  OBVIOUS
<1> QED
  BY <1>1, SilentMove

\* Steps of calls that neither have a mutex nor report, before or after.
LEMMA PlainMove ==
  ASSUME CallInv, WireInv, NEW t \in Threads, wire' = wire, shared' = shared, lib' = lib,
         stack[t] # <<>> => Top(t).op # "report" \/ Top(t).conn = NoConn,
         \A u \in Threads \ {t} : stack'[u] = stack[u],
         NEW D, CallsIn(stack'[t]) \subseteq D \cup CallsIn(stack[t]),
         \A d \in D : ~Owns(d) /\ ~IsReport(d)
  PROVE  WireInv'
<1>1. \A c \in CallsIn(stack[t]) : ~IsReport(c)
  <2>1. ASSUME NEW c \in CallsIn(stack[t]), IsReport(c) PROVE FALSE
    BY <2>1, OnlyReport DEF IsReport
  <2> QED
    BY <2>1
<1> QED
  BY <1>1, SilentMove

LEMMA CallHookWires ==
  ASSUME CallInv, WireInv, NEW t \in Threads, NEW h \in Hooks, CallHook(t, h)
  PROVE  WireInv'
<1>1. PICK d : d = Call("call", h, Entry(h), NewEvent(t))
  OBVIOUS
<1>2. Entry(h) \in {"check", "lock"}
  BY DEF Entry
<1>3. /\ d \in Calls /\ d.op = "call" /\ d.at = Entry(h) /\ d.conn = NoConn
  BY <1>1, <1>2, NewCall DEF Ops, Names, Labels
<1>4. ~Owns(d) /\ ~IsReport(d)
  BY <1>2, <1>3 DEF Owns, Fields, IsReport
<1>5. /\ stack[t] \in Seq(Calls) /\ Enter(t, d, stack[t])
      /\ wire' = wire /\ shared' = shared /\ lib' = lib
      /\ stack[t] # <<>> => Top(t).op = "exit"
  BY <1>1 DEF CallHook, CallInv, TypeOK, Idle, In
<1>6. /\ CallsIn(stack'[t]) = {d} \cup CallsIn(stack[t])
      /\ \A u \in Threads \ {t} : stack'[u] = stack[u]
  BY <1>3, <1>5, EnterCalls
<1>7. PICK D : D = {d}
  OBVIOUS
<1> QED
  BY <1>4, <1>5, <1>6, <1>7, PlainMove

LEMMA CheckFinalizedWires ==
  ASSUME CallInv, WireInv, NEW t \in Threads, CheckFinalized(t)
  PROVE  WireInv'
<1>1. PICK c, r, d, at : c = Top(t) /\ r = Tail(stack[t]) /\ d = Placed(c, at) /\ at = "lock"
  OBVIOUS
<1>2. /\ stack[t] # <<>> /\ c.op = "call" /\ Goto(t, at) /\ at \in Labels
      /\ wire' = wire /\ shared' = shared /\ lib' = lib
  BY <1>1 DEF CheckFinalized, In, Labels
<1>3. Replaces(t, c, {d}, r)
  BY <1>1, <1>2, GotoCalls
<1>4. d.op = c.op /\ d.at = at
  BY <1>1, PlacedCall
<1>5. ~Owns(d) /\ ~IsReport(d)
  BY <1>1, <1>2, <1>4 DEF Owns, Fields, IsReport
<1>6. PICK D : D = {d}
  OBVIOUS
<1>7. CallsIn(stack'[t]) \subseteq D \cup CallsIn(stack[t])
      /\ \A u \in Threads \ {t} : stack'[u] = stack[u]
  BY <1>3, <1>6 DEF Replaces
<1> QED
  BY <1>1, <1>2, <1>5, <1>6, <1>7, PlainMove, ZenonT(40)

\* A call that is over, and has sent all it had to send.
LEMMA ReturnWires ==
  ASSUME CallInv, WireInv, NEW t \in Threads, wire' = wire, shared' = shared, lib' = lib,
         stack[t] # <<>>, Top(t).op # "report" \/ Top(t).conn = NoConn, Return(t)
  PROVE  WireInv'
<1>1. PICK c, r, D : c = Top(t) /\ r = Tail(stack[t]) /\ D = {}
  OBVIOUS
<1>2. Replaces(t, c, D, r)
  BY <1>1, ReturnCalls
<1>3. CallsIn(stack'[t]) \subseteq D \cup CallsIn(stack[t])
      /\ \A u \in Threads \ {t} : stack'[u] = stack[u]
  BY <1>1, <1>2 DEF Replaces
<1> QED
  BY <1>1, <1>3, PlainMove

LEMMA ForwardWires ==
  ASSUME CallInv, WireInv, NEW t \in Threads, Forward(t)
  PROVE  WireInv'
<1>1. stack[t] # <<>> /\ Top(t).op = "call" /\ UNCHANGED <<lib, wire, shared>>
  BY DEF Forward, In
<1>2. CASE Return(t)
  BY <1>1, <1>2, ReturnWires
<1>3. CASE UNCHANGED stack
  BY <1>1, <1>3, StayingWires
<1> QED
  BY <1>2, <1>3 DEF Forward

LEMMA RealCallWires ==
  ASSUME CallInv, WireInv, NEW t \in Threads, RealCall(t)
  PROVE  WireInv'
<1>1. PICK c, r : c = Top(t) /\ r = Tail(stack[t])
  OBVIOUS
<1>2. PICK at \in {"EVENT", "unlock"} : Goto(t, at)
  BY DEF RealCall
<1>3. /\ stack[t] # <<>> /\ c.op = "call" /\ c.at = "real" /\ at \in Labels
      /\ wire' = wire /\ shared' = shared /\ lib' = lib
  BY <1>1, <1>2 DEF RealCall, In, Labels, Fields
<1>4. PICK d : d = Placed(c, at)
  OBVIOUS
<1>5. Replaces(t, c, {d}, r)
  BY <1>1, <1>2, <1>3, <1>4, GotoCalls
<1>6. d.op = c.op /\ d.at = at /\ d.hook = c.hook
  BY <1>4, PlacedCall
<1>7. c \in CallsIn(stack[t]) /\ Owns(c)
  BY <1>1, <1>3, TopCalls DEF Owns
<1>8. ASSUME d.hook \in Hooks, NEW s, s = lib[Home[t]][d.hook].sock, s \in Conns \ shared
      PROVE  Midway(d, wire[s])
  <2>1. Midway(c, wire[s])
    BY <1>6, <1>7, <1>8, OwnedMidway DEF WireInv
  <2> QED
    BY <1>2, <1>3, <1>6, <2>1 DEF Midway
<1>9. PICK D : D = {d}
  OBVIOUS
<1>10. CallsIn(stack'[t]) \subseteq D \cup CallsIn(stack[t])
      /\ \A u \in Threads \ {t} : stack'[u] = stack[u]
  BY <1>9, <1>5 DEF Replaces
<1>11. \A b \in CallsIn(stack[t]) : ~IsReport(b)
  BY <1>1, <1>3, NoReports
<1>12. ~IsReport(d)
  BY <1>3, <1>6 DEF IsReport
<1> QED
  BY <1>3, <1>8, <1>9, <1>10, <1>11, <1>12, SilentMove

LEMMA CleanupCloseWires ==
  ASSUME CallInv, WireInv, NEW t \in Threads, CleanupClose(t)
  PROVE  WireInv'
<1>1. PICK c, r, d, q, e :
         /\ c = Top(t) /\ r = Tail(stack[t]) /\ d = Placed(c, "reset")
         /\ q = <<d>> \o r /\ e = Call("call", "close", Entry("close"), NewEvent(t))
  OBVIOUS
<1>2. /\ stack[t] # <<>> /\ c.op = "cleanup" /\ c.at = "close"
      /\ wire' = wire /\ shared' = shared /\ lib' = lib
  BY <1>1 DEF CleanupClose, In
<1>3. /\ CallsIn(stack[t]) = {c} \cup CallsIn(r) /\ c \in CallsIn(stack[t])
      /\ c \in Calls /\ r \in Seq(Calls) /\ stack \in [Threads -> Seq(Calls)]
  BY <1>1, <1>2, TopCalls
<1>4. /\ d \in Calls /\ d.op = "cleanup" /\ d.at = "reset" /\ d.hook = c.hook
  BY <1>1, <1>2, <1>3 DEF Calls, Placed, Labels
<1>5. q = <<d>> \o r
  BY <1>1
<1>6. q \in Seq(Calls) /\ CallsIn(q) = {d} \cup CallsIn(r)
  <2>1. q \in Seq(Calls)
    BY <1>3, <1>4, <1>5
  <2>2. CallsIn(q) = {d} \cup CallsIn(r)
    BY <1>3, <1>4, <1>5, CallsOf
  <2> QED
    BY <2>1, <2>2
<1>7. CloseSocket(t, q)
  BY <1>1, <1>3, MovedPlaces DEF CleanupClose
<1>8. PICK D : D = {d, e}
  OBVIOUS
<1>9. Entry("close") = "check"
  BY DEF Entry
<1>10. e.op = "call" /\ e.at = "check"
  BY <1>1, <1>9 DEF Call
<1>11. CallsIn(stack'[t]) \subseteq D \cup CallsIn(stack[t])
      /\ \A u \in Threads \ {t} : stack'[u] = stack[u]
  <2>1. CASE "close" \in Hooks
    <3>1. e \in Calls
      BY <1>1, <1>9, <2>1, NewCall DEF Ops, Names, Labels
    <3>2. Enter(t, e, q)
      BY <1>1, <1>7, <2>1 DEF CloseSocket
    <3>3. /\ CallsIn(stack'[t]) = {e} \cup CallsIn(q)
          /\ \A u \in Threads \ {t} : stack'[u] = stack[u]
      BY <1>6, <3>1, <3>2, EnterCalls
    <3> QED
      BY <1>3, <1>6, <1>8, <3>3
  <2>2. CASE "close" \notin Hooks
    <3>1. stack' = [stack EXCEPT ![t] = q]
      BY <1>7, <2>2 DEF CloseSocket
    <3> QED
      BY <1>3, <1>6, <1>8, <3>1
  <2> QED
    BY <2>1, <2>2
<1>12. Owns(c) /\ ~Owns(e) /\ ~IsReport(d) /\ ~IsReport(e)
  BY <1>2, <1>4, <1>10 DEF Owns, IsReport, Fields
<1>13. ASSUME d.hook \in Hooks, NEW s, s = lib[Home[t]][d.hook].sock, s \in Conns \ shared
      PROVE  Midway(d, wire[s])
  <2>1. Midway(c, wire[s])
    BY <1>3, <1>4, <1>12, <1>13, OwnedMidway DEF WireInv
  <2> QED
    BY <1>2, <1>4, <2>1 DEF Midway
<1>14. \A b \in CallsIn(stack[t]) : ~IsReport(b)
  BY <1>1, <1>2, NoReports
<1>15. \A b \in D :
          /\ ~IsReport(b)
          /\ Owns(b) /\ b.hook \in Hooks /\ lib[Home[t]][b.hook].sock \in Conns \ shared
               => Midway(b, wire[lib[Home[t]][b.hook].sock])
  BY <1>8, <1>12, <1>13
<1> QED
  BY <1>2, <1>11, <1>14, <1>15, SilentMove

LEMMA ReportCloseWires ==
  ASSUME CallInv, WireInv, NEW t \in Threads, ReportClose(t)
  PROVE  WireInv'
<1>1. PICK c, r, e :
         /\ c = Top(t) /\ r = Tail(stack[t])
         /\ e = Call("call", "close", Entry("close"), NewEvent(t))
  OBVIOUS
<1>2. /\ stack[t] # <<>> /\ c.op = "report" /\ c.at = "close"
      /\ wire' = wire /\ shared' = shared /\ lib' = lib /\ CloseSocket(t, r)
  BY <1>1 DEF ReportClose, In
<1>3. /\ CallsIn(stack[t]) = {c} \cup CallsIn(r) /\ c \in CallsIn(stack[t])
      /\ c \in Calls /\ r \in Seq(Calls) /\ stack \in [Threads -> Seq(Calls)]
  BY <1>1, <1>2, TopCalls
<1>7. PICK D : D = {e}
  OBVIOUS
<1>8. Entry("close") = "check"
  BY DEF Entry
<1>9. e.op = "call" /\ e.at = "check"
  BY <1>1, <1>8 DEF Call
<1>10. CallsIn(stack'[t]) \subseteq D \cup CallsIn(stack[t])
      /\ \A u \in Threads \ {t} : stack'[u] = stack[u]
  <2>1. CASE "close" \in Hooks
    <3>1. e \in Calls
      BY <1>1, <1>8, <2>1, NewCall DEF Ops, Names, Labels
    <3>2. Enter(t, e, r)
      BY <1>1, <1>2, <2>1 DEF CloseSocket
    <3>3. /\ CallsIn(stack'[t]) = {e} \cup CallsIn(r)
          /\ \A u \in Threads \ {t} : stack'[u] = stack[u]
      BY <1>3, <3>1, <3>2, EnterCalls
    <3> QED
      BY <1>3, <1>7, <3>3
  <2>2. CASE "close" \notin Hooks
    <3>1. stack' = [stack EXCEPT ![t] = r]
      BY <1>2, <2>2 DEF CloseSocket
    <3> QED
      BY <1>3, <1>7, <3>1
  <2> QED
    BY <2>1, <2>2
<1>11. ~Owns(e) /\ ~IsReport(e)
  BY <1>9 DEF Owns, IsReport, Fields
<1>12. ASSUME NEW b \in CallsIn(stack[t]), IsReport(b)
       PROVE  Ended(b.conn)
  <2>1. b.at = "close"
    BY <1>1, <1>2, <1>12, OnlyReport DEF IsReport
  <2>2. Midway(b, wire[b.conn])
    BY <1>12 DEF WireInv, ReportConns, IsReport
  <2> QED
    BY <2>1, <2>2 DEF Midway, Ended, LastOf
<1> QED
  BY <1>2, <1>7, <1>10, <1>11, <1>12, SilentMove

LEMMA ExitReportTestWires ==
  ASSUME CallInv, WireInv, NEW t \in Threads, ExitReportTest(t)
  PROVE  WireInv'
<1>1. PICK c, r, d, at : c = Top(t) /\ r = Tail(stack[t]) /\ d = Placed(c, at) /\ at = "connect"
  OBVIOUS
<1>2. /\ stack[t] # <<>> /\ c.op = "report" /\ c.at = "test" /\ at \in Labels
      /\ wire' = wire /\ shared' = shared /\ lib' = lib /\ (Return(t) \/ Goto(t, at))
  BY <1>1 DEF ExitReportTest, In, Labels
<1>3. c.conn = NoConn
  <2>1. Form(c)
    BY <1>1, <1>2, TopCalls
  <2> QED
    BY <1>2, <2>1 DEF Form
<1>4. CASE Return(t)
  BY <1>1, <1>2, <1>3, <1>4, ReturnWires
<1>5. CASE Goto(t, at)
  <2>1. Replaces(t, c, {d}, r)
    BY <1>1, <1>2, <1>5, GotoCalls
  <2>5. d.op = c.op /\ d.conn = c.conn
    BY <1>1, PlacedCall
  <2>2. ~Owns(d) /\ ~IsReport(d)
    BY <1>2, <1>3, <2>5 DEF Owns, IsReport
  <2>3. PICK D : D = {d}
    OBVIOUS
  <2>4. CallsIn(stack'[t]) \subseteq D \cup CallsIn(stack[t])
        /\ \A u \in Threads \ {t} : stack'[u] = stack[u]
    BY <2>1, <2>3 DEF Replaces
  <2> QED
    BY <1>1, <1>2, <1>3, <2>2, <2>3, <2>4, PlainMove, ZenonT(40)
<1> QED
  BY <1>2, <1>4, <1>5

\* SetLib() changes one library of one process.
LEMMA SetsLib ==
  ASSUME CallInv, NEW t \in Threads, NEW h \in Hooks, Top(t).hook = h, NEW m, SetLib(t, m)
  PROVE  /\ lib'[Home[t]][h] = m /\ Home[t] \in Procs
         /\ \A p \in Procs : \A k \in Hooks : p # Home[t] \/ k # h => lib'[p][k] = lib[p][k]
<1>1. Home[t] \in Procs /\ lib \in [Procs -> [Hooks -> Library]]
  BY InterposerAssumption DEF CallInv, TypeOK
<1>2. lib' = [lib EXCEPT ![Home[t]][h] = m]
  BY DEF SetLib
<1>3. lib'[Home[t]][h] = m
  BY <1>1, <1>2
<1>4. ASSUME NEW p \in Procs, NEW k \in Hooks, p # Home[t] \/ k # h
      PROVE  lib'[p][k] = lib[p][k]
  BY <1>1, <1>2, <1>4
<1> QED
  BY <1>1, <1>3, <1>4

LEMMA UnlockWires ==
  ASSUME CallInv, WireInv, NEW t \in Threads, Unlock(t)
  PROVE  WireInv'
<1>1. PICK c, r, l, m : /\ c = Top(t) /\ r = Tail(stack[t]) /\ l = Lib(t)
                        /\ m = [l EXCEPT !.mutex = None]
  OBVIOUS
<1>2. /\ stack[t] # <<>> /\ c.op = "call" /\ c.at = "unlock" /\ Return(t)
      /\ SetLib(t, m) /\ wire' = wire /\ shared' = shared
  BY <1>1 DEF Unlock, In
<1>3. c \in CallsIn(stack[t]) /\ Form(c)
  BY <1>1, <1>2, TopCalls
<1>4. Owns(c) /\ c.hook \in Hooks
  BY <1>2, <1>3 DEF Form, Owns
<1>5. PICK h \in Hooks : h = c.hook
  BY <1>4
<1>6. /\ l = lib[Home[t]][h] /\ lib'[Home[t]][h] = m /\ Home[t] \in Procs
      /\ \A p \in Procs : \A k \in Hooks : p # Home[t] \/ k # h => lib'[p][k] = lib[p][k]
  BY <1>1, <1>2, <1>5, SetsLib DEF Lib
<1>7. m.sock = l.sock /\ m.initialized = l.initialized /\ m.mutex = None
  BY <1>1, <1>6 DEF CallInv, TypeOK, Library
<1>8. ASSUME l.sock \in Conns \ shared
      PROVE  AtRest(wire[l.sock])
  <2>1. Midway(c, wire[l.sock])
    BY <1>3, <1>4, <1>5, <1>6, <1>8, OwnedMidway DEF WireInv
  <2> QED
    BY <1>2, <2>1 DEF Midway
<1>9. \A p \in Procs : \A k \in Hooks :
            /\ lib'[p][k].sock = lib[p][k].sock /\ lib'[p][k].initialized = lib[p][k].initialized
            /\ lib'[p][k].mutex = None /\ lib[p][k].sock \in Conns \ shared
                 => lib[p][k].mutex = None \/ AtRest(wire[lib[p][k].sock])
  BY <1>6, <1>7, <1>8
<1>10. PICK D : D = {}
  OBVIOUS
<1>11. Replaces(t, c, D, r)
  BY <1>1, <1>2, <1>10, ReturnCalls
<1>12. CallsIn(stack'[t]) \subseteq D \cup CallsIn(stack[t])
       /\ \A u \in Threads \ {t} : stack'[u] = stack[u]
  BY <1>11 DEF Replaces
<1>13. \A b \in CallsIn(stack[t]) : ~IsReport(b)
  BY <1>1, <1>2, NoReports
<1>14. \A d \in D :
          /\ ~IsReport(d)
          /\ Owns(d) /\ d.hook \in Hooks /\ lib[Home[t]][d.hook].sock \in Conns \ shared
               => Midway(d, wire[lib[Home[t]][d.hook].sock])
  BY <1>10
<1> QED
  BY <1>2, <1>9, <1>12, <1>13, <1>14, SilentCalls

LEMMA CleanupLockWires ==
  ASSUME CallInv, WireInv, NEW t \in Threads, CleanupLock(t)
  PROVE  WireInv'
<1>1. PICK c, r, l, m : /\ c = Top(t) /\ r = Tail(stack[t]) /\ l = Lib(t)
                        /\ m = [l EXCEPT !.mutex = t]
  OBVIOUS
<1>2. /\ stack[t] # <<>> /\ c.op = "cleanup" /\ c.at = "lock" /\ l.mutex = None
      /\ SetLib(t, m) /\ wire' = wire /\ shared' = shared
  BY <1>1 DEF CleanupLock, In
<1>3. c \in CallsIn(stack[t]) /\ Form(c)
  BY <1>1, <1>2, TopCalls
<1>4. PICK h \in Hooks : h = c.hook
  BY <1>2, <1>3 DEF Form
<1>5. /\ l = lib[Home[t]][h] /\ lib'[Home[t]][h] = m /\ Home[t] \in Procs
      /\ \A p \in Procs : \A k \in Hooks : p # Home[t] \/ k # h => lib'[p][k] = lib[p][k]
  BY <1>1, <1>2, <1>4, SetsLib DEF Lib
<1>6. m.sock = l.sock /\ m.initialized = l.initialized /\ m.mutex = t
  BY <1>1, <1>5 DEF CallInv, TypeOK, Library
<1>7. PICK at \in {"done", "reset"} :
         Goto(t, at) /\ at = IF l.initialized /\ l.sock # NoConn THEN "done" ELSE "reset"
  BY <1>1 DEF CleanupLock
<1>8. l.sock \in Conns => at = "done"
  <2>1. ~l.initialized => l.sock = NoConn
    BY <1>5 DEF CallInv, LibInv, LibState
  <2>2. NoConn \notin Conns
    BY DEF CallInv, TypeOK
  <2> QED
    BY <1>7, <2>1, <2>2
<1>9. PICK d : d = Placed(c, at)
  OBVIOUS
<1>10. d.op = c.op /\ d.at = at /\ d.hook = c.hook
  BY <1>9, PlacedCall
<1>11. at \in Labels
  BY <1>7 DEF Labels
<1>12. Replaces(t, c, {d}, r)
  BY <1>1, <1>2, <1>7, <1>9, <1>11, GotoCalls
<1>13. ASSUME l.sock \in Conns \ shared
       PROVE  Midway(d, wire[l.sock])
  <2>1. AtRest(wire[l.sock])
    <3>1. LibConn(Home[t], h)
      BY <1>5 DEF WireInv, LibConns
    <3> QED
      BY <1>2, <1>5, <1>13, <3>1 DEF LibConn
  <2> QED
    BY <1>8, <1>10, <1>13, <2>1 DEF Midway
<1>14. PICK D : D = {d}
  OBVIOUS
<1>15. \A b \in D :
          /\ ~IsReport(b)
          /\ Owns(b) /\ b.hook \in Hooks /\ lib[Home[t]][b.hook].sock \in Conns \ shared
               => Midway(b, wire[lib[Home[t]][b.hook].sock])
  BY <1>2, <1>4, <1>5, <1>10, <1>13, <1>14 DEF IsReport
<1>16. \A p \in Procs : \A k \in Hooks :
            /\ lib'[p][k].sock = lib[p][k].sock /\ lib'[p][k].initialized = lib[p][k].initialized
            /\ lib'[p][k].mutex = None /\ lib[p][k].sock \in Conns \ shared
                 => lib[p][k].mutex = None \/ AtRest(wire[lib[p][k].sock])
  BY <1>2, <1>5, <1>6
<1>17. CallsIn(stack'[t]) \subseteq D \cup CallsIn(stack[t])
       /\ \A u \in Threads \ {t} : stack'[u] = stack[u]
  BY <1>12, <1>14 DEF Replaces
<1>18. \A b \in CallsIn(stack[t]) : ~IsReport(b)
  BY <1>1, <1>2, NoReports
<1> QED
  BY <1>2, <1>15, <1>16, <1>17, <1>18, SilentCalls

LEMMA CleanupResetWires ==
  ASSUME CallInv, WireInv, NEW t \in Threads, CleanupReset(t)
  PROVE  WireInv'
<1>1. PICK c, r, l, m : /\ c = Top(t) /\ r = Tail(stack[t]) /\ l = Lib(t)
                        /\ m = [l EXCEPT !.mutex = None, !.initialized = FALSE, !.sock = NoConn]
  OBVIOUS
<1>2. /\ stack[t] # <<>> /\ c.op = "cleanup" /\ c.at = "reset" /\ Return(t)
      /\ SetLib(t, m) /\ wire' = wire /\ shared' = shared
  BY <1>1 DEF CleanupReset, In
<1>3. c \in CallsIn(stack[t]) /\ Form(c) /\ CallsIn(stack[t]) = {c} \cup CallsIn(r)
  BY <1>1, <1>2, TopCalls
<1>4. Owns(c) /\ c.hook \in Hooks
  BY <1>2, <1>3 DEF Form, Owns
<1>5. PICK h \in Hooks : h = c.hook
  BY <1>4
<1>6. /\ l = lib[Home[t]][h] /\ lib'[Home[t]][h] = m /\ Home[t] \in Procs
      /\ \A p \in Procs : \A k \in Hooks : p # Home[t] \/ k # h => lib'[p][k] = lib[p][k]
  BY <1>1, <1>2, <1>5, SetsLib DEF Lib
<1>7. m.sock = NoConn
  BY <1>1, <1>6 DEF CallInv, TypeOK, Library
<1>8. ASSUME l.sock \in Conns \ shared
      PROVE  Ended(l.sock)
  <2>1. Midway(c, wire[l.sock])
    BY <1>3, <1>4, <1>5, <1>6, <1>8, OwnedMidway DEF WireInv
  <2> QED
    BY <1>2, <2>1 DEF Midway, Ended, LastOf
<1>9. \A p \in Procs : \A k \in Hooks :
        \/ lib'[p][k].sock = lib[p][k].sock /\ lib'[p][k].initialized = lib[p][k].initialized
        \/ lib'[p][k].sock = NoConn /\ (lib[p][k].sock \in Conns \ shared => Ended(lib[p][k].sock))
  BY <1>6, <1>7, <1>8
<1>10. NoConn \notin Conns
  BY DEF CallInv, TypeOK
<1>11. \A p \in Procs : \A k \in Hooks :
            lib'[p][k].sock \in Conns \ shared /\ lib'[p][k].mutex = None
              => lib[p][k].mutex = None \/ AtRest(wire[lib'[p][k].sock])
  BY <1>6, <1>7, <1>10
<1>12. Replaces(t, c, {}, r)
  BY <1>1, <1>2, ReturnCalls
<1>13. /\ CallsIn(stack'[t]) = CallsIn(r)
       /\ \A u \in Threads \ {t} : stack'[u] = stack[u]
  BY <1>12 DEF Replaces
<1>14. ASSUME NEW d \in CallsIn(stack'[t]),
              Owns(d), d.hook \in Hooks, lib'[Home[t]][d.hook].sock \in Conns \ shared
       PROVE  Midway(d, wire[lib'[Home[t]][d.hook].sock])
  <2>1. d.hook # h /\ d \in CallsIn(stack[t])
    BY <1>3, <1>6, <1>7, <1>10, <1>13, <1>14
  <2>2. lib'[Home[t]][d.hook] = lib[Home[t]][d.hook]
    BY <1>6, <1>14, <2>1
  <2> QED
    BY <1>14, <2>1, <2>2, OwnedMidway DEF WireInv
<1>15. \A b \in CallsIn(stack[t]) : ~IsReport(b)
  BY <1>1, <1>2, NoReports
<1>16. \A b \in CallsIn(stack'[t]) : ~IsReport(b)
  BY <1>3, <1>13, <1>15
<1> QED
  BY <1>2, <1>9, <1>11, <1>13, <1>14, <1>15, <1>16, SilentStep

\* A call is begun, that is not one that has a mutex or a connection.
LEMMA EnterWires ==
  ASSUME CallInv, WireInv, NEW t \in Threads, wire' = wire, shared' = shared, lib' = lib,
         stack[t] # <<>> => Top(t).op # "report",
         NEW d \in Calls, NEW q \in Seq(Calls), Enter(t, d, q), ~Owns(d), ~IsReport(d),
         \A b \in CallsIn(q) : b \in CallsIn(stack[t]) \/ (~Owns(b) /\ ~IsReport(b))
  PROVE  WireInv'
<1>1. /\ CallsIn(stack'[t]) = {d} \cup CallsIn(q)
      /\ \A u \in Threads \ {t} : stack'[u] = stack[u]
  BY EnterCalls
<1>2. PICK D : D = {b \in CallsIn(stack'[t]) : ~Owns(b) /\ ~IsReport(b)}
  OBVIOUS
<1>3. CallsIn(stack'[t]) \subseteq D \cup CallsIn(stack[t])
  BY <1>1, <1>2
<1>4. \A b \in D : ~Owns(b) /\ ~IsReport(b)
  BY <1>2
<1> QED
  BY <1>1, <1>3, <1>4, PlainMove

LEMMA ExitWires ==
  ASSUME CallInv, WireInv, NEW t \in Threads, NEW how \in {"exit", "_exit", "return"}, Exit(t, how)
  PROVE  WireInv'
<1>1. PICK at, end, report, q, none :
        /\ at = IF how = "_exit" THEN "end" ELSE "fini"
        /\ end = Call("exit", how, at, NewEvent(t))
        /\ report = Call("report", "exit", "test", NewEvent(t))
        /\ none = <<>> /\ q = <<end>>
  OBVIOUS
<1>2. "exit" \in Ops /\ how \in Names /\ at \in Labels
  BY <1>1 DEF Ops, Names, Labels
<1>3. end \in Calls /\ end.op = "exit"
  BY <1>1, <1>2, NewCall
<1>4. report \in Calls /\ report.op = "report" /\ report.conn = NoConn
  BY <1>1, NewCall DEF Ops, Names, Labels
<1>5. ~Owns(end) /\ ~IsReport(end) /\ ~Owns(report) /\ ~IsReport(report)
  BY <1>3, <1>4 DEF Owns, IsReport
<1>6. /\ none \in Seq(Calls) /\ CallsIn(none) = {}
      /\ q \in Seq(Calls) /\ CallsIn(q) = {end}
  <2>1. none \in Seq(Calls) /\ CallsIn(none) = {}
    BY <1>1 DEF CallsIn
  <2>2. q \in Seq(Calls)
    BY <1>1, <1>3
  <2>3. DOMAIN q = {1} /\ q[1] = end
    BY <1>1
  <2>4. CallsIn(q) = {end}
    BY <2>3 DEF CallsIn
  <2> QED
    BY <2>1, <2>2, <2>4
<1>7. /\ wire' = wire /\ shared' = shared /\ lib' = lib /\ stack[t] = <<>>
      /\ Enter(t, end, none) \/ Enter(t, report, q)
  BY <1>1 DEF Exit, Idle
<1>8. CASE Enter(t, end, none)
  BY <1>3, <1>5, <1>6, <1>7, <1>8, EnterWires
<1>9. CASE Enter(t, report, q)
  BY <1>4, <1>5, <1>6, <1>7, <1>9, EnterWires
<1> QED
  BY <1>7, <1>8, <1>9

LEMMA ExecveWires ==
  ASSUME CallInv, WireInv, NEW t \in Threads, Execve(t)
  PROVE  WireInv'
<1>1. PICK image, report, q :
        /\ image = Call("exec", "exec", "real", NewEvent(t)) /\ q = <<image>>
        /\ report = Call("report", "exec", "connect", NewEvent(t))
  OBVIOUS
<1>2. image \in Calls /\ image.op = "exec"
  <2>1. PICK op \in Ops, hook \in Names, at \in Labels : op = "exec" /\ hook = "exec" /\ at = "real"
    BY DEF Ops, Names, Labels
  <2> QED
    BY <1>1, <2>1, NewCall
<1>3. report \in Calls /\ report.op = "report" /\ report.conn = NoConn
  <2>1. PICK op \in Ops, hook \in Names, at \in Labels : op = "report" /\ hook = "exec" /\ at = "connect"
    BY DEF Ops, Names, Labels
  <2> QED
    BY <1>1, <2>1, NewCall
<1>4. ~Owns(image) /\ ~IsReport(image) /\ ~Owns(report) /\ ~IsReport(report)
  BY <1>2, <1>3 DEF Owns, IsReport
<1>5. q \in Seq(Calls) /\ CallsIn(q) = {image}
  <2>1. q \in Seq(Calls)
    BY <1>1, <1>2
  <2>2. DOMAIN q = {1} /\ q[1] = image
    BY <1>1
  <2>3. CallsIn(q) = {image}
    BY <2>2 DEF CallsIn
  <2> QED
    BY <2>1, <2>3
<1>6. /\ wire' = wire /\ shared' = shared /\ lib' = lib /\ stack[t] = <<>>
      /\ Enter(t, report, q)
  BY <1>1 DEF Execve, Idle
<1> QED
  BY <1>3, <1>4, <1>5, <1>6, EnterWires

LEMMA FiniWires ==
  ASSUME CallInv, WireInv, NEW t \in Threads, NEW h \in Hooks, Fini(t, h)
  PROVE  WireInv'
<1>1. PICK d, q : d = Call("cleanup", h, "lock", NewEvent(t)) /\ q = stack[t]
  OBVIOUS
<1>2. d \in Calls /\ d.op = "cleanup" /\ d.at = "lock"
  BY <1>1, NewCall DEF Ops, Names, Labels
<1>3. ~Owns(d) /\ ~IsReport(d)
  BY <1>2 DEF Owns, IsReport
<1>4. /\ q \in Seq(Calls) /\ Top(t).op = "exit"
      /\ wire' = wire /\ shared' = shared /\ lib' = lib /\ Enter(t, d, q)
  BY <1>1 DEF Fini, In, CallInv, TypeOK
<1> QED
  BY <1>1, <1>2, <1>3, <1>4, EnterWires

LEMMA ExitHandlerWires ==
  ASSUME CallInv, WireInv, NEW t \in Threads, ExitHandler(t)
  PROVE  WireInv'
<1>1. PICK c, r, e, q, d : /\ c = Top(t) /\ r = Tail(stack[t])
                           /\ e = Placed(c, "end") /\ q = <<e>> \o r
                           /\ d = Call("report", "exit", "test", NewEvent(t))
  OBVIOUS
<1>2. /\ stack[t] # <<>> /\ c.op = "exit" /\ wire' = wire /\ shared' = shared /\ lib' = lib
      /\ Enter(t, d, Moved(t, "end"))
  BY <1>1 DEF ExitHandler, In
<1>3. d \in Calls /\ d.op = "report" /\ d.conn = NoConn
  BY <1>1, NewCall DEF Ops, Names, Labels
<1>4. c \in Calls /\ r \in Seq(Calls) /\ CallsIn(stack[t]) = {c} \cup CallsIn(r)
  BY <1>1, <1>2, TopCalls
<1>5. e \in Calls /\ e.op = "exit"
  BY <1>1, <1>2, <1>4 DEF Calls, Placed, Labels
<1>6. q \in Seq(Calls)
  BY <1>1, <1>4, <1>5
<1>7. CallsIn(q) = {e} \cup CallsIn(r)
  BY <1>1, <1>4, <1>5, CallsOf
<1>8. Enter(t, d, q)
  BY <1>1, <1>2, <1>4, MovedPlaces
<1>9. ~Owns(d) /\ ~IsReport(d) /\ ~Owns(e) /\ ~IsReport(e)
  BY <1>3, <1>5 DEF Owns, IsReport
<1> QED
  BY <1>1, <1>2, <1>3, <1>4, <1>6, <1>7, <1>8, <1>9, EnterWires, ZenonT(40)

LEMMA EndWires ==
  ASSUME CallInv, WireInv, NEW t \in Threads, End(t)
  PROVE  WireInv'
BY StayingWires DEF End

LEMMA RealExecveWires ==
  ASSUME CallInv, WireInv, NEW t \in Threads, RealExecve(t)
  PROVE  WireInv'
<1>1. stack[t] # <<>> /\ Top(t).op = "exec" /\ UNCHANGED <<lib, wire, shared>>
  BY DEF RealExecve, In
<1>2. CASE Return(t)
  BY <1>1, <1>2, ReturnWires
<1>3. CASE UNCHANGED stack
  BY <1>1, <1>3, StayingWires
<1> QED
  BY <1>2, <1>3 DEF RealExecve

\* A call that has the mutex of its library sends item k of its event on the
\* connection of the library, and goes on at another place.
LEMMA LibrarySends ==
  ASSUME CallInv, WireInv, NEW t \in Threads, stack[t] # <<>>, NEW c, c = Top(t), c.op # "report",
         Owns(c), c.hook \in Hooks, NEW k \in Fields \cup {"DONE"}, NEW e \in Events,
         NEW s \in Conns, s = lib[Home[t]][c.hook].sock, Write(s, Item(e, k)),
         lib' = lib, shared' = shared, NEW at \in Labels, Goto(t, at),
         NEW d, d = Placed(c, at),
         s \notin shared /\ Midway(c, wire[s]) => Fits(wire[s], e, k),
         \A v : v # <<>> /\ LastOf(v) = Item(e, k) => Midway(d, v)
  PROVE  WireInv'
<1>0. LibConns /\ ReportConns /\ TypeOK /\ Home[t] \in Procs
  BY InterposerAssumption DEF WireInv, CallInv
<1>1. PICK r : r = Tail(stack[t])
  OBVIOUS
<1>2. CallsIn(stack[t]) = {c} \cup CallsIn(r) /\ c \in CallsIn(stack[t])
  BY <1>1, TopCalls
<1>3. Replaces(t, c, {d}, r)
  BY <1>1, GotoCalls
<1>4. /\ CallsIn(stack'[t]) = {d} \cup CallsIn(r)
      /\ \A u \in Threads \ {t} : stack'[u] = stack[u]
  BY <1>3 DEF Replaces
<1>5. d.op = c.op /\ d.hook = c.hook
  BY PlacedCall
<1>6. /\ wire[s] \in Seq(Items) /\ wire'[s] = Append(wire[s], Item(e, k))
      /\ \A x \in Conns : x # s => wire'[x] = wire[x]
  <2>1. wire[s] \in Seq(Items)
    BY <1>0 DEF TypeOK, Items
  <2>2. /\ wire'[s] = Append(wire[s], Item(e, k))
        /\ \A x \in Conns : x # s => wire'[x] = wire[x]
    BY Writing
  <2> QED
    BY <2>1, <2>2
<1>7. Midway(d, wire'[s])
  <2>1. PICK w \in Seq(Items), x \in Items : w = wire[s] /\ x = Item(e, k)
    BY <1>6 DEF Items, Item
  <2>2. PICK v : v = Append(w, x)
    OBVIOUS
  <2>3. v # <<>>
    BY <2>2, SomeAppended
  <2>4. LastOf(v) = x
    BY <2>2, LastAppended
  <2> QED
    BY <1>6, <2>1, <2>2, <2>3, <2>4
<1>8. /\ lib[Home[t]][c.hook].mutex = t
      /\ s \notin shared => Midway(c, wire[s])
  BY <1>0, <1>2, OwnedMidway
<1>9. ASSUME s \notin shared, NEW p \in Procs, NEW h \in Hooks, lib[p][h].sock = s
      PROVE  p = Home[t] /\ h = c.hook
  BY <1>0, <1>9, OwnConn
<1>10. s \notin shared => \A p \in Procs : \A h \in Hooks : lib[p][h].sock = s => lib[p][h].mutex # None
  BY <1>8, <1>9, InterposerAssumption
<1>11. ASSUME NEW u \in Threads, NEW b \in CallsIn(stack'[u]),
              Owns(b), b.hook \in Hooks, lib[Home[u]][b.hook].sock \in Conns \ shared
       PROVE  Midway(b, wire'[lib[Home[u]][b.hook].sock])
  <2>1. PICK x \in Conns \ shared : x = lib[Home[u]][b.hook].sock
    BY <1>11
  <2>2. Home[u] \in Procs
    BY InterposerAssumption
  <2>3. CASE b \in CallsIn(stack[u])
    <3>1. /\ lib[Home[u]][b.hook].mutex = u
          /\ Midway(b, wire[x])
      BY <1>0, <1>11, <2>1, <2>3, OwnedMidway
    <3>2. CASE x # s
      BY <1>6, <2>1, <3>1, <3>2
    <3>3. CASE x = s
      <4>1. Home[u] = Home[t] /\ b.hook = c.hook
        BY <1>9, <1>11, <2>1, <2>2, <3>3
      <4>2. u = t
        BY <1>8, <3>1, <4>1
      <4>3. ASSUME b \in CallsIn(r) PROVE FALSE
        <5>1. b.hook # c.hook
          BY <1>1, <1>11, <4>3, OtherMutex
        <5> QED
          BY <4>1, <5>1
      <4>4. b = d
        BY <1>4, <4>2, <4>3
      <4> QED
        BY <1>7, <2>1, <3>3, <4>4
    <3> QED
      BY <3>2, <3>3
  <2>4. CASE b \notin CallsIn(stack[u])
    <3>1. u = t /\ b = d
      BY <1>2, <1>4, <2>4
    <3> QED
      BY <1>5, <1>7, <3>1
  <2> QED
    BY <2>3, <2>4
<1>12. ASSUME NEW u \in Threads, NEW b \in CallsIn(stack'[u]), IsReport(b)
       PROVE  /\ Midway(b, wire'[b.conn])
              /\ \E a \in CallsIn(stack[u]) : IsReport(a) /\ a.conn = b.conn /\ a.hook = b.hook
  <2>1. b \in CallsIn(stack[u])
    BY <1>2, <1>4, <1>5, <1>12 DEF IsReport
  <2>2. b.conn \in Conns /\ b.conn # s
    BY <1>0, <1>12, <2>1, ReportApart
  <2>3. Midway(b, wire[b.conn])
    BY <1>0, <1>12, <2>1 DEF ReportConns, IsReport
  <2> QED
    BY <1>6, <1>12, <2>1, <2>2, <2>3
<1>13. \A b \in CallsIn(stack[t]) : ~IsReport(b)
  BY NoReports
<1> QED
  BY <1>4, <1>8, <1>10, <1>11, <1>12, <1>13, SendStep

\* A report sends item k of its event on its connection.
LEMMA ReportSendsWires ==
  ASSUME CallInv, WireInv, NEW t \in Threads, stack[t] # <<>>, NEW c, c = Top(t), c.op = "report",
         NEW k \in Fields \cup {"DONE"}, NEW e \in Events,
         NEW s, s = c.conn, s # NoConn, Write(s, Item(e, k)),
         lib' = lib, shared' = shared, NEW at \in Labels, Goto(t, at),
         NEW d, d = Placed(c, at),
         Midway(c, wire[s]) => Fits(wire[s], e, k),
         \A v : v # <<>> /\ LastOf(v) = Item(e, k) => Midway(d, v)
  PROVE  WireInv'
<1>0. LibConns /\ ReportConns /\ TypeOK /\ Home[t] \in Procs
  BY InterposerAssumption DEF WireInv, CallInv
<1>1. PICK r : r = Tail(stack[t])
  OBVIOUS
<1>2. CallsIn(stack[t]) = {c} \cup CallsIn(r) /\ c \in CallsIn(stack[t])
  BY <1>1, TopCalls
<1>3. Replaces(t, c, {d}, r)
  BY <1>1, GotoCalls
<1>4. /\ CallsIn(stack'[t]) = {d} \cup CallsIn(r)
      /\ \A u \in Threads \ {t} : stack'[u] = stack[u]
  BY <1>3 DEF Replaces
<1>5. d.op = c.op /\ d.hook = c.hook /\ d.conn = c.conn
  BY PlacedCall
<1>6. IsReport(c) /\ IsReport(d) /\ ~Owns(d)
  BY <1>5 DEF IsReport, Owns
<1>7. /\ s \in Conns \ shared
      /\ \A p \in Procs : \A h \in Hooks : lib[p][h].sock # s
  BY <1>2, <1>6, ReportApart
<1>8. /\ wire[s] \in Seq(Items) /\ wire'[s] = Append(wire[s], Item(e, k))
      /\ \A x \in Conns : x # s => wire'[x] = wire[x]
  <2>1. wire[s] \in Seq(Items)
    BY <1>0, <1>7 DEF TypeOK, Items
  <2>2. /\ wire'[s] = Append(wire[s], Item(e, k))
        /\ \A x \in Conns : x # s => wire'[x] = wire[x]
    BY <1>7, Writing
  <2> QED
    BY <2>1, <2>2
<1>9. Midway(d, wire'[s])
  <2>1. PICK w \in Seq(Items), x \in Items : w = wire[s] /\ x = Item(e, k)
    BY <1>8 DEF Items, Item
  <2>2. PICK v : v = Append(w, x)
    OBVIOUS
  <2>3. v # <<>>
    BY <2>2, SomeAppended
  <2>4. LastOf(v) = x
    BY <2>2, LastAppended
  <2> QED
    BY <1>8, <2>1, <2>2, <2>3, <2>4
<1>10. Fits(wire[s], e, k)
  BY <1>0, <1>2 DEF ReportConns
<1>11. ASSUME NEW u \in Threads, NEW b \in CallsIn(stack'[u]),
              Owns(b), b.hook \in Hooks, lib[Home[u]][b.hook].sock \in Conns \ shared
       PROVE  Midway(b, wire'[lib[Home[u]][b.hook].sock])
  <2>1. PICK x \in Conns \ shared : x = lib[Home[u]][b.hook].sock
    BY <1>11
  <2>2. b \in CallsIn(stack[u]) /\ Home[u] \in Procs
    BY <1>2, <1>4, <1>6, <1>11, InterposerAssumption
  <2>3. Midway(b, wire[x])
    BY <1>0, <1>11, <2>1, <2>2, OwnedMidway
  <2>4. x # s
    BY <1>7, <1>11, <2>1, <2>2
  <2> QED
    BY <1>8, <2>1, <2>3, <2>4
<1>12. ASSUME NEW u \in Threads, NEW b \in CallsIn(stack'[u]), IsReport(b)
       PROVE  /\ Midway(b, wire'[b.conn])
              /\ \E a \in CallsIn(stack[u]) : IsReport(a) /\ a.conn = b.conn /\ a.hook = b.hook
  <2>1. CASE u = t /\ b = d
    BY <1>2, <1>5, <1>6, <1>9, <2>1
  <2>2. CASE ~(u = t /\ b = d)
    <3>1. b \in CallsIn(stack[u]) /\ (u = t => b \in CallsIn(r))
      BY <1>2, <1>4, <2>2
    <3>2. u # t
      <4>1. u = t => b.op # "report"
        BY <1>1, <3>1, RestOf
      <4> QED
        BY <1>12, <4>1 DEF IsReport
    <3>3. b.conn # s
      BY <1>0, <1>2, <1>12, <3>1, <3>2 DEF ReportConns, IsReport
    <3>4. Midway(b, wire[b.conn]) /\ b.conn \in Conns
      BY <1>0, <1>12, <3>1, Calling DEF ReportConns, IsReport
    <3> QED
      BY <1>8, <1>12, <3>1, <3>3, <3>4
  <2> QED
    BY <2>1, <2>2
<1>13. ASSUME NEW b \in CallsIn(stack[t]), IsReport(b)
       PROVE  \E a \in CallsIn(stack'[t]) : IsReport(a) /\ b.conn = a.conn
  <2>1. b = c
    BY <1>13, OnlyReport DEF IsReport
  <2> QED
    BY <1>4, <1>5, <1>6, <2>1
<1> QED
  BY <1>4, <1>7, <1>10, <1>11, <1>12, <1>13, SendStep

\* What is sent next fits, and leads to the next place.
LEMMA NextField ==
  ASSUME NEW k \in Fields, NEW c, NEW d, c.at = k, d.ev = c.ev, NEW e, e = c.ev,
         d.at = After(k) \/ (k = "BODY" /\ d.at = "done")
  PROVE  /\ \A w : Midway(c, w) => Fits(w, e, k)
         /\ \A v : v # <<>> /\ LastOf(v) = Item(e, k) => Midway(d, v)
<1>1. CASE k = "EVENT"
  <2>1. d.at = "TYPE"
    BY <1>1 DEF After
  <2> QED
    BY <1>1, <2>1 DEF Midway, Fits
<1>2. CASE k = "TYPE"
  <2>1. d.at = "BODY"
    BY <1>2 DEF After
  <2> QED
    BY <1>2, <2>1 DEF Midway, Fits
<1>3. CASE k = "BODY"
  <2>1. d.at \in {"unlock", "done"}
    BY <1>3 DEF After
  <2> QED
    BY <1>3, <2>1 DEF Midway, Fits, AtRest, Item
<1> QED
  BY <1>1, <1>2, <1>3 DEF Fields

LEMMA LastItem ==
  ASSUME NEW k, k = "DONE", NEW c, NEW d, c.at = "done", d.at = "close", NEW e
  PROVE  /\ \A w : Midway(c, w) => Fits(w, e, k)
         /\ \A v : v # <<>> /\ LastOf(v) = Item(e, k) => Midway(d, v)
BY DEF Midway, Fits, Item

LEMMA WriteFieldWires ==
  ASSUME CallInv, WireInv, NEW t \in Threads, NEW k \in Fields, WriteField(t, k)
  PROVE  WireInv'
<1>1. PICK c, d, e, at, s : c = Top(t) /\ at = After(k) /\ d = Placed(c, at) /\ e = c.ev
                            /\ s = Lib(t).sock
  OBVIOUS
<1>2. /\ stack[t] # <<>> /\ c.op = "call" /\ c.at = k /\ lib' = lib /\ shared' = shared
      /\ Write(s, Item(e, k)) /\ Goto(t, at)
  BY <1>1 DEF WriteField, In
<1>3. s \in Conns /\ e \in Events /\ c.hook \in Hooks /\ s = lib[Home[t]][c.hook].sock
  BY <1>1, <1>2, HasSocket DEF Lib
<1>4. d.ev = c.ev /\ d.at = After(k)
  BY <1>1, PlacedCall
<1>5. /\ \A w : Midway(c, w) => Fits(w, e, k)
      /\ \A v : v # <<>> /\ LastOf(v) = Item(e, k) => Midway(d, v)
  BY <1>1, <1>2, <1>4, NextField
<1>6. Owns(c) /\ at \in Labels /\ k \in Fields \cup {"DONE"} /\ c.op # "report"
  BY <1>1, <1>2 DEF Owns, After, Labels, Fields
<1> QED
  BY <1>1, <1>2, <1>3, <1>5, <1>6, LibrarySends

LEMMA CleanupDoneWires ==
  ASSUME CallInv, WireInv, NEW t \in Threads, CleanupDone(t)
  PROVE  WireInv'
<1>1. PICK c, d, e, at, s, k : c = Top(t) /\ at = "close" /\ d = Placed(c, at) /\ e = c.ev
                               /\ s = Lib(t).sock /\ k = "DONE"
  OBVIOUS
<1>2. /\ stack[t] # <<>> /\ c.op = "cleanup" /\ c.at = "done" /\ lib' = lib /\ shared' = shared
      /\ Write(s, Item(e, k)) /\ Goto(t, at)
  BY <1>1 DEF CleanupDone, In
<1>3. s \in Conns /\ e \in Events /\ c.hook \in Hooks /\ s = lib[Home[t]][c.hook].sock
  BY <1>1, <1>2, HasSocket DEF Lib
<1>4. d.at = "close"
  BY <1>1, PlacedCall
<1>5. /\ \A w : Midway(c, w) => Fits(w, e, k)
      /\ \A v : v # <<>> /\ LastOf(v) = Item(e, k) => Midway(d, v)
  BY <1>1, <1>2, <1>4, LastItem
<1>6. Owns(c) /\ at \in Labels /\ k \in Fields \cup {"DONE"} /\ c.op # "report"
  BY <1>1, <1>2 DEF Owns, Labels
<1> QED
  BY <1>1, <1>2, <1>3, <1>5, <1>6, LibrarySends

LEMMA SendingReport ==
  ASSUME CallInv, NEW t \in Threads, stack[t] # <<>>, NEW c, c = Top(t), c.op = "report",
         c.at \in Fields \cup {"done"}
  PROVE  c.conn # NoConn /\ c.ev \in Events
<1>1. PICK r : r = Tail(stack[t])
  OBVIOUS
<1>2. c \in Calls /\ Form(c)
  BY <1>1, TopCalls
<1> QED
  BY <1>2 DEF Form, Fields, Calls

LEMMA ReportFieldWires ==
  ASSUME CallInv, WireInv, NEW t \in Threads, NEW k \in Fields, ReportField(t, k)
  PROVE  WireInv'
<1>1. PICK c, d, e, at, s :
         /\ c = Top(t) /\ at = IF k = "BODY" THEN "done" ELSE After(k)
         /\ d = Placed(c, at) /\ e = c.ev /\ s = c.conn
  OBVIOUS
<1>2. /\ stack[t] # <<>> /\ c.op = "report" /\ c.at = k /\ lib' = lib /\ shared' = shared
      /\ Write(s, Item(e, k)) /\ Goto(t, at)
  BY <1>1 DEF ReportField, In
<1>3. s # NoConn /\ e \in Events
  BY <1>1, <1>2, SendingReport
<1>4. d.ev = c.ev /\ d.at = at
  BY <1>1, PlacedCall
<1>5. /\ \A w : Midway(c, w) => Fits(w, e, k)
      /\ \A v : v # <<>> /\ LastOf(v) = Item(e, k) => Midway(d, v)
  BY <1>1, <1>2, <1>4, NextField
<1>6. at \in Labels /\ k \in Fields \cup {"DONE"}
  BY <1>1 DEF After, Labels, Fields
<1>7. c = Top(t) /\ d = Placed(c, at) /\ s = c.conn
  BY <1>1
<1>8. Midway(c, wire[s]) => Fits(wire[s], e, k)
  BY <1>5
<1> QED
  BY <1>2, <1>3, <1>5, <1>6, <1>7, <1>8, ReportSendsWires

LEMMA ReportDoneWires ==
  ASSUME CallInv, WireInv, NEW t \in Threads, ReportDone(t)
  PROVE  WireInv'
<1>1. PICK c, d, e, at, s, k : c = Top(t) /\ at = "close" /\ d = Placed(c, at) /\ e = c.ev
                               /\ s = c.conn /\ k = "DONE"
  OBVIOUS
<1>2. /\ stack[t] # <<>> /\ c.op = "report" /\ c.at = "done" /\ lib' = lib /\ shared' = shared
      /\ Write(s, Item(e, k)) /\ Goto(t, at)
  BY <1>1 DEF ReportDone, In
<1>3. s # NoConn /\ e \in Events
  BY <1>1, <1>2, SendingReport
<1>4. d.at = "close"
  BY <1>1, PlacedCall
<1>5. /\ \A w : Midway(c, w) => Fits(w, e, k)
      /\ \A v : v # <<>> /\ LastOf(v) = Item(e, k) => Midway(d, v)
  BY <1>1, <1>2, <1>4, LastItem
<1>6. at \in Labels /\ k \in Fields \cup {"DONE"}
  BY <1>1 DEF Labels
<1>7. c = Top(t) /\ d = Placed(c, at) /\ s = c.conn
  BY <1>1
<1>8. Midway(c, wire[s]) => Fits(wire[s], e, k)
  BY <1>5
<1> QED
  BY <1>2, <1>3, <1>5, <1>6, <1>7, <1>8, ReportSendsWires

LEMMA ReportConnectWires ==
  ASSUME CallInv, WireInv, NEW t \in Threads, ReportConnect(t)
  PROVE  WireInv'
<1>0. LibConns /\ ReportConns /\ TypeOK
  BY DEF WireInv, CallInv
<1>1. PICK c, r : c = Top(t) /\ r = Tail(stack[t])
  OBVIOUS
<1>2. /\ stack[t] # <<>> /\ c.op = "report" /\ c.at = "connect"
      /\ lib' = lib /\ shared' = shared /\ made' = made
  BY <1>1 DEF ReportConnect, In
<1>3. /\ CallsIn(stack[t]) = {c} \cup CallsIn(r) /\ c \in CallsIn(stack[t])
      /\ c \in Calls /\ Form(c) /\ r \in Seq(Calls) /\ Home[t] \in Procs
      /\ stack \in [Threads -> Seq(Calls)]
  BY <1>1, <1>2, TopCalls
<1>4. c.conn = NoConn
  BY <1>2, <1>3 DEF Form
<1>5. PICK e \in Sockets(Home[t], c.hook), at \in {"EVENT", "done"} :
         /\ IF e = NoConn THEN UNCHANGED wire ELSE Connect(e)
         /\ stack' = [stack EXCEPT ![t] =
                        IF e = NoConn THEN r
                        ELSE <<[c EXCEPT !.at = at, !.conn = e]>> \o r]
  BY <1>1 DEF ReportConnect
<1>6. CASE e = NoConn
  <2>1. Return(t) /\ wire' = wire
    BY <1>1, <1>2, <1>5, <1>6 DEF Return
  <2> QED
    BY <1>1, <1>2, <1>4, <2>1, ReturnWires
<1>7. CASE e # NoConn
  <2>1. e = NewConn(Home[t], c.hook) /\ Connect(e) /\ c.hook \in Names
    BY <1>3, <1>5, <1>7 DEF Sockets, Calls
  <2>2. /\ e \notin Conns /\ Conns' = Conns \cup {e} /\ e \in ConnNames
        /\ e[1] = Home[t] /\ e[2] = c.hook
        /\ wire'[e] = <<>> /\ \A x \in Conns : wire'[x] = wire[x]
    BY <1>3, <2>1, Connecting
  <2>3. PICK d : d = [c EXCEPT !.at = at, !.conn = e]
    OBVIOUS
  <2>4. /\ d \in Calls /\ d.op = "report" /\ d.hook = c.hook /\ d.at = at /\ d.conn = e
    BY <1>2, <1>3, <1>5, <2>2, <2>3 DEF Calls, Labels, Fields
  <2>5. ~Owns(d) /\ IsReport(d)
    BY <1>7, <2>4 DEF Owns, IsReport
  <2>6. PICK n : n = <<d>> \o r
    OBVIOUS
  <2>7. CallsIn(n) = {d} \cup CallsIn(r)
    BY <1>3, <2>4, <2>6, CallsOf
  <2>8. stack' = [stack EXCEPT ![t] = n]
    BY <1>5, <1>7, <2>3, <2>6
  <2>9. /\ CallsIn(stack'[t]) = {d} \cup CallsIn(r)
        /\ \A u \in Threads \ {t} : stack'[u] = stack[u]
    BY <1>3, <2>7, <2>8
  <2>10. Midway(d, wire'[e])
    BY <1>5, <2>2, <2>4 DEF Midway, AtRest
  <2>11. ASSUME NEW u \in Threads, NEW b \in CallsIn(stack'[u]),
                Owns(b), b.hook \in Hooks, lib'[Home[u]][b.hook].sock \in Conns' \ shared
         PROVE  Midway(b, wire'[lib'[Home[u]][b.hook].sock])
    <3>1. b \in CallsIn(stack[u]) /\ Home[u] \in Procs
      BY <1>3, <2>5, <2>9, <2>11, InterposerAssumption
    <3>2. PICK x : x = lib[Home[u]][b.hook].sock
      OBVIOUS
    <3>3. x \in Conns \ shared
      BY <1>0, <1>2, <1>7, <2>2, <2>11, <3>1, <3>2 DEF TypeOK
    <3>4. Midway(b, wire[x])
      BY <1>0, <2>11, <3>1, <3>2, <3>3, OwnedMidway
    <3> QED
      BY <1>2, <2>2, <3>2, <3>3, <3>4
  <2>12. ASSUME NEW u \in Threads, NEW b \in CallsIn(stack'[u]), IsReport(b)
         PROVE  /\ Midway(b, wire'[b.conn])
                /\ \/ \E a \in CallsIn(stack[u]) : IsReport(a) /\ a.conn = b.conn /\ a.hook = b.hook
                   \/ u = t /\ b.conn = e /\ b.hook = e[2]
    <3>1. CASE u = t /\ b = d
      BY <2>2, <2>4, <2>10, <3>1
    <3>2. CASE ~(u = t /\ b = d)
      <4>1. b \in CallsIn(stack[u])
        BY <1>3, <2>9, <3>2
      <4>2. Midway(b, wire[b.conn]) /\ b.conn \in Conns
        BY <1>0, <2>12, <4>1, Calling DEF ReportConns, IsReport
      <4> QED
        BY <2>2, <2>12, <4>1, <4>2
    <3> QED
      BY <3>1, <3>2
  <2>13. ASSUME NEW b \in CallsIn(stack[t]), IsReport(b)
         PROVE  \E a \in CallsIn(stack'[t]) : IsReport(a) /\ b.conn = a.conn
    <3>1. b = c
      BY <1>1, <2>13, OnlyReport DEF IsReport
    <3> QED
      BY <1>4, <2>13, <3>1 DEF IsReport
  <2>14. \E b \in CallsIn(stack'[t]) : IsReport(b) /\ b.conn = e
    BY <2>4, <2>5, <2>9
  <2>15. \A p \in Procs : \A h \in Hooks :
            /\ lib'[p][h].sock = lib[p][h].sock /\ lib'[p][h].initialized = lib[p][h].initialized
            /\ lib'[p][h].mutex = lib[p][h].mutex
    BY <1>2
  <2> QED
    BY <1>2, <1>7, <2>2, <2>9, <2>11, <2>12, <2>13, <2>14, <2>15, ConnectStep
<1> QED
  BY <1>6, <1>7

LEMMA LockWires ==
  ASSUME CallInv, WireInv, NEW t \in Threads, Lock(t)
  PROVE  WireInv'
<1>0. LibConns /\ ReportConns /\ TypeOK /\ NoConn \notin Conns
  BY DEF WireInv, CallInv, TypeOK
<1>1. PICK c, r, l, d, at : /\ c = Top(t) /\ r = Tail(stack[t]) /\ l = Lib(t)
                            /\ at = "real" /\ d = Placed(c, at)
  OBVIOUS
<1>2. /\ stack[t] # <<>> /\ c.op = "call" /\ c.at = "lock" /\ l.mutex = None
      /\ Goto(t, at) /\ shared' = shared
  BY <1>1 DEF Lock, In
<1>3. /\ CallsIn(stack[t]) = {c} \cup CallsIn(r)
      /\ c \in CallsIn(stack[t]) /\ c \in Calls /\ Form(c)
  BY <1>1, <1>2, TopCalls
<1>4. PICK h \in Hooks : h = c.hook
  BY <1>2, <1>3 DEF Form
<1>5. Home[t] \in Procs /\ l = lib[Home[t]][h]
  BY <1>1, <1>4, InterposerAssumption DEF Lib
<1>6. /\ l \in Library /\ (~l.initialized => l.sock = NoConn)
      /\ l.sock \in Conns \ shared => AtRest(wire[l.sock])
  <2>1. LibConn(Home[t], h)
    BY <1>0, <1>5 DEF LibConns
  <2> QED
    BY <1>0, <1>2, <1>5, <2>1 DEF TypeOK, LibConn, CallInv, LibInv, LibState
<1>7. d.op = c.op /\ d.at = at /\ d.hook = c.hook
  BY <1>1, PlacedCall
<1>8. at \in Labels
  BY <1>1 DEF Labels
<1>9. Replaces(t, c, {d}, r)
  BY <1>1, <1>2, <1>8, GotoCalls
<1>10. /\ CallsIn(stack'[t]) = {d} \cup CallsIn(r)
       /\ \A u \in Threads \ {t} : stack'[u] = stack[u]
  BY <1>9 DEF Replaces
<1>11. ~IsReport(d) /\ \A b \in CallsIn(stack[t]) : ~IsReport(b)
  <2>1. \A b \in CallsIn(stack[t]) : ~IsReport(b)
    BY <1>1, <1>2, NoReports
  <2>2. ~IsReport(d)
    BY <1>2, <1>7 DEF IsReport
  <2> QED
    BY <2>1, <2>2
<1>12. \A b \in CallsIn(stack'[t]) : ~IsReport(b)
  BY <1>3, <1>10, <1>11
<1>13. \A w : AtRest(w) => Midway(d, w)
  BY <1>1, <1>7 DEF Midway
<1>14. ASSUME NEW m, SetLib(t, m)
       PROVE  /\ lib'[Home[t]][h] = m
              /\ \A p \in Procs : \A k \in Hooks : p # Home[t] \/ k # h => lib'[p][k] = lib[p][k]
  BY <1>1, <1>4, <1>14, SetsLib
<1>15. CASE l.initialized /\ SetLib(t, [l EXCEPT !.mutex = t]) /\ UNCHANGED wire
  <2>1. PICK m : m = [l EXCEPT !.mutex = t]
    OBVIOUS
  <2>2. m.mutex = t /\ m.sock = l.sock /\ m.initialized = l.initialized
    BY <1>6, <2>1 DEF Library
  <2>3. /\ lib'[Home[t]][h] = m
        /\ \A p \in Procs : \A k \in Hooks : p # Home[t] \/ k # h => lib'[p][k] = lib[p][k]
    BY <1>14, <1>15, <2>1
  <2>4. PICK D : D = {d}
    OBVIOUS
  <2>5. \A b \in D :
          /\ ~IsReport(b)
          /\ Owns(b) /\ b.hook \in Hooks /\ lib[Home[t]][b.hook].sock \in Conns \ shared
               => Midway(b, wire[lib[Home[t]][b.hook].sock])
    BY <1>4, <1>5, <1>6, <1>7, <1>11, <1>13, <2>4
  <2>6. \A p \in Procs : \A k \in Hooks :
            /\ lib'[p][k].sock = lib[p][k].sock /\ lib'[p][k].initialized = lib[p][k].initialized
            /\ lib'[p][k].mutex = None /\ lib[p][k].sock \in Conns \ shared
                 => lib[p][k].mutex = None \/ AtRest(wire[lib[p][k].sock])
    BY <1>2, <1>5, <2>2, <2>3
  <2>7. CallsIn(stack'[t]) \subseteq D \cup CallsIn(stack[t])
    BY <1>3, <1>10, <2>4
  <2> QED
    BY <1>2, <1>10, <1>11, <1>15, <2>5, <2>6, <2>7, SilentCalls
<1>16. ASSUME ~l.initialized, NEW m,
              m = [mutex |-> t, initialized |-> TRUE, next |-> TRUE, sock |-> NoConn],
              SetLib(t, m), wire' = wire
       PROVE  WireInv'
  <2>1. /\ lib'[Home[t]][h] = m
        /\ \A p \in Procs : \A k \in Hooks : p # Home[t] \/ k # h => lib'[p][k] = lib[p][k]
    BY <1>14, <1>16
  <2>2. m.sock = NoConn
    BY <1>16
  <2>3. \A p \in Procs : \A k \in Hooks :
        \/ lib'[p][k].sock = lib[p][k].sock /\ lib'[p][k].initialized = lib[p][k].initialized
        \/ lib'[p][k].sock = NoConn /\ (lib[p][k].sock \in Conns \ shared => Ended(lib[p][k].sock))
    BY <1>0, <1>5, <1>6, <1>16, <2>1, <2>2
  <2>4. \A p \in Procs : \A k \in Hooks :
            lib'[p][k].sock \in Conns \ shared /\ lib'[p][k].mutex = None
              => lib[p][k].mutex = None \/ AtRest(wire[lib'[p][k].sock])
    BY <1>0, <2>1, <2>2
  <2>5. ASSUME NEW b \in CallsIn(stack'[t]),
              Owns(b), b.hook \in Hooks, lib'[Home[t]][b.hook].sock \in Conns \ shared
        PROVE  Midway(b, wire[lib'[Home[t]][b.hook].sock])
    <3>1. b.hook # h
      BY <1>0, <2>1, <2>2, <2>5
    <3>2. b \in CallsIn(stack[t]) /\ lib'[Home[t]][b.hook] = lib[Home[t]][b.hook]
      BY <1>3, <1>4, <1>5, <1>7, <1>10, <2>1, <2>5, <3>1
    <3> QED
      BY <1>0, <2>5, <3>2, OwnedMidway
  <2> QED
    BY <1>2, <1>10, <1>11, <1>12, <1>16, <2>3, <2>4, <2>5, SilentStep
<1>17. ASSUME ~l.initialized, NEW e, e = NewConn(Home[t], h), Connect(e), NEW m,
              m = [mutex |-> t, initialized |-> TRUE, next |-> TRUE, sock |-> e],
              SetLib(t, m)
       PROVE  WireInv'
  <2>1. /\ lib'[Home[t]][h] = m
        /\ \A p \in Procs : \A k \in Hooks : p # Home[t] \/ k # h => lib'[p][k] = lib[p][k]
    BY <1>14, <1>17
  <2>2. m.sock = e /\ m.mutex = t /\ m.initialized
    BY <1>17
  <2>3. h \in Names
    BY DEF Names
  <2>4. /\ e \notin Conns /\ Conns' = Conns \cup {e} /\ e # NoConn
        /\ e[1] = Home[t] /\ e[2] = h
        /\ wire'[e] = <<>> /\ \A x \in Conns : wire'[x] = wire[x]
    BY <1>5, <1>17, <2>3, Connecting
  <2>5. \A p \in Procs : \A k \in Hooks :
            \/ /\ lib'[p][k].sock = lib[p][k].sock /\ lib'[p][k].initialized = lib[p][k].initialized
               /\ lib'[p][k].mutex = lib[p][k].mutex
            \/ /\ p = e[1] /\ k = e[2] /\ lib'[p][k].sock = e /\ lib'[p][k].initialized
               /\ lib'[p][k].mutex # None /\ ~lib[p][k].initialized
    BY <1>5, <1>17, <2>1, <2>2, <2>4, InterposerAssumption
  <2>6. e[2] \in Hooks /\ lib'[e[1]][e[2]].sock = e /\ lib'[e[1]][e[2]].initialized
    BY <2>1, <2>2, <2>4
  <2>7. ASSUME NEW u \in Threads, NEW b \in CallsIn(stack'[u]),
               Owns(b), b.hook \in Hooks, lib'[Home[u]][b.hook].sock \in Conns' \ shared
        PROVE  Midway(b, wire'[lib'[Home[u]][b.hook].sock])
    <3>1. Home[u] \in Procs
      BY InterposerAssumption
    <3>2. CASE b \in CallsIn(stack[u])
      <4>1. lib[Home[u]][b.hook].mutex = u
        BY <1>0, <2>7, <3>2, OwnedMidway
      <4>2. Home[u] # Home[t] \/ b.hook # h
        BY <1>2, <1>5, <4>1, InterposerAssumption
      <4>3. PICK x : x = lib[Home[u]][b.hook].sock
        OBVIOUS
      <4>4. lib'[Home[u]][b.hook].sock = x
        BY <2>1, <2>7, <3>1, <4>2, <4>3
      <4>5. x \in Conns \ shared
        BY <1>0, <2>4, <2>7, <3>1, <4>3, <4>4 DEF TypeOK
      <4>6. Midway(b, wire[x])
        BY <1>0, <2>7, <3>2, <4>3, <4>5, OwnedMidway
      <4> QED
        BY <2>4, <4>4, <4>5, <4>6
    <3>3. CASE b \notin CallsIn(stack[u])
      <4>1. u = t /\ b = d
        BY <1>3, <1>10, <3>3
      <4>2. lib'[Home[u]][b.hook].sock = e
        BY <1>4, <1>7, <2>1, <2>2, <4>1
      <4> QED
        BY <1>13, <2>4, <4>1, <4>2 DEF AtRest
    <3> QED
      BY <3>2, <3>3
  <2>8. ASSUME NEW u \in Threads, NEW b \in CallsIn(stack'[u]), IsReport(b)
        PROVE  /\ Midway(b, wire'[b.conn])
               /\ \/ \E a \in CallsIn(stack[u]) : IsReport(a) /\ a.conn = b.conn /\ a.hook = b.hook
                  \/ u = t /\ b.conn = e /\ b.hook = e[2]
    <3>1. b \in CallsIn(stack[u])
      BY <1>10, <1>12, <2>8
    <3>2. Midway(b, wire[b.conn]) /\ b.conn \in Conns
      BY <1>0, <2>8, <3>1, Calling DEF ReportConns, IsReport
    <3> QED
      BY <2>4, <2>8, <3>1, <3>2
  <2> QED
    BY <1>2, <1>10, <1>11, <2>4, <2>5, <2>6, <2>7, <2>8, ConnectStep
<1>18. \/ l.initialized /\ SetLib(t, [l EXCEPT !.mutex = t]) /\ UNCHANGED wire
       \/ ~l.initialized /\ \E e \in Sockets(Home[t], h) :
            /\ IF e = NoConn THEN UNCHANGED wire ELSE Connect(e)
            /\ SetLib(t, [mutex |-> t, initialized |-> TRUE, next |-> TRUE, sock |-> e])
  BY <1>1, <1>4 DEF Lock
<1>19. ASSUME ~l.initialized, NEW e \in Sockets(Home[t], h),
              IF e = NoConn THEN UNCHANGED wire ELSE Connect(e),
              SetLib(t, [mutex |-> t, initialized |-> TRUE, next |-> TRUE, sock |-> e])
       PROVE  WireInv'
  <2>1. PICK m : m = [mutex |-> t, initialized |-> TRUE, next |-> TRUE, sock |-> e]
    OBVIOUS
  <2>2. CASE e = NoConn
    BY <1>16, <1>19, <2>1, <2>2
  <2>3. CASE e # NoConn
    <3>1. e = NewConn(Home[t], h) /\ Connect(e)
      BY <1>19, <2>3 DEF Sockets
    <3> QED
      BY <1>17, <1>19, <2>1, <3>1
  <2> QED
    BY <2>2, <2>3
<1> QED
  BY <1>15, <1>18, <1>19

LEMMA WireInit == Init => WireInv
<1> SUFFICES ASSUME Init PROVE WireInv
  OBVIOUS
<1>1. Conns = {} /\ shared = {}
  BY DEF Init, Conns
<1>2. \A t \in Threads : CallsIn(stack[t]) = {}
  BY DEF Init, CallsIn
<1>3. \A p \in Procs : \A h \in Hooks : lib[p][h].sock = NoConn
  BY DEF Init, Unloaded
<1>4. NoConn \notin Conns
  BY <1>1
<1>5. LibConns
  BY <1>1, <1>3, <1>4 DEF LibConns, LibConn
<1>6. ReportConns
  BY <1>2 DEF ReportConns
<1>7. WholeFrames /\ OneOpenConnection
  BY <1>1 DEF WholeFrames, OneOpenConnection
<1> QED
  BY <1>5, <1>6, <1>7 DEF WireInv

LEMMA WireNext ==
  ASSUME CallInv, WireInv, [Next]_vars
  PROVE  WireInv'
<1>1. CASE UNCHANGED vars
  <2>1. UNCHANGED <<stack, lib, wire, shared>>
    BY <1>1 DEF vars
  <2>2. CASE Threads = {}
    <3>1. Conns' = Conns
      BY <2>1 DEF Conns
    <3>2. LibConns' /\ ReportConns'
      BY <2>1, <2>2, <3>1 DEF WireInv, LibConns, LibConn, ReportConns
    <3>3. WholeFrames'
      BY <2>1, <3>1, Frames, FramesLater DEF WireInv
    <3>4. OneOpenConnection'
      BY <2>1, <2>2, <3>1 DEF WireInv, OneOpenConnection, Ended
    <3> QED
      BY <3>2, <3>3, <3>4 DEF WireInv
  <2>3. CASE Threads # {}
    BY <2>1, <2>3, StayingWires
  <2> QED
    BY <2>2, <2>3
<1>2. ASSUME NEW t \in Threads, Proceed(t) \/ Begin(t)
      PROVE  WireInv'
  <2>1. CASE HookStep(t)
    BY <2>1, CheckFinalizedWires, ForwardWires, LockWires, RealCallWires, WriteFieldWires,
       UnlockWires DEF HookStep
  <2>2. CASE CleanupStep(t)
    BY <2>2, CleanupLockWires, CleanupDoneWires, CleanupCloseWires, CleanupResetWires DEF CleanupStep
  <2>3. CASE ReportStep(t)
    BY <2>3, ExitReportTestWires, ReportConnectWires, ReportFieldWires, ReportDoneWires,
       ReportCloseWires DEF ReportStep
  <2>4. CASE (\E h \in Hooks : Fini(t, h)) \/ ExitHandler(t) \/ End(t) \/ RealExecve(t)
    BY <2>4, FiniWires, ExitHandlerWires, EndWires, RealExecveWires
  <2>5. CASE Begin(t)
    BY <2>5, CallHookWires, ExitWires, ExecveWires, ForkWires DEF Begin
  <2> QED
    BY <1>2, <2>1, <2>2, <2>3, <2>4, <2>5 DEF Proceed
<1> QED
  BY <1>1, <1>2 DEF Next

\* A connection that nobody shares is used by one call or report at a time, and that one is
\* as far as its place says: the mutex of a library, and a report's having its connection to
\* itself, keep others from sending in between.
THEOREM ConnectionsInTurn == Spec => []WireInv
<1>1. Init => WireInv
  BY WireInit
<1>2. CallInv /\ WireInv /\ [Next]_vars => WireInv'
  BY WireNext
<1>3. Spec => []CallInv
  BY CallsNestAndLock
<1> QED
  BY <1>1, <1>2, <1>3, PTL DEF Spec

\* The events of a process reach the observer whole, one after another, and nothing follows
\* DONE, for any number of threads, on every connection that no fork() has shared.
THEOREM FramesStayWhole == Spec => []WholeFrames
<1>1. WireInv => WholeFrames
  BY DEF WireInv
<1> QED
  BY <1>1, ConnectionsInTurn, PTL

\* A connection that is no longer in use has been ended with DONE.
THEOREM LeavesNoneOpen == Spec => []OneOpenConnection
<1>1. WireInv => OneOpenConnection
  BY DEF WireInv
<1> QED
  BY <1>1, ConnectionsInTurn, PTL

-----------------------------------------------------------------------------
(* What is reported. *)

LEMMA OneSent ==
  ASSUME TypeOK, EventsOnce, NEW s \in Conns, NEW e
  PROVE  Cardinality(Sent(s, e)) <= 1
<1>1. ASSUME NEW i \in Sent(s, e) PROVE Sent(s, e) = {i}
  <2>1. i \in DOMAIN wire[s] /\ wire[s][i] = Item(e, "BODY") /\ wire[s][i].kind = "BODY"
    BY <1>1 DEF Sent, Item
  <2>2. \A j \in DOMAIN wire[s] : wire[s][j] = wire[s][i] => j = i
    BY <2>1 DEF EventsOnce, SentOnce
  <2> QED
    BY <2>1, <2>2 DEF Sent
<1>2. CASE Sent(s, e) = {}
  <2>1. Cardinality(Sent(s, e)) = 0
    BY <1>2, FS_EmptySet
  <2> QED
    BY <2>1
<1>3. CASE Sent(s, e) # {}
  <2>1. PICK i \in Sent(s, e) : TRUE
    BY <1>3
  <2>2. Cardinality({i}) = 1
    BY FS_Singleton
  <2>3. Cardinality(Sent(s, e)) = 1
    BY <1>1, <2>1, <2>2
  <2> QED
    BY <2>3
<1> QED
  BY <1>2, <1>3

LEMMA ReportedParts ==
  ASSUME TypeOK, EventsOnce, RealCalls, Complete, Ordered
  PROVE  ReportedInOrder
<1> SUFFICES ASSUME NEW p \in Procs, NEW h \in Hooks, NEW real, real = effects[p][h]
             PROVE  /\ \A a \in DOMAIN real : \A c \in {real[a][2]} \ {NoConn} :
                          /\ Cardinality(Sent(c, real[a][1])) <= 1
                          /\ h \notin MaySkip /\ ~Inside(real[a][1]) => Sent(c, real[a][1]) # {}
                    /\ \A a, b \in DOMAIN real : \A c \in {real[a][2]} \ shared :
                          a < b /\ c # NoConn =>
                              \A i \in Sent(c, real[a][1]) : \A j \in Sent(c, real[b][1]) : i < j
  BY DEF ReportedInOrder
<1>1. ASSUME NEW a \in DOMAIN real, NEW c \in {real[a][2]} \ {NoConn}
      PROVE  /\ Cardinality(Sent(c, real[a][1])) <= 1
             /\ h \notin MaySkip /\ ~Inside(real[a][1]) => Sent(c, real[a][1]) # {}
  <2>1. c \in Conns
    BY <1>1 DEF RealCalls
  <2>2. Cardinality(Sent(c, real[a][1])) <= 1
    BY <2>1, OneSent
  <2>3. h \notin MaySkip /\ ~Inside(real[a][1]) => Sent(c, real[a][1]) # {}
    BY <1>1 DEF Complete
  <2> QED
    BY <2>2, <2>3
<1>2. ASSUME NEW a \in DOMAIN real, NEW b \in DOMAIN real, NEW c \in {real[a][2]} \ shared,
             a < b, c # NoConn
      PROVE  \A i \in Sent(c, real[a][1]) : \A j \in Sent(c, real[b][1]) : i < j
  BY <1>2 DEF Ordered
<1> QED
  BY <1>1, <1>2

\* A wire v on which no event has been sent in full that had not been on w.
SameBodies(w, v) ==
    /\ \A i \in DOMAIN w : i \in DOMAIN v /\ v[i] = w[i]
    /\ \A i \in DOMAIN v : v[i].kind = "BODY" => i \in DOMAIN w

\* Connections are made, and no event is sent in full.
NoBodies ==
    /\ Conns \subseteq Conns' /\ shared \subseteq shared'
    /\ \A x \in Conns : SameBodies(wire[x], wire'[x])
    /\ \A x \in Conns' \ Conns : wire'[x] = <<>>

\* Threads go on to new events only.
Later == \A t \in Threads : made'[t] \in Nat /\ made[t] <= made'[t]

LEMMA SameSent ==
  ASSUME NoBodies, NEW s \in Conns, NEW e
  PROVE  Sent(s, e)' = Sent(s, e)
<1>1. SameBodies(wire[s], wire'[s])
  BY DEF NoBodies
<1>2. ASSUME NEW i \in Sent(s, e) PROVE i \in DOMAIN wire'[s] /\ wire'[s][i] = Item(e, "BODY")
  BY <1>1, <1>2 DEF Sent, SameBodies
<1>3. ASSUME NEW i \in DOMAIN wire'[s], wire'[s][i] = Item(e, "BODY") PROVE i \in Sent(s, e)
  <2>1. wire'[s][i].kind = "BODY"
    BY <1>3 DEF Item
  <2>2. i \in DOMAIN wire[s]
    BY <1>1, <1>3, <2>1 DEF SameBodies
  <2> QED
    BY <1>1, <1>3, <2>2 DEF Sent, SameBodies
<1> QED
  BY <1>2, <1>3 DEF Sent

LEMMA StillBegun ==
  ASSUME TypeOK, Later, NEW e, e[1] \in Threads, e[2] \in Nat, Begun(e)
  PROVE  Begun(e)'
<1>1. made[e[1]] \in Nat /\ made'[e[1]] \in Nat /\ made[e[1]] <= made'[e[1]]
  BY DEF TypeOK, Later
<1> QED
  BY <1>1 DEF Begun

\* The event of an item that has been sent.
LEMMA ItemEvent ==
  ASSUME TypeOK, NEW x \in Conns, NEW i \in DOMAIN wire[x]
  PROVE  /\ wire[x][i].ev[1] \in Threads /\ wire[x][i].ev[2] \in Nat
         /\ wire[x][i] = Item(wire[x][i].ev, wire[x][i].kind)
<1>1. wire[x] \in Seq(Items)
  BY DEF TypeOK, Items
<1>2. wire[x][i] \in Items
  BY <1>1
<1> QED
  BY <1>2 DEF Items, Events, Item

\* The event of a real call.
LEMMA RealEvent ==
  ASSUME TypeOK, NEW p \in Procs, NEW h \in Hooks, NEW a \in DOMAIN effects[p][h]
  PROVE  /\ effects[p][h][a][1][1] \in Threads /\ effects[p][h][a][1][2] \in Nat
         /\ effects[p][h][a][1] \in Events /\ Len(effects[p][h]) \in Nat
         /\ DOMAIN effects[p][h] = 1 .. Len(effects[p][h])
<1>1. effects[p][h] \in Seq(Events \X ConnNames)
  BY DEF TypeOK
<1>2. effects[p][h][a] \in Events \X ConnNames
  BY <1>1
<1> QED
  BY <1>1, <1>2 DEF Events

\* A step of thread t that neither calls a real function nor sends an event in full.
\* D is what it begins or moves.
LEMMA QuietOrder ==
  ASSUME CallInv, WireInv, OrderInv, NEW t \in Threads, Later, NoBodies, effects' = effects,
         \A u \in Threads \ {t} : stack'[u] = stack[u],
         NEW D,
         \A d \in CallsIn(stack'[t]) : d \in D \/ (d \in CallsIn(stack[t]) /\ d.op # "call"),
         \A d \in D : /\ d.ev[1] = t /\ d.ev[2] \in Nat /\ d.ev[2] <= made'[t]
                      /\ Unsent(d) => \/ d.ev[2] > made[t]
                                      \/ \E c \in CallsIn(stack[t]) : Unsent(c) /\ c.ev = d.ev
                      /\ Unmade(d) => \/ d.ev[2] > made[t]
                                      \/ \E c \in CallsIn(stack[t]) : Unmade(c) /\ c.ev = d.ev
                      /\ Told(d) => Reports(d, lib[Home[t]][d.hook], effects[Home[t]][d.hook])',
         \A p \in Procs : \A h \in Hooks :
            lib'[p][h].sock = lib[p][h].sock \/ lib[p][h].mutex \in {None, t},
         \A c \in CallsIn(stack[t]) : c.op = "call" =>
            \/ \E d \in CallsIn(stack'[t]) : d.op = "call" /\ d.ev = c.ev
            \/ \A p \in Procs : \A h \in Hooks \ MaySkip : \A a \in DOMAIN effects[p][h] :
                  effects[p][h][a][1] = c.ev /\ effects[p][h][a][2] # NoConn
                    => Sent(effects[p][h][a][2], c.ev) # {}
  PROVE  OrderInv'
<1>0. /\ TypeOK /\ EventNumbers /\ EventsOnce /\ RealCalls /\ Reporting
      /\ Complete /\ Ordered
  BY DEF OrderInv, CallInv
<1>1. \A u \in Threads : \A c \in CallsIn(stack[u]) :
         c.ev[1] = u /\ c.ev[2] \in Nat /\ c.ev[1] \in Threads /\ Begun(c.ev) /\ c.hook \in Names
  <2> SUFFICES ASSUME NEW u \in Threads, NEW c \in CallsIn(stack[u])
               PROVE  c.ev[1] = u /\ c.ev[2] \in Nat /\ c.ev[1] \in Threads /\ Begun(c.ev) /\ c.hook \in Names
    OBVIOUS
  <2>1. c \in Calls
    BY <1>0 DEF CallsIn, TypeOK
  <2>2. c.ev \in Events /\ c.hook \in Names
    BY <2>1 DEF Calls
  <2>3. c.ev[2] \in Nat
    BY <2>2 DEF Events
  <2> QED
    BY <1>0, <2>2, <2>3 DEF EventNumbers
<1>2. EventNumbers'
  <2> SUFFICES ASSUME NEW u \in Threads, NEW d \in CallsIn(stack'[u])
               PROVE  d.ev[1] = u /\ Begun(d.ev)'
    BY DEF EventNumbers
  <2>1. CASE d \in CallsIn(stack[u])
    <3>1. d.ev[1] = u /\ d.ev[2] \in Nat /\ Begun(d.ev)
      BY <1>1, <2>1
    <3> QED
      BY <1>0, <3>1, StillBegun
  <2>2. CASE d \notin CallsIn(stack[u])
    <3>1. u = t /\ d \in D
      BY <2>2
    <3> QED
      BY <3>1 DEF Begun
  <2> QED
    BY <2>1, <2>2
<1>3. EventsOnce'
  <2> SUFFICES ASSUME NEW x \in Conns', NEW i \in DOMAIN wire'[x], wire'[x][i].kind = "BODY"
               PROVE  /\ Begun(wire[x][i].ev)'
                      /\ \A j \in DOMAIN wire'[x] : wire'[x][j] = wire'[x][i] => j = i
                      /\ \A u \in Threads : \A c \in CallsIn(stack'[u]) : Unsent(c) => c.ev # wire'[x][i].ev
    BY DEF EventsOnce, SentOnce
  <2>1. x \in Conns
    BY DEF NoBodies
  <2>2. SameBodies(wire[x], wire'[x])
    BY <2>1 DEF NoBodies
  <2>3. i \in DOMAIN wire[x] /\ wire'[x][i] = wire[x][i]
    BY <2>2 DEF SameBodies
  <2>4. PICK e : e = wire[x][i].ev
    OBVIOUS
  <2>5. /\ Begun(e) /\ e[1] \in Threads /\ e[2] \in Nat
        /\ \A j \in DOMAIN wire[x] : wire[x][j] = wire[x][i] => j = i
        /\ \A u \in Threads : \A c \in CallsIn(stack[u]) : Unsent(c) => c.ev # e
    BY <1>0, <2>1, <2>3, <2>4, ItemEvent DEF EventsOnce, SentOnce
  <2>6. Begun(e)'
    BY <1>0, <2>5, StillBegun
  <2>7. ASSUME NEW j \in DOMAIN wire'[x], wire'[x][j] = wire'[x][i] PROVE j = i
    <3>1. j \in DOMAIN wire[x] /\ wire'[x][j] = wire[x][j]
      BY <2>2, <2>7 DEF SameBodies
    <3> QED
      BY <2>3, <2>5, <2>7, <3>1
  <2>8. ASSUME NEW u \in Threads, NEW d \in CallsIn(stack'[u]), Unsent(d), d.ev = e PROVE FALSE
    <3>1. CASE d \in CallsIn(stack[u])
      BY <2>5, <2>8, <3>1
    <3>2. CASE d \notin CallsIn(stack[u])
      <4>1. u = t /\ d \in D /\ d.ev[1] = t
        BY <3>2
      <4>2. ~\E c \in CallsIn(stack[t]) : Unsent(c) /\ c.ev = d.ev
        BY <2>5, <2>8
      <4>3. d.ev[2] > made[t]
        BY <2>8, <4>1, <4>2
      <4> QED
        BY <1>0, <2>5, <2>8, <4>1, <4>3 DEF Begun, TypeOK
    <3> QED
      BY <3>1, <3>2
  <2>9. wire'[x][i].ev = e
    BY <2>3, <2>4
  <2> QED
    BY <2>6, <2>7, <2>8, <2>9
<1>4. RealCalls'
  <2> SUFFICES ASSUME NEW p \in Procs, NEW h \in Hooks, NEW a \in DOMAIN effects[p][h],
                      NEW e, e = effects[p][h][a][1], NEW s, s = effects[p][h][a][2]
               PROVE  /\ Home[e[1]] = p /\ Begun(e)'
                      /\ s # NoConn => s \in Conns' /\ s[2] \in Hooks
                      /\ \A b \in DOMAIN effects[p][h] : effects[p][h][b][1] = e => b = a
                      /\ \A k \in Hooks \ {h} : e \notin RealEvents(p, k)
                      /\ \A u \in Threads : \A c \in CallsIn(stack'[u]) : Unmade(c) => c.ev # e
    BY DEF RealCalls, RealEvents
  <2>1. /\ Home[e[1]] = p /\ Begun(e) /\ e[1] \in Threads /\ e[2] \in Nat
        /\ s # NoConn => s \in Conns /\ s[2] \in Hooks
        /\ \A b \in DOMAIN effects[p][h] : effects[p][h][b][1] = e => b = a
        /\ \A k \in Hooks \ {h} : e \notin RealEvents(p, k)
        /\ \A u \in Threads : \A c \in CallsIn(stack[u]) : Unmade(c) => c.ev # e
    BY <1>0, RealEvent DEF RealCalls
  <2>2. Begun(e)' /\ Conns \subseteq Conns'
    BY <1>0, <2>1, StillBegun DEF NoBodies
  <2>3. ASSUME NEW u \in Threads, NEW d \in CallsIn(stack'[u]), Unmade(d), d.ev = e PROVE FALSE
    <3>1. CASE d \in CallsIn(stack[u])
      BY <2>1, <2>3, <3>1
    <3>2. CASE d \notin CallsIn(stack[u])
      <4>1. u = t /\ d \in D /\ d.ev[1] = t
        BY <3>2
      <4>2. ~\E c \in CallsIn(stack[t]) : Unmade(c) /\ c.ev = d.ev
        BY <2>1, <2>3
      <4>3. d.ev[2] > made[t]
        BY <2>3, <4>1, <4>2
      <4> QED
        BY <1>0, <2>1, <2>3, <4>1, <4>3 DEF Begun, TypeOK
    <3> QED
      BY <3>1, <3>2
  <2> QED
    BY <2>1, <2>2, <2>3
<1>5. Reporting'
  <2> SUFFICES ASSUME NEW u \in Threads, NEW d \in CallsIn(stack'[u]), Told(d)
               PROVE  Reports(d, lib[Home[u]][d.hook], effects[Home[u]][d.hook])'
    BY DEF Reporting
  <2>1. CASE u = t
    <3>1. d \in D
      BY <2>1 DEF Told
    <3> QED
      BY <2>1, <3>1
  <2>2. CASE u # t
    <3>1. d \in CallsIn(stack[u])
      BY <2>2
    <3>2. PICK l, real : l = lib[Home[u]][d.hook] /\ real = effects[Home[u]][d.hook]
      OBVIOUS
    <3>3. Reports(d, l, real)
      BY <1>0, <3>1, <3>2 DEF Reporting
    <3>4. Owns(d) /\ d.hook \in Hooks /\ Home[u] \in Procs
      <4>1. Owns(d)
        BY DEF Told, Owns
      <4>2. Form(d)
        BY <3>1 DEF CallInv, StackInv, Shape, CallsIn
      <4> QED
        BY <4>1, <4>2, InterposerAssumption DEF Told, Form
    <3>5. l.mutex = u
      BY <3>1, <3>2, <3>4, OwnedMidway DEF WireInv
    <3>6. lib'[Home[u]][d.hook].sock = l.sock
      BY <2>2, <3>2, <3>4, <3>5, InterposerAssumption
    <3>7. l.sock \in Conns \cup {NoConn}
      BY <1>0, <3>2, <3>4 DEF TypeOK
    <3>8. l.sock # NoConn => Sent(l.sock, d.ev)' = Sent(l.sock, d.ev)
      BY <3>7, SameSent
    <3> QED
      BY <3>2, <3>3, <3>6, <3>8 DEF Reports
  <2> QED
    BY <2>1, <2>2
<1>6. Complete'
  <2> SUFFICES ASSUME NEW p \in Procs, NEW h \in Hooks \ MaySkip, NEW a \in DOMAIN effects[p][h],
                      NEW e, e = effects[p][h][a][1], NEW s, s = effects[p][h][a][2], s # NoConn
               PROVE  Inside(e)' \/ Sent(s, e)' # {}
    BY DEF Complete
  <2>1. s \in Conns
    BY <1>0 DEF RealCalls
  <2>2. Sent(s, e)' = Sent(s, e)
    BY <2>1, SameSent
  <2>3. CASE Sent(s, e) # {}
    BY <2>2, <2>3
  <2>4. CASE Sent(s, e) = {}
    <3>1. Inside(e)
      BY <1>0, <2>4 DEF Complete
    <3>2. PICK u \in Threads : \E c \in CallsIn(stack[u]) : c.op = "call" /\ c.ev = e
      BY <3>1 DEF Inside, CallsIn
    <3>3. PICK c \in CallsIn(stack[u]) : c.op = "call" /\ c.ev = e
      BY <3>2
    <3>4. \E d \in CallsIn(stack'[u]) : d.op = "call" /\ d.ev = e
      <4>1. CASE u # t
        BY <3>3, <4>1
      <4>2. CASE u = t
        BY <2>4, <3>3, <4>2
      <4> QED
        BY <4>1, <4>2
    <3> QED
      BY <3>4 DEF Inside, CallsIn
  <2> QED
    BY <2>3, <2>4
<1>7. Ordered'
  <2> SUFFICES ASSUME NEW p \in Procs, NEW h \in Hooks,
                      NEW a \in DOMAIN effects[p][h], NEW b \in DOMAIN effects[p][h], NEW s,
                      s = effects[p][h][a][2], a < b, s \notin shared', s # NoConn
               PROVE  \A i \in Sent(s, effects[p][h][a][1])' :
                         \A j \in Sent(s, effects[p][h][b][1])' : i < j
    BY DEF Ordered
  <2>1. s \in Conns /\ s \notin shared
    BY <1>0 DEF RealCalls, NoBodies
  <2>2. /\ Sent(s, effects[p][h][a][1])' = Sent(s, effects[p][h][a][1])
        /\ Sent(s, effects[p][h][b][1])' = Sent(s, effects[p][h][b][1])
    BY <2>1, SameSent
  <2> QED
    BY <1>0, <2>1, <2>2 DEF Ordered
<1> QED
  BY <1>2, <1>3, <1>4, <1>5, <1>6, <1>7 DEF OrderInv

\* The calls of a stack are typed, and only the innermost one may have an event to send.
LEMMA CallEvents ==
  ASSUME CallInv, EventNumbers, NEW u \in Threads, NEW c \in CallsIn(stack[u])
  PROVE  /\ c.ev[1] = u /\ c.ev[2] \in Nat /\ c.ev \in Events /\ Begun(c.ev) /\ Form(c) /\ c \in Calls
         /\ c.op \in {"call", "report"} => stack[u] # <<>> /\ c = Top(u)
<1>1. TypeOK /\ StackInv /\ stack[u] # <<>>
  BY DEF CallInv, CallsIn
<1>2. c \in Calls /\ Form(c)
  BY <1>1 DEF CallsIn, TypeOK, StackInv, Shape
<1>3. c.ev \in Events
  BY <1>2 DEF Calls
<1>4. c.ev[2] \in Nat
  BY <1>3 DEF Events
<1>5. c.op \in {"call", "report"} => c = Top(u)
  <2>1. PICK b, r : b = Top(u) /\ r = Tail(stack[u])
    OBVIOUS
  <2>2. CallsIn(stack[u]) = {b} \cup CallsIn(r)
    BY <1>1, <2>1, TopCalls
  <2>3. c \in CallsIn(r) => c.op \in {"exit", "exec", "cleanup"}
    BY <1>1, <2>1, RestOf
  <2> QED
    BY <2>1, <2>2, <2>3
<1> QED
  BY <1>1, <1>2, <1>3, <1>4, <1>5 DEF EventNumbers

SendsBody(e, s) ==
    /\ Conns' = Conns
    /\ wire'[s] = Append(wire[s], Item(e, "BODY"))
    /\ \A x \in Conns : x # s => wire'[x] = wire[x]

\* A real call of event e by a library with connection s is the latest of its library.
Latest(e, s) ==
    \A p \in Procs : \A h \in Hooks : \A a \in DOMAIN effects[p][h] :
       effects[p][h][a][1] = e /\ effects[p][h][a][2] = s => a = Len(effects[p][h])

\* A call or a report that sends its event in full, the last field being the body.
LEMMA BodyOrder ==
  ASSUME CallInv, WireInv, OrderInv, NEW t \in Threads, made' = made, effects' = effects,
         lib' = lib, shared' = shared,
         NEW c \in CallsIn(stack[t]), NEW r, NEW d, Replaces(t, c, {d}, r),
         c = Top(t), r = Tail(stack[t]),
         Unsent(c), ~Unsent(d), ~Unmade(d), d.op = c.op, d.ev = c.ev, d.hook = c.hook,
         NEW e \in Events, e = c.ev, NEW s \in Conns,
         SendsBody(e, s), Latest(e, s),
         Told(d) => Told(c) /\ s = lib[Home[t]][c.hook].sock
  PROVE  OrderInv'
<1> USE DEF SendsBody, Latest
<1>0. /\ TypeOK /\ EventNumbers /\ EventsOnce /\ RealCalls /\ Reporting
      /\ Complete /\ Ordered
  BY DEF OrderInv, CallInv
<1>1. /\ CallsIn(stack[t]) = {c} \cup CallsIn(r)
      /\ CallsIn(stack'[t]) = {d} \cup CallsIn(r)
      /\ \A u \in Threads \ {t} : stack'[u] = stack[u]
  BY DEF Replaces
<1>2. /\ c.ev[1] = t /\ c.ev[2] \in Nat /\ Begun(c.ev) /\ Form(c) /\ c \in Calls
      /\ c.op \in {"call", "report"} /\ stack[t] # <<>>
  BY <1>0, CallEvents DEF Unsent
<1>3. \A b \in CallsIn(r) : b.op \notin {"call", "report"}
  BY <1>2, RestOf
\* What is on the wire.
<1>4. PICK w \in Seq(Items), x \in Items : w = wire[s] /\ x = Item(e, "BODY")
  <2>1. wire[s] \in Seq(Items)
    BY <1>0 DEF TypeOK, Items
  <2>2. Item(e, "BODY") \in Items
    BY DEF Item, Items, Fields
  <2> QED
    BY <2>1, <2>2
<1>5. PICK n, v : v = wire'[s] /\ n = Len(w) + 1
  OBVIOUS
<1>6. w = wire[s] /\ v = wire'[s] /\ x = Item(e, "BODY") /\ v = Append(w, x) /\ n = Len(w) + 1
  BY <1>4, <1>5
<1>7. /\ v[n] = x /\ DOMAIN v = 1 .. n /\ n \in Nat /\ Len(w) \in Nat
      /\ DOMAIN w = 1 .. Len(w)
      /\ \A i \in DOMAIN w : v[i] = w[i]
  BY <1>6, AppendItem
<1>8. \A i \in DOMAIN v : i = n \/ (i \in DOMAIN w /\ i < n)
  BY <1>6, <1>7
<1>9. x.kind = "BODY" /\ x.ev = e
  BY <1>6 DEF Item
<1>10. \A i \in DOMAIN w : w[i] # x
  <2>1. SentOnce(w)
    BY <1>0, <1>6 DEF EventsOnce
  <2> QED
    BY <1>9, <2>1 DEF SentOnce
<1>11. \A y \in Conns : \A f : f # e \/ y # s => Sent(y, f)' = Sent(y, f)
  <2> SUFFICES ASSUME NEW y \in Conns, NEW f, f # e \/ y # s
               PROVE  Sent(y, f)' = Sent(y, f)
    OBVIOUS
  <2>1. CASE y # s
    BY <2>1 DEF Sent
  <2>2. CASE y = s
    <3>1. Item(f, "BODY") # x
      BY <1>9, <2>2 DEF Item
    <3>2. Sent(y, f) = {i \in DOMAIN w : w[i] = Item(f, "BODY")}
      BY <1>6, <2>2 DEF Sent
    <3>3. Sent(y, f)' = {i \in DOMAIN v : v[i] = Item(f, "BODY")}
      BY <1>6, <2>2 DEF Sent
    <3> QED
      BY <1>6, <1>7, <1>8, <3>1, <3>2, <3>3
  <2> QED
    BY <2>1, <2>2
<1>12. Sent(s, e) = {} /\ Sent(s, e)' = {n}
  <2>1. Sent(s, e) = {}
    BY <1>6, <1>10 DEF Sent
  <2>2. Sent(s, e)' = {i \in DOMAIN v : v[i] = x}
    BY <1>6 DEF Sent
  <2>3. n \in DOMAIN v
    BY <1>6, <1>7
  <2> QED
    BY <1>7, <1>8, <1>10, <2>1, <2>2, <2>3
<1>13. EventNumbers'
  <2> SUFFICES ASSUME NEW u \in Threads, NEW b \in CallsIn(stack'[u])
               PROVE  b.ev[1] = u /\ Begun(b.ev)
    BY DEF EventNumbers, Begun
  <2> QED
    BY <1>0, <1>1, <1>2 DEF EventNumbers
<1>14. \A u \in Threads : \A b \in CallsIn(stack'[u]) :
          /\ Unsent(b) => b \in CallsIn(stack[u]) /\ b.ev # e
          /\ Unmade(b) => b \in CallsIn(stack[u])
  <2> SUFFICES ASSUME NEW u \in Threads, NEW b \in CallsIn(stack'[u])
               PROVE  /\ Unsent(b) => b \in CallsIn(stack[u]) /\ b.ev # e
                      /\ Unmade(b) => b \in CallsIn(stack[u])
    OBVIOUS
  <2>1. CASE u = t
    BY <1>1, <1>3, <2>1 DEF Unsent, Unmade
  <2>2. CASE u # t
    <3>1. b \in CallsIn(stack[u])
      BY <1>1, <2>2
    <3>2. b.ev[1] = u
      BY <1>0, <3>1 DEF EventNumbers
    <3> QED
      BY <1>2, <2>2, <3>1, <3>2
  <2> QED
    BY <2>1, <2>2
<1>15. EventsOnce'
  <2> SUFFICES ASSUME NEW y \in Conns, NEW i \in DOMAIN wire'[y], wire'[y][i].kind = "BODY"
               PROVE  /\ Begun(wire[y][i].ev)'
                      /\ \A j \in DOMAIN wire'[y] : wire'[y][j] = wire'[y][i] => j = i
                      /\ \A u \in Threads : \A b \in CallsIn(stack'[u]) : Unsent(b) => b.ev # wire'[y][i].ev
    BY DEF EventsOnce, SentOnce
  <2>1. PICK f : f = wire'[y][i].ev
    OBVIOUS
  <2>2. Begun(f) => Begun(wire[y][i].ev)'
    BY <2>1 DEF Begun
  <2>3. CASE y = s /\ i = n
    <3>1. wire'[y][i] = x /\ f = e
      BY <1>6, <1>7, <1>9, <2>1, <2>3
    <3>2. \A j \in DOMAIN v : v[j] = x => j = n
      BY <1>7, <1>8, <1>10
    <3> QED
      BY <1>2, <1>6, <1>14, <2>1, <2>2, <2>3, <3>1, <3>2
  <2>4. CASE ~(y = s /\ i = n)
    <3>1. i \in DOMAIN wire[y] /\ wire'[y][i] = wire[y][i]
      BY <1>6, <1>7, <1>8, <2>4
    <3>2. /\ Begun(f)
          /\ \A j \in DOMAIN wire[y] : wire[y][j] = wire[y][i] => j = i
          /\ \A u \in Threads : \A b \in CallsIn(stack[u]) : Unsent(b) => b.ev # f
      BY <1>0, <2>1, <3>1 DEF EventsOnce, SentOnce
    <3>3. ASSUME NEW j \in DOMAIN wire'[y], wire'[y][j] = wire'[y][i] PROVE j = i
      <4>1. CASE y = s /\ j = n
        <5>1. wire'[y][j] = x
          BY <1>6, <1>7, <4>1
        <5>2. i \in DOMAIN w /\ w[i] = x
          BY <1>6, <3>1, <3>3, <4>1, <5>1
        <5> QED
          BY <1>10, <5>2
      <4>2. CASE ~(y = s /\ j = n)
        <5>1. j \in DOMAIN wire[y] /\ wire'[y][j] = wire[y][j]
          BY <1>6, <1>7, <1>8, <3>3, <4>2, SMTT(30)
        <5> QED
          BY <3>1, <3>2, <3>3, <5>1
      <4> QED
        BY <4>1, <4>2
    <3> QED
      BY <1>14, <2>1, <2>2, <3>2, <3>3
  <2> QED
    BY <2>3, <2>4
<1>16. RealCalls'
  <2> SUFFICES ASSUME NEW p \in Procs, NEW h \in Hooks, NEW a \in DOMAIN effects[p][h],
                      NEW f, f = effects[p][h][a][1], NEW y, y = effects[p][h][a][2]
               PROVE  /\ Home[f[1]] = p /\ Begun(f)
                      /\ y # NoConn => y \in Conns' /\ y[2] \in Hooks
                      /\ \A b \in DOMAIN effects[p][h] : effects[p][h][b][1] = f => b = a
                      /\ \A k \in Hooks \ {h} : f \notin RealEvents(p, k)
                      /\ \A u \in Threads : \A b \in CallsIn(stack'[u]) : Unmade(b) => b.ev # f
    BY DEF RealCalls, RealEvents, Begun
  <2> QED
    BY <1>0, <1>14 DEF RealCalls
<1>17. Reporting'
  <2> SUFFICES ASSUME NEW u \in Threads, NEW b \in CallsIn(stack'[u]), Told(b)
               PROVE  Reports(b, lib[Home[u]][b.hook], effects[Home[u]][b.hook])'
    BY DEF Reporting
  <2>1. CASE u = t
    <3>1. b = d
      BY <1>1, <1>3, <2>1 DEF Told
    <3>2. Reports(c, lib[Home[t]][c.hook], effects[Home[t]][c.hook])
      BY <1>0, <3>1 DEF Reporting
    <3>3. s = lib[Home[t]][c.hook].sock
      BY <3>1
    <3> QED
      BY <1>12, <2>1, <3>1, <3>2, <3>3 DEF Reports
  <2>2. CASE u # t
    <3>1. b \in CallsIn(stack[u])
      BY <1>1, <2>2
    <3>2. PICK l, real : l = lib[Home[u]][b.hook] /\ real = effects[Home[u]][b.hook]
      OBVIOUS
    <3>3. Reports(b, l, real)
      BY <1>0, <3>1, <3>2 DEF Reporting
    <3>4. b.hook \in Hooks /\ Home[u] \in Procs
      BY <1>0, <3>1, CallEvents, InterposerAssumption DEF Told, Form
    <3>5. l.sock \in Conns \cup {NoConn}
      BY <1>0, <3>2, <3>4 DEF TypeOK
    <3>6. l.sock # NoConn /\ Sent(l.sock, b.ev) # {} => Sent(l.sock, b.ev)' # {}
      BY <1>11, <1>12, <3>5
    <3> QED
      BY <3>2, <3>3, <3>6 DEF Reports
  <2> QED
    BY <2>1, <2>2
<1>18. Complete'
  <2> SUFFICES ASSUME NEW p \in Procs, NEW h \in Hooks \ MaySkip, NEW a \in DOMAIN effects[p][h],
                      NEW f, f = effects[p][h][a][1], NEW y, y = effects[p][h][a][2], y # NoConn
               PROVE  Inside(f)' \/ Sent(y, f)' # {}
    BY DEF Complete
  <2>1. y \in Conns
    BY <1>0 DEF RealCalls
  <2>2. CASE Sent(y, f) # {}
    BY <1>11, <1>12, <2>1, <2>2
  <2>3. CASE Sent(y, f) = {}
    <3>1. Inside(f)
      BY <1>0, <2>3 DEF Complete
    <3>2. PICK u \in Threads : \E b \in CallsIn(stack[u]) : b.op = "call" /\ b.ev = f
      BY <3>1 DEF Inside, CallsIn
    <3>3. \E b \in CallsIn(stack'[u]) : b.op = "call" /\ b.ev = f
      <4>1. CASE u # t
        BY <1>1, <3>2, <4>1
      <4>2. CASE u = t
        BY <1>1, <3>2, <4>2
      <4> QED
        BY <4>1, <4>2
    <3> QED
      BY <3>3 DEF Inside, CallsIn
  <2> QED
    BY <2>2, <2>3
<1>19. Ordered'
  <2> SUFFICES ASSUME NEW p \in Procs, NEW h \in Hooks,
                      NEW a \in DOMAIN effects[p][h], NEW b \in DOMAIN effects[p][h], NEW y,
                      y = effects[p][h][a][2], a < b, y \notin shared, y # NoConn,
                      NEW i \in Sent(y, effects[p][h][a][1])',
                      NEW j \in Sent(y, effects[p][h][b][1])'
               PROVE  i < j
    BY DEF Ordered
  <2>1. PICK f, g : f = effects[p][h][a][1] /\ g = effects[p][h][b][1]
    OBVIOUS
  <2>2. y \in Conns
    BY <1>0 DEF RealCalls
  <2>3. i \in Sent(y, f)' /\ j \in Sent(y, g)'
    BY <2>1
  <2>4. ~(f = e /\ y = s)
    <3>1. Len(effects[p][h]) \in Nat /\ DOMAIN effects[p][h] = 1 .. Len(effects[p][h])
      BY <1>0, RealEvent
    <3> QED
      BY <2>1, <3>1
  <2>5. i \in Sent(y, f)
    BY <1>11, <2>2, <2>3, <2>4
  <2>6. CASE g = e /\ y = s
    <3>1. j = n
      BY <1>12, <2>3, <2>6
    <3>2. i \in DOMAIN w
      BY <1>6, <2>5, <2>6 DEF Sent
    <3> QED
      BY <1>6, <1>7, <3>1, <3>2
  <2>7. CASE ~(g = e /\ y = s)
    <3>1. j \in Sent(y, g)
      BY <1>11, <2>2, <2>3, <2>7
    <3> QED
      BY <1>0, <2>1, <2>5, <3>1 DEF Ordered
  <2> QED
    BY <2>6, <2>7
<1> QED
  BY <1>13, <1>15, <1>16, <1>17, <1>18, <1>19 DEF OrderInv

\* The real function is called: the latest real call of the library, of an event that
\* has not been sent.
LEMMA RealOrder ==
  ASSUME CallInv, WireInv, OrderInv, NEW t \in Threads, RealCall(t)
  PROVE  OrderInv'
<1>0. /\ TypeOK /\ EventNumbers /\ EventsOnce /\ RealCalls /\ Reporting
      /\ Complete /\ Ordered
  BY DEF OrderInv, CallInv
<1>1. PICK c, r : c = Top(t) /\ r = Tail(stack[t])
  OBVIOUS
<1>2. /\ stack[t] # <<>> /\ c.op = "call" /\ c.at = "real"
      /\ wire' = wire /\ shared' = shared /\ lib' = lib /\ Conns' = Conns
  BY <1>1 DEF RealCall, In, Conns
<1>3. PICK at \in {"EVENT", "unlock"} :
         /\ Goto(t, at)
         /\ at = "unlock" => Lib(t).sock = NoConn \/ Top(t).hook \in MaySkip
  BY DEF RealCall
<1>4. PICK d : d = Placed(c, at)
  OBVIOUS
<1>5. d.op = "call" /\ d.hook = c.hook /\ d.at = at /\ d.ev = c.ev
  BY <1>2, <1>4, PlacedCall
<1>6. Replaces(t, c, {d}, r)
  <2>1. at \in Labels
    BY <1>3 DEF Labels, Fields
  <2> QED
    BY <1>1, <1>2, <1>3, <1>4, <2>1, GotoCalls
<1>7. /\ CallsIn(stack[t]) = {c} \cup CallsIn(r)
      /\ CallsIn(stack'[t]) = {d} \cup CallsIn(r)
      /\ \A u \in Threads \ {t} : stack'[u] = stack[u]
      /\ made' = made
  BY <1>3, <1>6 DEF Replaces, Goto
<1>8. c.ev[1] = t /\ c.ev[2] \in Nat /\ c.ev \in Events /\ Begun(c.ev) /\ Form(c) /\ c \in Calls
  BY <1>0, <1>7, CallEvents
<1>9. \A b \in CallsIn(r) : b.op \notin {"call", "report"}
  BY <1>1, <1>2, RestOf
<1>10. PICK p, h, l, e, s : /\ p = Home[t] /\ h = c.hook /\ l = lib[p][h]
                            /\ e = c.ev /\ s = l.sock
  OBVIOUS
<1>11. p \in Procs /\ h \in Hooks
  BY <1>2, <1>8, <1>10, InterposerAssumption DEF Form
<1>12. s \in Conns \cup {NoConn} /\ (s # NoConn => s[2] \in Hooks)
  BY <1>0, <1>10, <1>11 DEF TypeOK, WireInv, LibConns
<1>13. Unsent(c) /\ Unmade(c) /\ ~Unmade(d)
  BY <1>2, <1>3, <1>5 DEF Unsent, Unmade
\* What is added to the real calls.
<1>14. PICK real, n, v : real = effects[p][h] /\ n = Len(real) + 1 /\ v = Append(real, <<e, s>>)
  OBVIOUS
<1>15. effects' = [effects EXCEPT ![p][h] = v]
  <2>1. effects' = [effects EXCEPT ![Home[t]][Top(t).hook] = Append(@, <<Top(t).ev, Lib(t).sock>>)]
    BY DEF RealCall
  <2>2. Lib(t).sock = s /\ Top(t).ev = e /\ Top(t).hook = h /\ Home[t] = p
    BY <1>1, <1>10 DEF Lib
  <2> QED
    BY <1>14, <2>1, <2>2
<1>16. /\ effects'[p][h] = v
       /\ \A q \in Procs : \A k \in Hooks : q # p \/ k # h => effects'[q][k] = effects[q][k]
  <2>1. effects \in [Procs -> [Hooks -> Seq(Events \X ConnNames)]]
    BY <1>0 DEF TypeOK
  <2> QED
    BY <1>11, <1>15, <2>1
<1>17. /\ v[n] = <<e, s>> /\ v # <<>> /\ Len(v) = n /\ DOMAIN v = 1 .. n /\ n \in Nat
       /\ DOMAIN real = 1 .. n - 1
       /\ \A a \in DOMAIN real : v[a] = real[a]
  <2>1. real \in Seq(Events \X ConnNames)
    BY <1>0, <1>11, <1>14 DEF TypeOK
  <2> QED
    BY <1>14, <2>1, SMTT(30)
<1>18. \A a \in DOMAIN v : a = n \/ (a \in DOMAIN real /\ a < n)
  BY <1>17
<1>19. \A q \in Procs : \A k \in Hooks : \A a \in DOMAIN effects'[q][k] :
          \/ q = p /\ k = h /\ a = n /\ effects'[q][k][a] = <<e, s>>
          \/ a \in DOMAIN effects[q][k] /\ effects'[q][k][a] = effects[q][k][a]
  BY <1>14, <1>16, <1>17, <1>18
<1>20. \A q \in Procs : \A k \in Hooks : e \notin RealEvents(q, k)
  BY <1>0, <1>7, <1>10, <1>13 DEF RealCalls, RealEvents
<1>21. \A x \in Conns : Sent(x, e) = {}
  <2> SUFFICES ASSUME NEW x \in Conns, NEW i \in Sent(x, e) PROVE FALSE
    OBVIOUS
  <2>1. i \in DOMAIN wire[x] /\ wire[x][i].kind = "BODY" /\ wire[x][i].ev = e
    BY DEF Sent, Item
  <2> QED
    BY <1>0, <1>7, <1>10, <1>13, <2>1 DEF EventsOnce, SentOnce
<1>22. \A x, f : Sent(x, f)' = Sent(x, f)
  BY <1>2 DEF Sent
\* What the threads are inside of.
<1>23. EventNumbers'
  <2> SUFFICES ASSUME NEW u \in Threads, NEW b \in CallsIn(stack'[u])
               PROVE  b.ev[1] = u /\ Begun(b.ev)
    BY <1>7 DEF EventNumbers, Begun
  <2> QED
    BY <1>0, <1>5, <1>7, <1>8 DEF EventNumbers
<1>24. EventsOnce'
  <2> SUFFICES ASSUME NEW y \in Conns, NEW i \in DOMAIN wire[y], wire[y][i].kind = "BODY"
               PROVE  /\ Begun(wire[y][i].ev)
                      /\ \A j \in DOMAIN wire[y] : wire[y][j] = wire[y][i] => j = i
                      /\ \A u \in Threads : \A b \in CallsIn(stack'[u]) : Unsent(b) => b.ev # wire[y][i].ev
    BY <1>2, <1>7 DEF EventsOnce, SentOnce, Begun
  <2>1. /\ Begun(wire[y][i].ev)
        /\ \A j \in DOMAIN wire[y] : wire[y][j] = wire[y][i] => j = i
        /\ \A u \in Threads : \A b \in CallsIn(stack[u]) : Unsent(b) => b.ev # wire[y][i].ev
    BY <1>0 DEF EventsOnce, SentOnce
  <2> QED
    BY <1>5, <1>7, <1>13, <2>1
<1>25. \A u \in Threads : \A b \in CallsIn(stack'[u]) :
          Unmade(b) => b \in CallsIn(stack[u]) /\ b.ev # e
  <2> SUFFICES ASSUME NEW u \in Threads, NEW b \in CallsIn(stack'[u]), Unmade(b)
               PROVE  b \in CallsIn(stack[u]) /\ b.ev # e
    OBVIOUS
  <2>1. u # t
    BY <1>7, <1>9, <1>13 DEF Unmade
  <2>2. b \in CallsIn(stack[u])
    BY <1>7, <2>1
  <2> QED
    BY <1>0, <1>8, <1>10, <2>1, <2>2 DEF EventNumbers
<1>26. RealCalls'
  <2> SUFFICES ASSUME NEW q \in Procs, NEW k \in Hooks, NEW a \in DOMAIN effects'[q][k],
                      NEW f, f = effects'[q][k][a][1], NEW y, y = effects'[q][k][a][2]
               PROVE  /\ Home[f[1]] = q /\ Begun(f)
                      /\ y # NoConn => y \in Conns /\ y[2] \in Hooks
                      /\ \A b \in DOMAIN effects'[q][k] : effects'[q][k][b][1] = f => b = a
                      /\ \A m \in Hooks \ {k} : f \notin RealEvents(q, m)'
                      /\ \A u \in Threads : \A b \in CallsIn(stack'[u]) : Unmade(b) => b.ev # f
    BY <1>2, <1>7 DEF RealCalls, Begun
  <2>1. \A m \in Hooks : RealEvents(q, m)' \subseteq
                            RealEvents(q, m) \cup (IF q = p /\ m = h THEN {e} ELSE {})
    BY <1>19 DEF RealEvents
  <2>2. CASE q = p /\ k = h /\ a = n /\ effects'[q][k][a] = <<e, s>>
    <3>1. f = e /\ y = s
      BY <2>2
    <3>2. \A b \in DOMAIN effects'[q][k] : effects'[q][k][b][1] = f => b = a
      BY <1>19, <1>20, <2>2, <3>1 DEF RealEvents
    <3>3. \A m \in Hooks \ {k} : f \notin RealEvents(q, m)'
      BY <1>20, <2>1, <2>2, <3>1
    <3> QED
      BY <1>8, <1>10, <1>12, <1>25, <2>2, <3>1, <3>2, <3>3
  <2>3. CASE a \in DOMAIN effects[q][k] /\ effects'[q][k][a] = effects[q][k][a]
    <3>1. /\ Home[f[1]] = q /\ Begun(f)
          /\ y # NoConn => y \in Conns /\ y[2] \in Hooks
          /\ \A b \in DOMAIN effects[q][k] : effects[q][k][b][1] = f => b = a
          /\ \A m \in Hooks \ {k} : f \notin RealEvents(q, m)
          /\ \A u \in Threads : \A b \in CallsIn(stack[u]) : Unmade(b) => b.ev # f
      BY <1>0, <2>3 DEF RealCalls
    <3>2. f # e
      BY <1>20, <2>3 DEF RealEvents
    <3>3. \A b \in DOMAIN effects'[q][k] : effects'[q][k][b][1] = f => b = a
      BY <1>19, <3>1, <3>2
    <3>4. \A m \in Hooks \ {k} : f \notin RealEvents(q, m)'
      BY <2>1, <3>1, <3>2
    <3> QED
      BY <1>25, <3>1, <3>3, <3>4
  <2> QED
    BY <1>19, <2>2, <2>3
<1>27. Reporting'
  <2> SUFFICES ASSUME NEW u \in Threads, NEW b \in CallsIn(stack'[u]), Told(b)
               PROVE  Reports(b, lib[Home[u]][b.hook], effects[Home[u]][b.hook])'
    BY DEF Reporting
  <2>1. CASE u = t
    <3>1. b = d
      BY <1>7, <1>9, <2>1 DEF Told
    <3>2. d.at = "unlock" => s = NoConn \/ h \in MaySkip
      BY <1>1, <1>3, <1>5, <1>10 DEF Lib
    <3> QED
      BY <1>2, <1>5, <1>10, <1>16, <1>17, <2>1, <3>1, <3>2 DEF Reports
  <2>2. CASE u # t
    <3>1. b \in CallsIn(stack[u])
      BY <1>7, <2>2
    <3>2. Owns(b) /\ b.hook \in Hooks /\ Home[u] \in Procs
      <4>1. Owns(b)
        BY DEF Told, Owns
      <4>2. Form(b)
        BY <1>0, <3>1, CallEvents
      <4> QED
        BY <4>1, <4>2, InterposerAssumption DEF Told, Form
    <3>3. lib[Home[u]][b.hook].mutex = u
      BY <3>1, <3>2, OwnedMidway DEF WireInv
    <3>4. l.mutex = t
      <4>1. Owns(c)
        BY <1>2 DEF Owns
      <4>2. c \in CallsIn(stack[t])
        BY <1>7
      <4> QED
        BY <1>10, <1>11, <4>1, <4>2, OwnedMidway DEF WireInv
    <3>5. Home[u] # p \/ b.hook # h
      BY <1>10, <2>2, <3>3, <3>4
    <3>6. effects'[Home[u]][b.hook] = effects[Home[u]][b.hook]
      BY <1>16, <3>2, <3>5
    <3>7. Reports(b, lib[Home[u]][b.hook], effects[Home[u]][b.hook])
      BY <1>0, <3>1 DEF Reporting
    <3> QED
      BY <1>2, <1>22, <3>6, <3>7 DEF Reports
  <2> QED
    BY <2>1, <2>2
<1>28. \A f : f = e \/ Inside(f) => Inside(f)'
  <2> SUFFICES ASSUME NEW f, f = e \/ Inside(f) PROVE Inside(f)'
    OBVIOUS
  <2>1. \E u \in Threads : \E b \in CallsIn(stack[u]) : b.op = "call" /\ b.ev = f
    BY <1>2, <1>7, <1>10 DEF Inside, CallsIn
  <2>2. PICK u \in Threads : \E b \in CallsIn(stack[u]) : b.op = "call" /\ b.ev = f
    BY <2>1
  <2>3. \E b \in CallsIn(stack'[u]) : b.op = "call" /\ b.ev = f
    BY <1>5, <1>7, <2>2
  <2> QED
    BY <2>3 DEF Inside, CallsIn
<1>29. Complete'
  BY <1>0, <1>19, <1>22, <1>28 DEF Complete
<1>30. Ordered'
  <2> SUFFICES ASSUME NEW q \in Procs, NEW k \in Hooks,
                      NEW a \in DOMAIN effects'[q][k], NEW b \in DOMAIN effects'[q][k], NEW y,
                      y = effects'[q][k][a][2], a < b, y \notin shared, y # NoConn,
                      NEW i \in Sent(y, effects'[q][k][a][1]),
                      NEW j \in Sent(y, effects'[q][k][b][1])
               PROVE  i < j
    BY <1>2, <1>22 DEF Ordered
  <2>1. y \in Conns
    BY <1>2, <1>26 DEF RealCalls
  <2>2. ~(q = p /\ k = h /\ b = n /\ effects'[q][k][b] = <<e, s>>)
    BY <1>21, <2>1
  <2>3. b \in DOMAIN effects[q][k] /\ effects'[q][k][b] = effects[q][k][b]
    BY <1>19, <2>2
  <2>4. ~(q = p /\ k = h /\ a = n)
    BY <1>14, <1>17, <2>3
  <2>5. a \in DOMAIN effects[q][k] /\ effects'[q][k][a] = effects[q][k][a]
    BY <1>19, <2>4
  <2> QED
    BY <1>0, <2>3, <2>5 DEF Ordered
<1> QED
  BY <1>23, <1>24, <1>26, <1>27, <1>29, <1>30 DEF OrderInv

-----------------------------------------------------------------------------
(* The quiet steps. *)

LEMMA SameWire ==
  ASSUME wire' = wire, shared \subseteq shared'
  PROVE  NoBodies
BY DEF NoBodies, SameBodies, Conns

LEMMA WritesNoBody ==
  ASSUME CallInv, NEW s \in Conns, NEW k \in {"EVENT", "TYPE", "DONE"}, NEW e \in Events,
         Write(s, Item(e, k)), shared' = shared
  PROVE  NoBodies
<1>1. k \in Fields \cup {"DONE"}
  BY DEF Fields
<1>2. /\ Conns' = Conns /\ wire[s] \in Seq([kind : Fields \cup {"DONE"}, ev : Events])
      /\ wire'[s] = Append(wire[s], Item(e, k))
      /\ \A y \in Conns : y # s => wire'[y] = wire[y]
  BY <1>1, Writing
<1>3. PICK w \in Seq(Items), x \in Items : w = wire[s] /\ x = Item(e, k)
  <2>1. Item(e, k) \in Items
    BY <1>1 DEF Item, Items
  <2> QED
    BY <1>2, <2>1 DEF Items
<1>4. PICK v : v = wire'[s]
  OBVIOUS
<1>5. v = Append(w, x) /\ x.kind # "BODY"
  BY <1>2, <1>3, <1>4 DEF Item
<1>6. /\ v[Len(w) + 1] = x /\ DOMAIN v = 1 .. Len(w) + 1 /\ Len(w) \in Nat
      /\ DOMAIN w = 1 .. Len(w)
      /\ \A i \in DOMAIN w : v[i] = w[i]
  BY <1>5, AppendItem
<1>7. SameBodies(w, v)
  BY <1>5, <1>6 DEF SameBodies
<1>8. \A y \in Conns : SameBodies(wire[y], wire'[y])
  <2>1. \A y \in Conns : y # s => SameBodies(wire[y], wire'[y])
    BY <1>2 DEF SameBodies
  <2> QED
    BY <1>3, <1>4, <1>7, <2>1
<1> QED
  BY <1>2, <1>8 DEF NoBodies

LEMMA ConnectsNoBody ==
  ASSUME CallInv, NEW p \in Procs, NEW what \in Names, NEW s, s = NewConn(p, what),
         Connect(s), shared' = shared
  PROVE  NoBodies
<1>1. /\ s \notin Conns /\ Conns' = Conns \cup {s}
      /\ wire'[s] = <<>> /\ \A y \in Conns : wire'[y] = wire[y]
  BY Connecting
<1> QED
  BY <1>1 DEF NoBodies, SameBodies

LEMMA SameMade ==
  ASSUME TypeOK, made' = made
  PROVE  Later
BY DEF TypeOK, Later

\* Only the innermost call may be one of a hook.
LEMMA RestCalls ==
  ASSUME CallInv, NEW t \in Threads, stack[t] # <<>>,
         NEW c, c = Top(t), NEW r, r = Tail(stack[t])
  PROVE  \A b \in CallsIn(r) : b \in CallsIn(stack[t]) /\ b.op \in {"exit", "exec", "cleanup"}
BY RestOf

\* The innermost call moves to another place.
LEMMA QuietMove ==
  ASSUME CallInv, WireInv, OrderInv, NEW t \in Threads, stack[t] # <<>>, made' = made,
         NoBodies, effects' = effects,
         NEW c, c = Top(t), NEW r, r = Tail(stack[t]), NEW d, Replaces(t, c, {d}, r),
         d.op = c.op, d.hook = c.hook, d.ev = c.ev,
         Unsent(d) => Unsent(c), Unmade(d) => Unmade(c),
         Told(d) => Told(c) /\ d.at # "unlock" /\ lib' = lib,
         \A p \in Procs : \A h \in Hooks :
            lib'[p][h].sock = lib[p][h].sock \/ lib[p][h].mutex \in {None, t}
  PROVE  OrderInv'
<1>1. /\ CallsIn(stack[t]) = {c} \cup CallsIn(r)
      /\ CallsIn(stack'[t]) = {d} \cup CallsIn(r)
      /\ \A u \in Threads \ {t} : stack'[u] = stack[u]
  BY DEF Replaces
<1>2. \A b \in CallsIn(r) : b \in CallsIn(stack[t]) /\ b.op \in {"exit", "exec", "cleanup"}
  BY RestCalls
<1>3. TypeOK /\ EventNumbers /\ Reporting
  BY DEF CallInv, OrderInv
<1>4. /\ c.ev[1] = t /\ c.ev[2] \in Nat /\ Begun(c.ev) /\ Form(c)
      /\ c \in CallsIn(stack[t])
  BY <1>1, <1>3, CallEvents
<1>5. Later
  BY <1>3, SameMade
<1>6. PICK D : D = {d}
  OBVIOUS
<1>7. \A b \in CallsIn(stack'[t]) : b \in D \/ (b \in CallsIn(stack[t]) /\ b.op # "call")
  BY <1>1, <1>2, <1>6
<1>8. Told(d) => Reports(d, lib[Home[t]][d.hook], effects[Home[t]][d.hook])'
  <2> SUFFICES ASSUME Told(d) PROVE Reports(d, lib[Home[t]][d.hook], effects[Home[t]][d.hook])'
    OBVIOUS
  <2>1. Reports(c, lib[Home[t]][c.hook], effects[Home[t]][c.hook])
    BY <1>3, <1>4 DEF Reporting
  <2>2. c.hook \in Hooks /\ Home[t] \in Procs
    BY <1>4, InterposerAssumption DEF Told, Form
  <2>3. lib'[Home[t]][d.hook].sock = lib[Home[t]][d.hook].sock
    BY <2>2
  <2> QED
    BY <2>1, <2>3 DEF Reports
<1>9. \A b \in D : /\ b.ev[1] = t /\ b.ev[2] \in Nat /\ b.ev[2] <= made'[t]
                   /\ Unsent(b) => \/ b.ev[2] > made[t]
                                   \/ \E a \in CallsIn(stack[t]) : Unsent(a) /\ a.ev = b.ev
                   /\ Unmade(b) => \/ b.ev[2] > made[t]
                                   \/ \E a \in CallsIn(stack[t]) : Unmade(a) /\ a.ev = b.ev
                   /\ Told(b) => Reports(b, lib[Home[t]][b.hook], effects[Home[t]][b.hook])'
  BY <1>4, <1>6, <1>8 DEF Begun
<1>10. \A p \in Procs : \A h \in Hooks :
          lib'[p][h].sock = lib[p][h].sock \/ lib[p][h].mutex \in {None, t}
  OBVIOUS
<1>11. \A a \in CallsIn(stack[t]) : a.op = "call" =>
          \E b \in CallsIn(stack'[t]) : b.op = "call" /\ b.ev = a.ev
  BY <1>1, <1>2
<1> QED
  BY <1>1, <1>5, <1>7, <1>9, <1>10, <1>11, QuietOrder

\* The innermost call is over.
LEMMA QuietReturn ==
  ASSUME CallInv, WireInv, OrderInv, NEW t \in Threads, stack[t] # <<>>, Return(t),
         NoBodies, effects' = effects,
         \A p \in Procs : \A h \in Hooks :
            lib'[p][h].sock = lib[p][h].sock \/ lib[p][h].mutex \in {None, t},
         NEW c, c = Top(t),
         c.op = "call" =>
            \A p \in Procs : \A h \in Hooks \ MaySkip : \A a \in DOMAIN effects[p][h] :
               effects[p][h][a][1] = c.ev /\ effects[p][h][a][2] # NoConn
                 => Sent(effects[p][h][a][2], c.ev) # {}
  PROVE  OrderInv'
<1>1. PICK r : r = Tail(stack[t])
  OBVIOUS
<1>2. Replaces(t, c, {}, r) /\ made' = made
  BY <1>1, ReturnCalls DEF Return
<1>3. /\ CallsIn(stack[t]) = {c} \cup CallsIn(r)
      /\ CallsIn(stack'[t]) = CallsIn(r)
      /\ \A u \in Threads \ {t} : stack'[u] = stack[u]
  BY <1>2 DEF Replaces
<1>4. \A b \in CallsIn(r) : b \in CallsIn(stack[t]) /\ b.op \in {"exit", "exec", "cleanup"}
  BY <1>1, RestCalls
<1>5. Later
  BY <1>2, SameMade DEF CallInv
<1>6. PICK D : D = {}
  OBVIOUS
<1>7. \A b \in CallsIn(stack'[t]) : b \in D \/ (b \in CallsIn(stack[t]) /\ b.op # "call")
  BY <1>3, <1>4
<1>8. \A b \in D : /\ b.ev[1] = t /\ b.ev[2] \in Nat /\ b.ev[2] <= made'[t]
                   /\ Unsent(b) => \/ b.ev[2] > made[t]
                                   \/ \E a \in CallsIn(stack[t]) : Unsent(a) /\ a.ev = b.ev
                   /\ Unmade(b) => \/ b.ev[2] > made[t]
                                   \/ \E a \in CallsIn(stack[t]) : Unmade(a) /\ a.ev = b.ev
                   /\ Told(b) => Reports(b, lib[Home[t]][b.hook], effects[Home[t]][b.hook])'
  BY <1>6
<1>9. \A a \in CallsIn(stack[t]) : a.op = "call" =>
         \A p \in Procs : \A h \in Hooks \ MaySkip : \A x \in DOMAIN effects[p][h] :
            effects[p][h][x][1] = a.ev /\ effects[p][h][x][2] # NoConn
              => Sent(effects[p][h][x][2], a.ev) # {}
  BY <1>3, <1>4
<1> QED
  BY <1>3, <1>5, <1>7, <1>8, <1>9, QuietOrder

\* A call is begun, on a stack q without a call of a hook.
LEMMA QuietEnter ==
  ASSUME CallInv, WireInv, OrderInv, NEW t \in Threads,
         stack[t] # <<>> => Top(t).op # "call",
         wire' = wire, shared' = shared, lib' = lib, effects' = effects,
         NEW d \in Calls, NEW q \in Seq(Calls), Enter(t, d, q), d.ev = NewEvent(t), ~Told(d),
         \A b \in CallsIn(q) :
            /\ b.op \in {"exit", "exec", "cleanup"}
            /\ b.ev = NewEvent(t) \/ \E a \in CallsIn(stack[t]) : a.ev = b.ev
  PROVE  OrderInv'
<1>1. /\ CallsIn(stack'[t]) = {d} \cup CallsIn(q)
      /\ \A u \in Threads \ {t} : stack'[u] = stack[u]
  BY EnterCalls
<1>2. TypeOK /\ EventNumbers
  BY DEF CallInv, OrderInv
<1>3. made' = [made EXCEPT ![t] = made[t] + 1] /\ made \in [Threads -> Nat]
  BY <1>2 DEF Enter, TypeOK
<1>4. Later /\ made'[t] = made[t] + 1 /\ made[t] \in Nat
  BY <1>3 DEF Later
<1>5. NoBodies
  BY SameWire
<1>6. PICK f : f = NewEvent(t)
  OBVIOUS
<1>7. f[1] = t /\ f[2] \in Nat /\ f[2] <= made'[t] /\ f[2] > made[t]
  BY <1>4, <1>6 DEF NewEvent
<1>8. \A a \in CallsIn(stack[t]) : a.ev[1] = t /\ a.ev[2] \in Nat /\ a.ev[2] <= made'[t]
  <2> SUFFICES ASSUME NEW a \in CallsIn(stack[t])
               PROVE  a.ev[1] = t /\ a.ev[2] \in Nat /\ a.ev[2] <= made'[t]
    OBVIOUS
  <2>1. a.ev[1] = t /\ a.ev[2] \in Nat /\ Begun(a.ev)
    BY <1>2, CallEvents
  <2> QED
    BY <1>4, <2>1 DEF Begun
<1>9. \A a \in CallsIn(stack[t]) : a.op # "call"
  <2> SUFFICES ASSUME NEW a \in CallsIn(stack[t]), a.op = "call" PROVE FALSE
    OBVIOUS
  <2>1. stack[t] # <<>> /\ a = Top(t)
    BY <1>2, CallEvents
  <2> QED
    BY <2>1
<1>10. PICK D : D = CallsIn(stack'[t])
  OBVIOUS
<1>11. \A b \in CallsIn(stack'[t]) : b \in D \/ (b \in CallsIn(stack[t]) /\ b.op # "call")
  BY <1>10
<1>12. \A b \in D : /\ b.ev[1] = t /\ b.ev[2] \in Nat /\ b.ev[2] <= made'[t]
                    /\ Unsent(b) => \/ b.ev[2] > made[t]
                                    \/ \E a \in CallsIn(stack[t]) : Unsent(a) /\ a.ev = b.ev
                    /\ Unmade(b) => \/ b.ev[2] > made[t]
                                    \/ \E a \in CallsIn(stack[t]) : Unmade(a) /\ a.ev = b.ev
                    /\ Told(b) => Reports(b, lib[Home[t]][b.hook], effects[Home[t]][b.hook])'
  <2> SUFFICES ASSUME NEW b \in D
               PROVE  /\ b.ev[1] = t /\ b.ev[2] \in Nat /\ b.ev[2] <= made'[t]
                      /\ Unsent(b) => b.ev[2] > made[t]
                      /\ Unmade(b) => b.ev[2] > made[t]
                      /\ ~Told(b)
    OBVIOUS
  <2>1. CASE b = d
    BY <1>6, <1>7, <2>1
  <2>2. CASE b # d
    <3>1. /\ b.op \in {"exit", "exec", "cleanup"}
          /\ b.ev = f \/ \E a \in CallsIn(stack[t]) : a.ev = b.ev
      BY <1>1, <1>6, <1>10, <2>2
    <3>2. ~Unsent(b) /\ ~Unmade(b) /\ ~Told(b)
      BY <3>1 DEF Unsent, Unmade, Told
    <3> QED
      BY <1>7, <1>8, <3>1, <3>2
  <2> QED
    BY <2>1, <2>2
<1>13. \A p \in Procs : \A h \in Hooks :
          lib'[p][h].sock = lib[p][h].sock \/ lib[p][h].mutex \in {None, t}
  OBVIOUS
<1>14. \A a \in CallsIn(stack[t]) : a.op = "call" =>
          \E b \in CallsIn(stack'[t]) : b.op = "call" /\ b.ev = a.ev
  BY <1>9
<1> QED
  BY <1>1, <1>4, <1>5, <1>11, <1>12, <1>13, <1>14, QuietOrder

\* Nothing that OrderInv is about changes.
LEMMA SameOrder ==
  ASSUME OrderInv, UNCHANGED <<lib, stack, made, wire, shared, effects>>
  PROVE  OrderInv'
<1>1. EventNumbers'
  BY DEF OrderInv, EventNumbers, Begun
<1>2. EventsOnce'
  BY DEF OrderInv, EventsOnce, SentOnce, Begun, Conns
<1>3. RealCalls'
  BY DEF OrderInv, RealCalls, RealEvents, Begun, Conns
<1>4. Reporting'
  BY DEF OrderInv, Reporting, Reports, Sent
<1>5. Complete'
  BY DEF OrderInv, Complete, Sent, Inside
<1>6. Ordered'
  <2>1. \A s, e : Sent(s, e)' = Sent(s, e)
    BY DEF Sent
  <2>2. Ordered
    BY DEF OrderInv
  <2> QED
    BY <2>1, <2>2 DEF Ordered
<1> QED
  BY <1>1, <1>2, <1>3, <1>4, <1>5, <1>6 DEF OrderInv

-----------------------------------------------------------------------------
(* The steps. *)

LEMMA CallHookOrder ==
  ASSUME CallInv, WireInv, OrderInv, NEW t \in Threads, NEW h \in Hooks, CallHook(t, h)
  PROVE  OrderInv'
<1>1. PICK d, q : d = Call("call", h, Entry(h), NewEvent(t)) /\ q = stack[t]
  OBVIOUS
<1>2. Entry(h) \in {"check", "lock"}
  BY DEF Entry
<1>3. /\ d \in Calls /\ d.op = "call" /\ d.at = Entry(h) /\ d.ev = NewEvent(t)
  BY <1>1, <1>2, NewCall DEF Ops, Names, Labels
<1>4. ~Told(d)
  BY <1>2, <1>3 DEF Told, Fields
<1>5. /\ q \in Seq(Calls) /\ Enter(t, d, q)
      /\ wire' = wire /\ shared' = shared /\ lib' = lib /\ effects' = effects
      /\ stack[t] # <<>> => Top(t).op = "exit"
  BY <1>1 DEF CallHook, CallInv, TypeOK, Idle, In
<1>6. \A b \in CallsIn(q) :
            /\ b.op \in {"exit", "exec", "cleanup"}
            /\ b.ev = NewEvent(t) \/ \E a \in CallsIn(stack[t]) : a.ev = b.ev
  <2>1. CASE stack[t] = <<>>
    BY <1>1, <2>1 DEF CallsIn
  <2>2. CASE stack[t] # <<>>
    <3>1. PICK c, r : c = Top(t) /\ r = Tail(stack[t])
      OBVIOUS
    <3>2. CallsIn(stack[t]) = {c} \cup CallsIn(r)
      BY <2>2, <3>1, TopCalls
    <3>3. \A b \in CallsIn(r) : b.op \in {"exit", "exec", "cleanup"}
      BY <2>2, <3>1, RestCalls
    <3> QED
      BY <1>1, <1>5, <2>2, <3>1, <3>2, <3>3
  <2> QED
    BY <2>1, <2>2
<1> QED
  BY <1>3, <1>4, <1>5, <1>6, QuietEnter

LEMMA CheckFinalizedOrder ==
  ASSUME CallInv, WireInv, OrderInv, NEW t \in Threads, CheckFinalized(t)
  PROVE  OrderInv'
<1>1. PICK c, r, d, at : c = Top(t) /\ r = Tail(stack[t]) /\ d = Placed(c, at) /\ at = "lock"
  OBVIOUS
<1>2. /\ stack[t] # <<>> /\ c.op = "call" /\ c.at = "check" /\ Goto(t, at) /\ at \in Labels
      /\ wire' = wire /\ shared' = shared /\ lib' = lib /\ effects' = effects
  BY <1>1 DEF CheckFinalized, In, Labels
<1>3. Replaces(t, c, {d}, r)
  BY <1>1, <1>2, GotoCalls
<1>4. d.op = c.op /\ d.at = at /\ d.ev = c.ev /\ d.hook = c.hook
  BY <1>1, PlacedCall
<1>5. Unsent(c) /\ Unmade(c) /\ ~Told(d)
  BY <1>1, <1>2, <1>4 DEF Unsent, Unmade, Told, Fields
<1>6. NoBodies /\ made' = made
  BY <1>2, SameWire DEF Goto
<1> QED
  BY <1>1, <1>2, <1>3, <1>4, <1>5, <1>6, QuietMove

LEMMA ForwardOrder ==
  ASSUME CallInv, WireInv, OrderInv, NEW t \in Threads, Forward(t)
  PROVE  OrderInv'
<1>1. PICK c : c = Top(t)
  OBVIOUS
<1>2. /\ stack[t] # <<>> /\ c.op = "call" /\ c.at = "check"
      /\ UNCHANGED <<lib, wire, shared, effects>>
  BY <1>1 DEF Forward, In
<1>3. CASE Return(t)
  <2>1. c \in CallsIn(stack[t]) /\ Unmade(c)
    BY <1>1, <1>2, TopCalls DEF Unmade
  <2>2. \A p \in Procs : \A h \in Hooks : \A a \in DOMAIN effects[p][h] : effects[p][h][a][1] # c.ev
    BY <2>1 DEF OrderInv, RealCalls
  <2>3. NoBodies
    BY <1>2, SameWire
  <2> QED
    BY <1>1, <1>2, <1>3, <2>2, <2>3, QuietReturn
<1>4. CASE UNCHANGED <<stack, made>>
  BY <1>2, <1>4, SameOrder
<1> QED
  BY <1>3, <1>4 DEF Forward

LEMMA UnlockOrder ==
  ASSUME CallInv, WireInv, OrderInv, NEW t \in Threads, Unlock(t)
  PROVE  OrderInv'
<1>1. PICK c, h : c = Top(t) /\ h = c.hook
  OBVIOUS
<1>2. /\ stack[t] # <<>> /\ c.op = "call" /\ c.at = "unlock" /\ Return(t)
      /\ SetLib(t, [Lib(t) EXCEPT !.mutex = None])
      /\ wire' = wire /\ shared' = shared /\ effects' = effects
  BY <1>1 DEF Unlock, In
<1>3. c \in CallsIn(stack[t]) /\ Form(c) /\ Home[t] \in Procs
  BY <1>1, <1>2, TopCalls
<1>4. h \in Hooks /\ Owns(c) /\ Told(c)
  BY <1>1, <1>2, <1>3 DEF Form, Owns, Told
<1>5. lib[Home[t]][h].mutex = t
  BY <1>1, <1>3, <1>4, OwnedMidway DEF WireInv
<1>6. \A p \in Procs : \A k \in Hooks : p # Home[t] \/ k # h => lib'[p][k] = lib[p][k]
  BY <1>1, <1>2, <1>4, SetsLib
<1>7. \A p \in Procs : \A k \in Hooks :
         lib'[p][k].sock = lib[p][k].sock \/ lib[p][k].mutex \in {None, t}
  BY <1>5, <1>6
<1>8. PICK l, real : l = lib[Home[t]][h] /\ real = effects[Home[t]][h]
  OBVIOUS
<1>9. Reports(c, l, real)
  BY <1>1, <1>3, <1>4, <1>8 DEF OrderInv, Reporting
<1>10. /\ real # <<>> /\ real[Len(real)] = <<c.ev, l.sock>>
       /\ l.sock = NoConn \/ h \in MaySkip \/ Sent(l.sock, c.ev) # {}
  BY <1>1, <1>2, <1>9 DEF Reports
<1>11. Len(real) \in DOMAIN real
  <2>1. real \in Seq(Events \X ConnNames)
    BY <1>3, <1>4, <1>8 DEF CallInv, TypeOK
  <2> QED
    BY <1>10, <2>1
<1>12. ASSUME NEW p \in Procs, NEW k \in Hooks \ MaySkip, NEW a \in DOMAIN effects[p][k],
              effects[p][k][a][1] = c.ev, effects[p][k][a][2] # NoConn
       PROVE  Sent(effects[p][k][a][2], c.ev) # {}
  <2>1. RealCalls
    BY DEF OrderInv
  <2>2. Home[c.ev[1]] = p /\ Home[c.ev[1]] = Home[t]
    BY <1>3, <1>4, <1>8, <1>10, <1>11, <1>12, <2>1 DEF RealCalls
  <2>3. c.ev \in RealEvents(p, k)
    BY <1>12 DEF RealEvents
  <2>4. k = h
    <3>1. \A m \in Hooks \ {h} : real[Len(real)][1] \notin RealEvents(Home[t], m)
      BY <1>3, <1>4, <1>8, <1>11, <2>1 DEF RealCalls
    <3> QED
      BY <1>10, <2>2, <2>3, <3>1
  <2>5. a = Len(real)
    <3>1. \A b \in DOMAIN real : real[b][1] = real[Len(real)][1] => b = Len(real)
      BY <1>3, <1>4, <1>8, <1>11, <2>1 DEF RealCalls
    <3> QED
      BY <1>8, <1>10, <1>12, <2>2, <2>4, <3>1
  <2>6. effects[p][k][a][2] = l.sock
    BY <1>8, <1>10, <2>2, <2>4, <2>5
  <2> QED
    BY <1>10, <1>12, <2>4, <2>6
<1>13. NoBodies
  BY <1>2, SameWire
<1> QED
  BY <1>1, <1>2, <1>7, <1>12, <1>13, QuietReturn

LEMMA WriteFieldOrder ==
  ASSUME CallInv, WireInv, OrderInv, NEW t \in Threads, NEW k \in Fields, WriteField(t, k)
  PROVE  OrderInv'
<1>0. TypeOK /\ EventNumbers /\ Reporting /\ RealCalls
  BY DEF CallInv, OrderInv
<1>1. PICK c, r, at, d, e, s : /\ c = Top(t) /\ r = Tail(stack[t]) /\ at = After(k)
                               /\ d = Placed(c, at) /\ e = c.ev /\ s = Lib(t).sock
  OBVIOUS
<1>2. /\ stack[t] # <<>> /\ c.op = "call" /\ c.at = k
      /\ Write(s, Item(e, k)) /\ Goto(t, at)
      /\ lib' = lib /\ shared' = shared /\ effects' = effects /\ made' = made
  BY <1>1 DEF WriteField, In, Goto
<1>3. /\ CallsIn(stack[t]) = {c} \cup CallsIn(r) /\ c \in CallsIn(stack[t]) /\ c \in Calls
      /\ Form(c) /\ Home[t] \in Procs
  BY <1>1, <1>2, TopCalls
<1>4. c.hook \in Hooks /\ Told(c) /\ Unsent(c) /\ e \in Events
  BY <1>1, <1>2, <1>3 DEF Form, Told, Unsent, Fields, Calls
<1>5. s = lib[Home[t]][c.hook].sock /\ s \in Conns
  <2>1. s = lib[Home[t]][c.hook].sock /\ s # NoConn
    BY <1>0, <1>1, <1>2 DEF TypeOK, Lib
  <2> QED
    BY <1>0, <1>3, <1>4, <2>1 DEF TypeOK
<1>6. at \in Labels
  BY <1>1 DEF After, Labels, Fields
<1>7. Replaces(t, c, {d}, r)
  BY <1>1, <1>2, <1>6, GotoCalls
<1>8. d.op = c.op /\ d.at = at /\ d.ev = c.ev /\ d.hook = c.hook
  BY <1>1, PlacedCall
<1>9. ~Unmade(d)
  BY <1>1, <1>8 DEF Unmade, After, Fields
<1>10. CASE k # "BODY"
  <2>1. k \in {"EVENT", "TYPE", "DONE"} /\ at \in {"TYPE", "BODY"}
    BY <1>1, <1>10 DEF Fields, After
  <2>2. NoBodies
    BY <1>2, <1>4, <1>5, <2>1, WritesNoBody
  <2> QED
    BY <1>1, <1>2, <1>4, <1>7, <1>8, <1>9, <2>1, <2>2, QuietMove
<1>11. CASE k = "BODY"
  <2>1. at = "unlock" /\ k \in Fields \cup {"DONE"}
    BY <1>1, <1>11 DEF After
  <2>2. ~Unsent(d)
    BY <1>2, <1>8, <2>1 DEF Unsent
  <2>3. SendsBody(e, s)
    BY <1>2, <1>4, <1>5, <1>11, <2>1, Writing DEF SendsBody
  <2>4. PICK real : real = effects[Home[t]][c.hook]
    OBVIOUS
  <2>5. real # <<>> /\ real[Len(real)][1] = e
    <3>1. PICK l : l = lib[Home[t]][c.hook]
      OBVIOUS
    <3>2. Reports(c, l, real)
      BY <1>0, <1>3, <1>4, <2>4, <3>1 DEF Reporting
    <3> QED
      BY <1>1, <3>2 DEF Reports
  <2>6. Len(real) \in DOMAIN real
    <3>1. real \in Seq(Events \X ConnNames)
      BY <1>0, <1>3, <1>4, <2>4, ZenonT(40) DEF TypeOK
    <3> QED
      BY <2>5, <3>1
  <2>7. ASSUME NEW p \in Procs, NEW h \in Hooks, NEW a \in DOMAIN effects[p][h],
               effects[p][h][a][1] = e /\ effects[p][h][a][2] = s
        PROVE  a = Len(effects[p][h])
    <3>1. p = Home[t]
      <4>1. Home[e[1]] = p
        BY <1>0, <2>7 DEF RealCalls
      <4>2. Home[real[Len(real)][1][1]] = Home[t]
        BY <1>0, <1>3, <1>4, <2>4, <2>6, SMTT(30) DEF RealCalls
      <4> QED
        BY <2>5, <4>1, <4>2
    <3>2. h = c.hook
      <4>1. \A m \in Hooks \ {c.hook} : e \notin RealEvents(Home[t], m)
        BY <1>0, <1>3, <1>4, <2>4, <2>5, <2>6 DEF RealCalls
      <4>2. e \in RealEvents(p, h)
        BY <2>7 DEF RealEvents
      <4> QED
        BY <3>1, <4>1, <4>2
    <3>3. \A b \in DOMAIN real : real[b][1] = e => b = Len(real)
      BY <1>0, <1>3, <1>4, <2>4, <2>5, <2>6 DEF RealCalls
    <3> QED
      BY <2>4, <2>7, <3>1, <3>2, <3>3
  <2>8. Latest(e, s)
    BY <2>7 DEF Latest
  <2>9. Told(d) => Told(c) /\ s = lib[Home[t]][c.hook].sock
    BY <1>4, <1>5
  <2>10. r = Tail(stack[t]) /\ c = Top(t) /\ e = c.ev
    BY <1>1
  <2>11. /\ made' = made /\ effects' = effects /\ lib' = lib /\ shared' = shared
         /\ d.op = c.op /\ d.ev = c.ev /\ d.hook = c.hook
    BY <1>2, <1>8
  <2>12. c \in CallsIn(stack[t]) /\ s \in Conns /\ e \in Events /\ Unsent(c)
    BY <1>3, <1>4, <1>5
  <2> QED
    BY <1>7, <1>9, <2>2, <2>3, <2>8, <2>9, <2>10, <2>11, <2>12, BodyOrder
<1> QED
  BY <1>10, <1>11

\* A step that changes the library of the innermost call, whose mutex the thread has or takes.
LEMMA OwnLib ==
  ASSUME CallInv, NEW t \in Threads, NEW h \in Hooks, Top(t).hook = h, NEW m, SetLib(t, m),
         Lib(t).mutex \in {None, t}
  PROVE  \A p \in Procs : \A k \in Hooks :
            lib'[p][k].sock = lib[p][k].sock \/ lib[p][k].mutex \in {None, t}
BY SetsLib DEF Lib

LEMMA LockOrder ==
  ASSUME CallInv, WireInv, OrderInv, NEW t \in Threads, Lock(t)
  PROVE  OrderInv'
<1>1. PICK c, r, d, at : c = Top(t) /\ r = Tail(stack[t]) /\ d = Placed(c, at) /\ at = "real"
  OBVIOUS
<1>2. /\ stack[t] # <<>> /\ c.op = "call" /\ c.at = "lock" /\ Goto(t, at) /\ at \in Labels
      /\ shared' = shared /\ effects' = effects /\ made' = made /\ Lib(t).mutex = None
  BY <1>1 DEF Lock, In, Labels, Goto
<1>3. Replaces(t, c, {d}, r)
  BY <1>1, <1>2, GotoCalls
<1>4. d.op = c.op /\ d.at = at /\ d.ev = c.ev /\ d.hook = c.hook
  BY <1>1, PlacedCall
<1>5. Unsent(c) /\ Unmade(c) /\ ~Told(d)
  BY <1>1, <1>2, <1>4 DEF Unsent, Unmade, Told, Fields
<1>6. PICK h \in Hooks : h = c.hook /\ h \in Names
  <2>1. Form(c)
    BY <1>1, <1>2, TopCalls
  <2> QED
    BY <1>2, <2>1 DEF Form, Names
<1>7. \A p \in Procs : \A k \in Hooks :
         lib'[p][k].sock = lib[p][k].sock \/ lib[p][k].mutex \in {None, t}
  <2>1. \E m : SetLib(t, m)
    BY DEF Lock
  <2> QED
    BY <1>1, <1>2, <1>6, <2>1, OwnLib
<1>8. NoBodies
  <2>1. \/ wire' = wire
        \/ \E s \in Sockets(Home[t], h) : s # NoConn /\ Connect(s)
    BY <1>1, <1>6 DEF Lock
  <2>2. wire' = wire \/ \E s : s = NewConn(Home[t], h) /\ Connect(s)
    BY <2>1 DEF Sockets
  <2>3. Home[t] \in Procs
    BY InterposerAssumption
  <2> QED
    BY <1>2, <1>6, <2>2, <2>3, SameWire, ConnectsNoBody
<1> QED
  BY <1>1, <1>2, <1>3, <1>4, <1>5, <1>7, <1>8, QuietMove

LEMMA CleanupLockOrder ==
  ASSUME CallInv, WireInv, OrderInv, NEW t \in Threads, CleanupLock(t)
  PROVE  OrderInv'
<1>1. PICK c, r : c = Top(t) /\ r = Tail(stack[t])
  OBVIOUS
<1>2. /\ stack[t] # <<>> /\ c.op = "cleanup" /\ c.at = "lock" /\ Lib(t).mutex = None
      /\ wire' = wire /\ shared' = shared /\ effects' = effects
  BY <1>1 DEF CleanupLock, In
<1>3. PICK at \in {"done", "reset"} : Goto(t, at) /\ at \in Labels /\ made' = made
  BY DEF CleanupLock, Goto, Labels
<1>4. PICK d : d = Placed(c, at)
  OBVIOUS
<1>5. Replaces(t, c, {d}, r)
  BY <1>1, <1>2, <1>3, <1>4, GotoCalls
<1>6. d.op = c.op /\ d.at = at /\ d.ev = c.ev /\ d.hook = c.hook
  BY <1>4, PlacedCall
<1>7. ~Unsent(d) /\ ~Unmade(d) /\ ~Told(d)
  BY <1>2, <1>6 DEF Unsent, Unmade, Told
<1>8. PICK h \in Hooks : h = c.hook
  <2>1. Form(c)
    BY <1>1, <1>2, TopCalls
  <2> QED
    BY <1>2, <2>1 DEF Form
<1>9. \A p \in Procs : \A k \in Hooks :
         lib'[p][k].sock = lib[p][k].sock \/ lib[p][k].mutex \in {None, t}
  <2>1. \E m : SetLib(t, m)
    BY DEF CleanupLock
  <2> QED
    BY <1>1, <1>2, <1>8, <2>1, OwnLib
<1>10. NoBodies
  BY <1>2, SameWire
<1> QED
  BY <1>1, <1>2, <1>3, <1>5, <1>6, <1>7, <1>9, <1>10, QuietMove

LEMMA CleanupDoneOrder ==
  ASSUME CallInv, WireInv, OrderInv, NEW t \in Threads, CleanupDone(t)
  PROVE  OrderInv'
<1>1. PICK c, r, at, d, e, s, k :
         /\ c = Top(t) /\ r = Tail(stack[t]) /\ at = "close" /\ d = Placed(c, at)
         /\ e = c.ev /\ s = Lib(t).sock /\ k = "DONE"
  OBVIOUS
<1>2. /\ stack[t] # <<>> /\ c.op = "cleanup" /\ c.at = "done" /\ at \in Labels
      /\ Write(s, Item(e, k)) /\ Goto(t, at) /\ made' = made
      /\ lib' = lib /\ shared' = shared /\ effects' = effects
  BY <1>1 DEF CleanupDone, In, Labels, Goto
<1>3. c \in Calls /\ Form(c) /\ Home[t] \in Procs
  BY <1>1, <1>2, TopCalls
<1>4. c.hook \in Hooks /\ e \in Events /\ k \in {"EVENT", "TYPE", "DONE"}
  BY <1>1, <1>2, <1>3 DEF Form, Calls
<1>5. s \in Conns
  <2>1. s = lib[Home[t]][c.hook].sock /\ s # NoConn
    BY <1>1, <1>2 DEF CallInv, TypeOK, Lib
  <2> QED
    BY <1>3, <1>4, <2>1 DEF CallInv, TypeOK
<1>6. NoBodies
  BY <1>2, <1>4, <1>5, WritesNoBody
<1>7. Replaces(t, c, {d}, r)
  BY <1>1, <1>2, GotoCalls
<1>8. d.op = c.op /\ d.at = at /\ d.ev = c.ev /\ d.hook = c.hook
  BY <1>1, PlacedCall
<1>9. ~Unsent(d) /\ ~Unmade(d) /\ ~Told(d)
  BY <1>2, <1>8 DEF Unsent, Unmade, Told
<1> QED
  BY <1>1, <1>2, <1>6, <1>7, <1>8, <1>9, QuietMove

\* Closing a socket is a call of close(), if that is one of the hooks.
LEMMA CloseOrder ==
  ASSUME CallInv, WireInv, OrderInv, NEW t \in Threads, stack[t] # <<>>, Top(t).op # "call",
         wire' = wire, shared' = shared, lib' = lib, effects' = effects,
         NEW q \in Seq(Calls), CloseSocket(t, q),
         \A b \in CallsIn(q) :
            /\ b.op \in {"exit", "exec", "cleanup"}
            /\ \E a \in CallsIn(stack[t]) : a.ev = b.ev
  PROVE  OrderInv'
<1>1. CASE "close" \in Hooks
  <2>1. PICK h \in Hooks : h = "close"
    BY <1>1
  <2>2. PICK e : e = Call("call", h, "check", NewEvent(t))
    OBVIOUS
  <2>3. Enter(t, e, q)
    BY <1>1, <2>1, <2>2 DEF CloseSocket, Entry
  <2>4. e \in Calls /\ e.op = "call" /\ e.at = "check" /\ e.ev = NewEvent(t)
    BY <2>2, NewCall DEF Ops, Names, Labels
  <2>5. ~Told(e)
    BY <2>4 DEF Told, Fields
  <2> QED
    BY <2>3, <2>4, <2>5, QuietEnter
<1>2. CASE "close" \notin Hooks
  <2>1. stack' = [stack EXCEPT ![t] = q] /\ made' = made
    BY <1>2 DEF CloseSocket
  <2>2. /\ CallsIn(stack'[t]) = CallsIn(q)
        /\ \A u \in Threads \ {t} : stack'[u] = stack[u]
    BY <2>1 DEF CallInv, TypeOK
  <2>3. EventNumbers
    BY DEF OrderInv
  <2>4. Later /\ NoBodies
    BY <2>1, SameMade, SameWire DEF CallInv
  <2>5. PICK D : D = CallsIn(q)
    OBVIOUS
  <2>6. \A b \in CallsIn(stack'[t]) : b \in D \/ (b \in CallsIn(stack[t]) /\ b.op # "call")
    BY <2>2, <2>5
  <2>7. \A a \in CallsIn(stack[t]) : a.ev[1] = t /\ a.ev[2] \in Nat /\ a.ev[2] <= made'[t]
    BY <2>1, <2>3, CallEvents DEF Begun
  <2>8. \A b \in D : b.ev[1] = t /\ b.ev[2] \in Nat /\ b.ev[2] <= made'[t]
    BY <2>5, <2>7
  <2>9. \A b \in D : ~Unsent(b) /\ ~Unmade(b) /\ ~Told(b)
    BY <2>5 DEF Unsent, Unmade, Told
  <2>10. \A b \in D : /\ b.ev[1] = t /\ b.ev[2] \in Nat /\ b.ev[2] <= made'[t]
                      /\ Unsent(b) => \/ b.ev[2] > made[t]
                                      \/ \E a \in CallsIn(stack[t]) : Unsent(a) /\ a.ev = b.ev
                      /\ Unmade(b) => \/ b.ev[2] > made[t]
                                      \/ \E a \in CallsIn(stack[t]) : Unmade(a) /\ a.ev = b.ev
                      /\ Told(b) => Reports(b, lib[Home[t]][b.hook], effects[Home[t]][b.hook])'
    BY <2>8, <2>9
  <2>11. \A p \in Procs : \A h \in Hooks :
            lib'[p][h].sock = lib[p][h].sock \/ lib[p][h].mutex \in {None, t}
    OBVIOUS
  <2>12. \A a \in CallsIn(stack[t]) : a.op = "call" =>
            \E b \in CallsIn(stack'[t]) : b.op = "call" /\ b.ev = a.ev
    BY <2>3, CallEvents
  <2> QED
    BY <2>2, <2>4, <2>6, <2>10, <2>11, <2>12, QuietOrder
<1> QED
  BY <1>1, <1>2

LEMMA CleanupCloseOrder ==
  ASSUME CallInv, WireInv, OrderInv, NEW t \in Threads, CleanupClose(t)
  PROVE  OrderInv'
<1>1. PICK c, r, d, q :
         /\ c = Top(t) /\ r = Tail(stack[t]) /\ d = Placed(c, "reset") /\ q = <<d>> \o r
  OBVIOUS
<1>2. /\ stack[t] # <<>> /\ c.op = "cleanup" /\ c.at = "close"
      /\ wire' = wire /\ shared' = shared /\ lib' = lib /\ effects' = effects
  BY <1>1 DEF CleanupClose, In
<1>3. /\ CallsIn(stack[t]) = {c} \cup CallsIn(r) /\ c \in Calls /\ r \in Seq(Calls)
  BY <1>1, <1>2, TopCalls
<1>4. d \in Calls /\ d.op = "cleanup" /\ d.ev = c.ev
  BY <1>1, <1>2, <1>3 DEF Calls, Placed, Labels
<1>5. q = <<d>> \o r
  BY <1>1
<1>6. q \in Seq(Calls)
  BY <1>3, <1>4, <1>5
<1>7. CallsIn(q) = {d} \cup CallsIn(r)
  BY <1>3, <1>4, <1>5, CallsOf
<1>8. CloseSocket(t, q)
  BY <1>1, <1>3, MovedPlaces DEF CleanupClose
<1>9. \A b \in CallsIn(r) : b \in CallsIn(stack[t]) /\ b.op \in {"exit", "exec", "cleanup"}
  BY <1>1, <1>2, RestCalls
<1>10. \A b \in CallsIn(q) :
            /\ b.op \in {"exit", "exec", "cleanup"}
            /\ \E a \in CallsIn(stack[t]) : a.ev = b.ev
  BY <1>3, <1>4, <1>7, <1>9
<1> QED
  BY <1>1, <1>2, <1>6, <1>8, <1>10, CloseOrder

LEMMA ReportCloseOrder ==
  ASSUME CallInv, WireInv, OrderInv, NEW t \in Threads, ReportClose(t)
  PROVE  OrderInv'
<1>1. PICK c, r : c = Top(t) /\ r = Tail(stack[t])
  OBVIOUS
<1>2. /\ stack[t] # <<>> /\ c.op = "report" /\ CloseSocket(t, r)
      /\ wire' = wire /\ shared' = shared /\ lib' = lib /\ effects' = effects
  BY <1>1 DEF ReportClose, In
<1>3. r \in Seq(Calls)
  BY <1>1, <1>2, TopCalls
<1>4. \A b \in CallsIn(r) : b \in CallsIn(stack[t]) /\ b.op \in {"exit", "exec", "cleanup"}
  BY <1>1, <1>2, RestCalls
<1> QED
  BY <1>1, <1>2, <1>3, <1>4, CloseOrder

LEMMA CleanupResetOrder ==
  ASSUME CallInv, WireInv, OrderInv, NEW t \in Threads, CleanupReset(t)
  PROVE  OrderInv'
<1>1. PICK c : c = Top(t)
  OBVIOUS
<1>2. /\ stack[t] # <<>> /\ c.op = "cleanup" /\ c.at = "reset" /\ Return(t)
      /\ wire' = wire /\ shared' = shared /\ effects' = effects
  BY <1>1 DEF CleanupReset, In
<1>3. c \in CallsIn(stack[t]) /\ Form(c) /\ Owns(c)
  BY <1>1, <1>2, TopCalls DEF Owns
<1>4. PICK h \in Hooks : h = c.hook
  BY <1>2, <1>3 DEF Form
<1>5. Lib(t).mutex = t
  BY <1>1, <1>3, <1>4, OwnedMidway DEF WireInv, Lib
<1>6. \A p \in Procs : \A k \in Hooks :
         lib'[p][k].sock = lib[p][k].sock \/ lib[p][k].mutex \in {None, t}
  <2>1. \E m : SetLib(t, m)
    BY DEF CleanupReset
  <2> QED
    BY <1>1, <1>4, <1>5, <2>1, OwnLib
<1>7. NoBodies
  BY <1>2, SameWire
<1> QED
  BY <1>1, <1>2, <1>6, <1>7, QuietReturn

LEMMA ExitReportTestOrder ==
  ASSUME CallInv, WireInv, OrderInv, NEW t \in Threads, ExitReportTest(t)
  PROVE  OrderInv'
<1>1. PICK c, r, d, at : c = Top(t) /\ r = Tail(stack[t]) /\ d = Placed(c, at) /\ at = "connect"
  OBVIOUS
<1>2. /\ stack[t] # <<>> /\ c.op = "report" /\ c.at = "test" /\ at \in Labels
      /\ wire' = wire /\ shared' = shared /\ lib' = lib /\ effects' = effects
      /\ Return(t) \/ Goto(t, at)
  BY <1>1 DEF ExitReportTest, In, Labels
<1>3. NoBodies
  BY <1>2, SameWire
<1>4. CASE Return(t)
  BY <1>1, <1>2, <1>3, <1>4, QuietReturn
<1>5. CASE Goto(t, at)
  <2>1. Replaces(t, c, {d}, r) /\ made' = made
    BY <1>1, <1>2, <1>5, GotoCalls DEF Goto
  <2>2. d.op = c.op /\ d.at = at /\ d.ev = c.ev /\ d.hook = c.hook
    BY <1>1, PlacedCall
  <2>3. Unsent(c) /\ ~Unmade(d) /\ ~Told(d)
    BY <1>1, <1>2, <2>2 DEF Unsent, Unmade, Told
  <2> QED
    BY <1>1, <1>2, <1>3, <2>1, <2>2, <2>3, QuietMove
<1> QED
  BY <1>2, <1>4, <1>5

LEMMA ReportConnectOrder ==
  ASSUME CallInv, WireInv, OrderInv, NEW t \in Threads, ReportConnect(t)
  PROVE  OrderInv'
<1>1. PICK c, r : c = Top(t) /\ r = Tail(stack[t])
  OBVIOUS
<1>2. /\ stack[t] # <<>> /\ c.op = "report" /\ c.at = "connect"
      /\ lib' = lib /\ shared' = shared /\ made' = made /\ effects' = effects
  BY <1>1 DEF ReportConnect, In
<1>3. /\ CallsIn(stack[t]) = {c} \cup CallsIn(r) /\ c \in CallsIn(stack[t])
      /\ c \in Calls /\ r \in Seq(Calls) /\ Home[t] \in Procs
      /\ stack \in [Threads -> Seq(Calls)]
  BY <1>1, <1>2, TopCalls
<1>4. PICK e \in Sockets(Home[t], c.hook), at \in {"EVENT", "done"} :
         /\ IF e = NoConn THEN UNCHANGED wire ELSE Connect(e)
         /\ stack' = [stack EXCEPT ![t] =
                        IF e = NoConn THEN r
                        ELSE <<[c EXCEPT !.at = at, !.conn = e]>> \o r]
  BY <1>1 DEF ReportConnect
<1>5. CASE e = NoConn
  <2>1. Return(t) /\ NoBodies
    BY <1>1, <1>2, <1>4, <1>5, SameWire DEF Return
  <2> QED
    BY <1>1, <1>2, <2>1, QuietReturn
<1>6. CASE e # NoConn
  <2>1. e = NewConn(Home[t], c.hook) /\ Connect(e) /\ c.hook \in Names
    BY <1>3, <1>4, <1>6 DEF Sockets, Calls
  <2>2. NoBodies /\ e \in ConnNames
    BY <1>2, <1>3, <2>1, Connecting, ConnectsNoBody
  <2>3. PICK d : d = [c EXCEPT !.at = at, !.conn = e]
    OBVIOUS
  <2>4. d \in Calls /\ d.op = c.op /\ d.hook = c.hook /\ d.ev = c.ev
    BY <1>3, <1>4, <2>2, <2>3 DEF Calls, Labels, Fields
  <2>5. PICK n : n = <<d>> \o r
    OBVIOUS
  <2>6. CallsIn(n) = {d} \cup CallsIn(r)
    BY <1>3, <2>4, <2>5, CallsOf
  <2>7. stack' = [stack EXCEPT ![t] = n]
    BY <1>4, <1>6, <2>3, <2>5
  <2>8. Replaces(t, c, {d}, r)
    BY <1>3, <2>6, <2>7 DEF Replaces
  <2>9. Unsent(c) /\ ~Unmade(d) /\ ~Told(d)
    BY <1>2, <2>4 DEF Unsent, Unmade, Told
  <2> QED
    BY <1>1, <1>2, <2>2, <2>4, <2>8, <2>9, QuietMove
<1> QED
  BY <1>5, <1>6

LEMMA ReportFieldOrder ==
  ASSUME CallInv, WireInv, OrderInv, NEW t \in Threads, NEW k \in Fields, ReportField(t, k)
  PROVE  OrderInv'
<1>1. PICK c, r, at, d, e, s :
         /\ c = Top(t) /\ r = Tail(stack[t]) /\ at = IF k = "BODY" THEN "done" ELSE After(k)
         /\ d = Placed(c, at) /\ e = c.ev /\ s = c.conn
  OBVIOUS
<1>2. /\ stack[t] # <<>> /\ c.op = "report" /\ c.at = k
      /\ Write(s, Item(e, k)) /\ Goto(t, at)
      /\ lib' = lib /\ shared' = shared /\ effects' = effects /\ made' = made
  BY <1>1 DEF ReportField, In, Goto
<1>3. /\ CallsIn(stack[t]) = {c} \cup CallsIn(r) /\ c \in CallsIn(stack[t]) /\ Form(c)
  BY <1>1, <1>2, TopCalls
<1>4. s # NoConn /\ e \in Events
  BY <1>1, <1>2, SendingReport
<1>5. s \in Conns /\ s[2] \notin Hooks
  <2>1. s \in Conns
    BY <1>1, <1>3, <1>4, Calling
  <2>2. s[2] \in {"exit", "exec"}
    BY <1>1, <1>2, <1>3, <1>4 DEF WireInv, ReportConns, Form
  <2> QED
    BY <2>1, <2>2, InterposerAssumption
<1>6. at \in Labels
  BY <1>1 DEF After, Labels, Fields
<1>7. Replaces(t, c, {d}, r)
  BY <1>1, <1>2, <1>6, GotoCalls
<1>8. d.op = c.op /\ d.at = at /\ d.ev = c.ev /\ d.hook = c.hook
  BY <1>1, PlacedCall
<1>9. Unsent(c) /\ ~Unmade(d) /\ ~Told(d)
  BY <1>2, <1>8 DEF Unsent, Unmade, Told, Fields
<1>10. CASE k # "BODY"
  <2>1. k \in {"EVENT", "TYPE", "DONE"}
    BY <1>10 DEF Fields
  <2>2. NoBodies
    BY <1>2, <1>4, <1>5, <2>1, WritesNoBody
  <2> QED
    BY <1>1, <1>2, <1>7, <1>8, <1>9, <2>2, QuietMove
<1>11. CASE k = "BODY"
  <2>1. at = "done" /\ k \in Fields \cup {"DONE"}
    BY <1>1, <1>11
  <2>2. ~Unsent(d)
    BY <1>2, <1>8, <2>1 DEF Unsent
  <2>3. SendsBody(e, s)
    BY <1>2, <1>4, <1>5, <1>11, <2>1, Writing DEF SendsBody
  <2>4. Latest(e, s)
    BY <1>4, <1>5 DEF Latest, OrderInv, RealCalls
  <2>5. r = Tail(stack[t]) /\ c = Top(t) /\ e = c.ev
    BY <1>1
  <2> QED
    BY <1>2, <1>3, <1>4, <1>5, <1>7, <1>8, <1>9, <2>2, <2>3, <2>4, <2>5, BodyOrder
<1> QED
  BY <1>10, <1>11

LEMMA ReportDoneOrder ==
  ASSUME CallInv, WireInv, OrderInv, NEW t \in Threads, ReportDone(t)
  PROVE  OrderInv'
<1>1. PICK c, r, at, d, e, s, k :
         /\ c = Top(t) /\ r = Tail(stack[t]) /\ at = "close" /\ d = Placed(c, at)
         /\ e = c.ev /\ s = c.conn /\ k = "DONE"
  OBVIOUS
<1>2. /\ stack[t] # <<>> /\ c.op = "report" /\ c.at = "done" /\ at \in Labels
      /\ Write(s, Item(e, k)) /\ Goto(t, at) /\ made' = made
      /\ lib' = lib /\ shared' = shared /\ effects' = effects
  BY <1>1 DEF ReportDone, In, Labels, Goto
<1>3. s # NoConn /\ e \in Events /\ k \in {"EVENT", "TYPE", "DONE"}
  BY <1>1, <1>2, SendingReport
<1>4. s \in Conns
  BY <1>1, <1>2, <1>3, TopCalls, Calling
<1>5. NoBodies
  BY <1>2, <1>3, <1>4, WritesNoBody
<1>6. Replaces(t, c, {d}, r)
  BY <1>1, <1>2, GotoCalls
<1>7. d.op = c.op /\ d.at = at /\ d.ev = c.ev /\ d.hook = c.hook
  BY <1>1, PlacedCall
<1>8. ~Unsent(d) /\ ~Unmade(d) /\ ~Told(d)
  BY <1>1, <1>2, <1>7 DEF Unsent, Unmade, Told
<1> QED
  BY <1>1, <1>2, <1>5, <1>6, <1>7, <1>8, QuietMove

LEMMA ExitOrder ==
  ASSUME CallInv, WireInv, OrderInv, NEW t \in Threads,
         NEW how \in {"exit", "_exit", "return"}, Exit(t, how)
  PROVE  OrderInv'
<1>1. PICK at, end, report, q, none :
        /\ at = IF how = "_exit" THEN "end" ELSE "fini"
        /\ end = Call("exit", how, at, NewEvent(t))
        /\ report = Call("report", "exit", "test", NewEvent(t))
        /\ none = <<>> /\ q = <<end>>
  OBVIOUS
<1>2. "exit" \in Ops /\ how \in Names /\ at \in Labels
  BY <1>1 DEF Ops, Names, Labels
<1>3. end \in Calls /\ end.op = "exit" /\ end.ev = NewEvent(t)
  BY <1>1, <1>2, NewCall
<1>4. report \in Calls /\ report.op = "report" /\ report.ev = NewEvent(t)
  BY <1>1, NewCall DEF Ops, Names, Labels
<1>5. ~Told(end) /\ ~Told(report)
  BY <1>3, <1>4 DEF Told
<1>6. /\ none \in Seq(Calls) /\ CallsIn(none) = {}
      /\ q \in Seq(Calls) /\ CallsIn(q) = {end}
  <2>1. none \in Seq(Calls) /\ CallsIn(none) = {}
    BY <1>1 DEF CallsIn
  <2>2. q \in Seq(Calls)
    BY <1>1, <1>3
  <2>3. DOMAIN q = {1} /\ q[1] = end
    BY <1>1
  <2>4. CallsIn(q) = {end}
    BY <2>3 DEF CallsIn
  <2> QED
    BY <2>1, <2>2, <2>4
<1>7. /\ wire' = wire /\ shared' = shared /\ lib' = lib /\ effects' = effects /\ stack[t] = <<>>
      /\ Enter(t, end, none) \/ Enter(t, report, q)
  BY <1>1 DEF Exit, Idle
<1>8. CASE Enter(t, end, none)
  BY <1>3, <1>5, <1>6, <1>7, <1>8, QuietEnter
<1>9. CASE Enter(t, report, q)
  <2>1. \A b \in CallsIn(q) : b.op \in {"exit", "exec", "cleanup"} /\ b.ev = NewEvent(t)
    BY <1>3, <1>6
  <2> QED
    BY <1>4, <1>5, <1>6, <1>7, <1>9, <2>1, QuietEnter
<1> QED
  BY <1>7, <1>8, <1>9

LEMMA ExecveOrder ==
  ASSUME CallInv, WireInv, OrderInv, NEW t \in Threads, Execve(t)
  PROVE  OrderInv'
<1>1. PICK image, report, q :
        /\ image = Call("exec", "exec", "real", NewEvent(t)) /\ q = <<image>>
        /\ report = Call("report", "exec", "connect", NewEvent(t))
  OBVIOUS
<1>2. image \in Calls /\ image.op = "exec" /\ image.ev = NewEvent(t)
  <2>1. PICK op \in Ops, hook \in Names, at \in Labels : op = "exec" /\ hook = "exec" /\ at = "real"
    BY DEF Ops, Names, Labels
  <2> QED
    BY <1>1, <2>1, NewCall
<1>3. report \in Calls /\ report.op = "report" /\ report.ev = NewEvent(t)
  <2>1. PICK op \in Ops, hook \in Names, at \in Labels : op = "report" /\ hook = "exec" /\ at = "connect"
    BY DEF Ops, Names, Labels
  <2> QED
    BY <1>1, <2>1, NewCall
<1>4. ~Told(report)
  BY <1>3 DEF Told
<1>5. q \in Seq(Calls) /\ \A b \in CallsIn(q) : b.op \in {"exit", "exec", "cleanup"} /\ b.ev = NewEvent(t)
  <2>1. q \in Seq(Calls)
    BY <1>1, <1>2
  <2>2. DOMAIN q = {1} /\ q[1] = image
    BY <1>1
  <2>3. CallsIn(q) = {image}
    BY <2>2 DEF CallsIn
  <2> QED
    BY <1>2, <2>1, <2>3
<1>6. /\ wire' = wire /\ shared' = shared /\ lib' = lib /\ effects' = effects /\ stack[t] = <<>>
      /\ Enter(t, report, q)
  BY <1>1 DEF Execve, Idle
<1> QED
  BY <1>3, <1>4, <1>5, <1>6, QuietEnter

LEMMA FiniOrder ==
  ASSUME CallInv, WireInv, OrderInv, NEW t \in Threads, NEW h \in Hooks, Fini(t, h)
  PROVE  OrderInv'
<1>1. PICK d, q, c, r : /\ d = Call("cleanup", h, "lock", NewEvent(t)) /\ q = stack[t]
                        /\ c = Top(t) /\ r = Tail(stack[t])
  OBVIOUS
<1>2. d \in Calls /\ d.op = "cleanup" /\ d.ev = NewEvent(t)
  <2>1. PICK op \in Ops, hook \in Names, at \in Labels : op = "cleanup" /\ hook = h /\ at = "lock"
    BY DEF Ops, Names, Labels
  <2> QED
    BY <1>1, <2>1, NewCall
<1>3. ~Told(d)
  BY <1>2 DEF Told
<1>4. /\ q \in Seq(Calls) /\ stack[t] # <<>> /\ c.op = "exit"
      /\ wire' = wire /\ shared' = shared /\ lib' = lib /\ effects' = effects /\ Enter(t, d, q)
  BY <1>1 DEF Fini, In, CallInv, TypeOK
<1>5. CallsIn(q) = {c} \cup CallsIn(r)
  BY <1>1, <1>4, TopCalls
<1>6. \A b \in CallsIn(r) : b.op \in {"exit", "exec", "cleanup"}
  BY <1>1, <1>4, RestCalls
<1>7. \A b \in CallsIn(q) :
            /\ b.op \in {"exit", "exec", "cleanup"}
            /\ b.ev = NewEvent(t) \/ \E a \in CallsIn(stack[t]) : a.ev = b.ev
  BY <1>1, <1>4, <1>5, <1>6
<1> QED
  BY <1>1, <1>2, <1>3, <1>4, <1>7, QuietEnter

LEMMA ExitHandlerOrder ==
  ASSUME CallInv, WireInv, OrderInv, NEW t \in Threads, ExitHandler(t)
  PROVE  OrderInv'
<1>1. PICK c, r, e, q, d : /\ c = Top(t) /\ r = Tail(stack[t])
                           /\ e = Placed(c, "end") /\ q = <<e>> \o r
                           /\ d = Call("report", "exit", "test", NewEvent(t))
  OBVIOUS
<1>2. /\ stack[t] # <<>> /\ c.op = "exit" /\ wire' = wire /\ shared' = shared /\ lib' = lib
      /\ effects' = effects /\ Enter(t, d, Moved(t, "end"))
  BY <1>1 DEF ExitHandler, In
<1>3. d \in Calls /\ d.op = "report" /\ d.ev = NewEvent(t)
  <2>1. PICK op \in Ops, hook \in Names, at \in Labels : op = "report" /\ hook = "exit" /\ at = "test"
    BY DEF Ops, Names, Labels
  <2> QED
    BY <1>1, <2>1, NewCall
<1>4. c \in Calls /\ r \in Seq(Calls) /\ CallsIn(stack[t]) = {c} \cup CallsIn(r)
  BY <1>1, <1>2, TopCalls
<1>5. e \in Calls /\ e.op = "exit" /\ e.ev = c.ev
  BY <1>1, <1>2, <1>4 DEF Calls, Placed, Labels
<1>6. q \in Seq(Calls)
  BY <1>1, <1>4, <1>5
<1>7. CallsIn(q) = {e} \cup CallsIn(r)
  BY <1>1, <1>4, <1>5, CallsOf
<1>8. Enter(t, d, q)
  BY <1>1, <1>2, <1>4, MovedPlaces
<1>9. ~Told(d)
  BY <1>3 DEF Told
<1>10. \A b \in CallsIn(r) : b.op \in {"exit", "exec", "cleanup"}
  BY <1>1, <1>2, RestCalls
<1>11. \A b \in CallsIn(q) :
            /\ b.op \in {"exit", "exec", "cleanup"}
            /\ b.ev = NewEvent(t) \/ \E a \in CallsIn(stack[t]) : a.ev = b.ev
  BY <1>4, <1>5, <1>7, <1>10
<1> QED
  BY <1>1, <1>2, <1>3, <1>6, <1>8, <1>9, <1>11, QuietEnter

LEMMA RealExecveOrder ==
  ASSUME CallInv, WireInv, OrderInv, NEW t \in Threads, RealExecve(t)
  PROVE  OrderInv'
<1>1. PICK c : c = Top(t)
  OBVIOUS
<1>2. stack[t] # <<>> /\ c.op = "exec" /\ UNCHANGED <<lib, wire, shared, effects>>
  BY <1>1 DEF RealExecve, In
<1>3. CASE Return(t)
  <2>1. NoBodies
    BY <1>2, SameWire
  <2> QED
    BY <1>1, <1>2, <1>3, <2>1, QuietReturn
<1>4. CASE UNCHANGED <<stack, made>>
  BY <1>2, <1>4, SameOrder
<1> QED
  BY <1>3, <1>4 DEF RealExecve

LEMMA ForkOrder ==
  ASSUME CallInv, WireInv, OrderInv, NEW t \in Threads, NEW u \in Threads, Fork(t, u)
  PROVE  OrderInv'
<1>1. /\ stack[t] = <<>> /\ proc[Home[u]] = "unborn"
      /\ UNCHANGED <<stack, made, wire, effects>>
      /\ lib' = [lib EXCEPT ![Home[u]] = lib[Home[t]]]
      /\ shared \subseteq shared'
  BY DEF Fork, Idle
<1>2. NoBodies /\ Later
  BY <1>1, SameWire, SameMade DEF CallInv
<1>3. \A p \in Procs : \A h \in Hooks :
         lib'[p][h].sock = lib[p][h].sock \/ lib[p][h].mutex \in {None, t}
  <2> SUFFICES ASSUME NEW p \in Procs, NEW h \in Hooks
               PROVE  lib'[p][h].sock = lib[p][h].sock \/ lib[p][h].mutex \in {None, t}
    OBVIOUS
  <2>1. CASE p = Home[u]
    BY <1>1, <2>1 DEF CallInv, LibInv, LibState, Unloaded
  <2>2. CASE p # Home[u]
    BY <1>1, <2>2 DEF CallInv, TypeOK
  <2> QED
    BY <2>1, <2>2
<1>4. CallsIn(stack[t]) = {} /\ CallsIn(stack'[t]) = {}
  BY <1>1 DEF CallsIn
<1>5. PICK D : D = {}
  OBVIOUS
<1>6. /\ \A d \in CallsIn(stack'[t]) : d \in D \/ (d \in CallsIn(stack[t]) /\ d.op # "call")
      /\ \A v \in Threads \ {t} : stack'[v] = stack[v]
  BY <1>1, <1>4
<1>7. \A b \in D : /\ b.ev[1] = t /\ b.ev[2] \in Nat /\ b.ev[2] <= made'[t]
                   /\ Unsent(b) => \/ b.ev[2] > made[t]
                                   \/ \E a \in CallsIn(stack[t]) : Unsent(a) /\ a.ev = b.ev
                   /\ Unmade(b) => \/ b.ev[2] > made[t]
                                   \/ \E a \in CallsIn(stack[t]) : Unmade(a) /\ a.ev = b.ev
                   /\ Told(b) => Reports(b, lib[Home[t]][b.hook], effects[Home[t]][b.hook])'
  BY <1>5
<1>8. \A a \in CallsIn(stack[t]) : a.op = "call" =>
         \E b \in CallsIn(stack'[t]) : b.op = "call" /\ b.ev = a.ev
  BY <1>4
<1> QED
  BY <1>1, <1>2, <1>3, <1>6, <1>7, <1>8, QuietOrder

LEMMA OrderInit == Init => OrderInv
<1> SUFFICES ASSUME Init PROVE OrderInv
  OBVIOUS
<1>1. Conns = {}
  BY DEF Init, Conns
<1>2. \A t \in Threads : CallsIn(stack[t]) = {}
  BY DEF Init, CallsIn
<1>3. \A p \in Procs : \A h \in Hooks : DOMAIN effects[p][h] = {}
  BY DEF Init
<1>4. EventNumbers /\ EventsOnce /\ Reporting
  BY <1>1, <1>2 DEF EventNumbers, EventsOnce, Reporting
<1>5. RealCalls /\ Complete /\ Ordered
  BY <1>3 DEF RealCalls, Complete, Ordered
<1> QED
  BY <1>4, <1>5 DEF OrderInv

LEMMA OrderNext ==
  ASSUME CallInv, WireInv, OrderInv, [Next]_vars
  PROVE  OrderInv'
<1>1. CASE UNCHANGED vars
  BY <1>1, SameOrder DEF vars
<1>2. ASSUME NEW t \in Threads, Proceed(t) \/ Begin(t)
      PROVE  OrderInv'
  <2>1. CASE HookStep(t)
    BY <2>1, CheckFinalizedOrder, ForwardOrder, LockOrder, RealOrder, WriteFieldOrder,
       UnlockOrder DEF HookStep
  <2>2. CASE CleanupStep(t)
    BY <2>2, CleanupLockOrder, CleanupDoneOrder, CleanupCloseOrder, CleanupResetOrder DEF CleanupStep
  <2>3. CASE ReportStep(t)
    BY <2>3, ExitReportTestOrder, ReportConnectOrder, ReportFieldOrder, ReportDoneOrder,
       ReportCloseOrder DEF ReportStep
  <2>4. CASE End(t)
    BY <2>4, SameOrder DEF End
  <2>5. CASE (\E h \in Hooks : Fini(t, h)) \/ ExitHandler(t) \/ RealExecve(t)
    BY <2>5, FiniOrder, ExitHandlerOrder, RealExecveOrder
  <2>6. CASE Begin(t)
    BY <2>6, CallHookOrder, ExitOrder, ExecveOrder, ForkOrder DEF Begin
  <2> QED
    BY <1>2, <2>1, <2>2, <2>3, <2>4, <2>5, <2>6 DEF Proceed
<1> QED
  BY <1>1, <1>2 DEF Next

\* Each event is sent in full at most once on a connection, and the real call a thread is
\* reporting is the latest of its library, because the mutex is kept from the one to the other.
THEOREM ReportsLatestCall == Spec => []OrderInv
<1>1. Init => OrderInv
  BY OrderInit
<1>2. CallInv /\ WireInv /\ OrderInv /\ [Next]_vars => OrderInv'
  BY OrderNext
<1>3. Spec => []CallInv
  BY CallsNestAndLock
<1>4. Spec => []WireInv
  BY ConnectionsInTurn
<1> QED
  BY <1>1, <1>2, <1>3, <1>4, PTL DEF Spec

\* A call that has returned was reported exactly once unless it had no socket or nothing to
\* report, and the reports on a connection that nobody shares are in the order of the real
\* calls, for any number of threads and libraries.
THEOREM RealCallsReportedInOrder == Spec => []ReportedInOrder
<1>1. CallInv /\ OrderInv => ReportedInOrder
  BY ReportedParts DEF CallInv, OrderInv
<1>2. Spec => []CallInv
  BY CallsNestAndLock
<1>3. Spec => []OrderInv
  BY ReportsLatestCall
<1> QED
  BY <1>1, <1>2, <1>3, PTL

-----------------------------------------------------------------------------
(* The exit: what steps that have nothing to do with it change. *)

\* The end of the process goes on where it was,
QuietEnds == \A u \in Threads : EndCalls(stack'[u]) = EndCalls(stack[u])

\* and so do the connections it is reported on.
ExitConn(c) == c \in Conns /\ c[2] = "exit"
QuietConns ==
    /\ \A c : ExitConn(c)' <=> ExitConn(c)
    /\ \A c : ExitConn(c) => wire'[c] = wire[c]

\* The end of the process on a stack.
LEMMA EndsOf ==
  ASSUME CallInv, NEW t \in Threads, stack[t] # <<>>,
         NEW c, c = Top(t), NEW r, r = Tail(stack[t])
  PROVE  EndCalls(stack[t]) = {b \in {c} : Ends(b)} \cup EndCalls(r)
<1>1. CallsIn(stack[t]) = {c} \cup CallsIn(r)
  BY TopCalls
<1> QED
  BY <1>1 DEF EndCalls

LEMMA ReplacedEnds ==
  ASSUME NEW t \in Threads, NEW c, NEW D, NEW r, Replaces(t, c, D, r),
         ~Ends(c), \A d \in D : ~Ends(d)
  PROVE  QuietEnds
<1>1. /\ CallsIn(stack[t]) = {c} \cup CallsIn(r)
      /\ CallsIn(stack'[t]) = D \cup CallsIn(r)
      /\ \A u \in Threads \ {t} : stack'[u] = stack[u]
  BY DEF Replaces
<1>2. EndCalls(stack[t]) = EndCalls(r) /\ EndCalls(stack'[t]) = EndCalls(r)
  BY <1>1 DEF EndCalls
<1> QED
  BY <1>1, <1>2 DEF QuietEnds

LEMMA GotoEnds ==
  ASSUME CallInv, NEW t \in Threads, stack[t] # <<>>, NEW at \in Labels, Goto(t, at), ~Ends(Top(t))
  PROVE  QuietEnds
<1>1. PICK c, r, d : c = Top(t) /\ r = Tail(stack[t]) /\ d = Placed(c, at)
  OBVIOUS
<1>2. Replaces(t, c, {d}, r)
  BY <1>1, GotoCalls
<1>3. ~Ends(c) /\ ~Ends(d)
  BY <1>1, PlacedCall DEF Ends, Reporter
<1> QED
  BY <1>2, <1>3, ReplacedEnds

LEMMA ReturnEnds ==
  ASSUME CallInv, NEW t \in Threads, stack[t] # <<>>, Return(t), ~Ends(Top(t))
  PROVE  QuietEnds
<1>1. PICK c, r : c = Top(t) /\ r = Tail(stack[t])
  OBVIOUS
<1>2. Replaces(t, c, {}, r)
  BY <1>1, ReturnCalls
<1> QED
  BY <1>1, <1>2, ReplacedEnds

LEMMA EnterEnds ==
  ASSUME CallInv, NEW t \in Threads, NEW d \in Calls, NEW q \in Seq(Calls), Enter(t, d, q),
         ~Ends(d), EndCalls(q) = EndCalls(stack[t])
  PROVE  QuietEnds
<1>1. /\ CallsIn(stack'[t]) = {d} \cup CallsIn(q)
      /\ \A u \in Threads \ {t} : stack'[u] = stack[u]
  BY EnterCalls
<1>2. EndCalls(stack'[t]) = EndCalls(q)
  BY <1>1 DEF EndCalls
<1> QED
  BY <1>1, <1>2 DEF QuietEnds

\* The stack after voyeur_close_socket().
LEMMA ClosedEnds ==
  ASSUME CallInv, NEW t \in Threads, NEW q \in Seq(Calls), CloseSocket(t, q)
  PROVE  /\ EndCalls(stack'[t]) = EndCalls(q)
         /\ \A u \in Threads \ {t} : stack'[u] = stack[u]
<1>1. CASE "close" \in Hooks
  <2>1. PICK d : d = Call("call", "close", Entry("close"), NewEvent(t))
    OBVIOUS
  <2>2. Entry("close") \in {"check", "lock"}
    BY DEF Entry
  <2>3. d \in Calls /\ d.op = "call"
    BY <1>1, <2>1, <2>2, NewCall DEF Ops, Names, Labels
  <2>4. Enter(t, d, q)
    BY <1>1, <2>1 DEF CloseSocket
  <2>5. /\ CallsIn(stack'[t]) = {d} \cup CallsIn(q)
        /\ \A u \in Threads \ {t} : stack'[u] = stack[u]
    BY <2>3, <2>4, EnterCalls
  <2>6. ~Ends(d)
    BY <2>3 DEF Ends, Reporter
  <2> QED
    BY <2>5, <2>6 DEF EndCalls
<1>2. CASE "close" \notin Hooks
  <2>1. stack' = [stack EXCEPT ![t] = q] /\ stack \in [Threads -> Seq(Calls)]
    BY <1>2 DEF CloseSocket, CallInv, TypeOK
  <2> QED
    BY <2>1
<1> QED
  BY <1>1, <1>2

LEMMA SameExits ==
  ASSUME wire' = wire
  PROVE  QuietConns
BY DEF QuietConns, ExitConn, Conns

LEMMA WriteExits ==
  ASSUME CallInv, NEW s \in Conns, NEW k \in Fields \cup {"DONE"}, NEW e \in Events,
         Write(s, Item(e, k)), s[2] # "exit"
  PROVE  QuietConns
<1>1. Conns' = Conns /\ \A d \in Conns : d # s => wire'[d] = wire[d]
  BY Writing
<1> QED
  BY <1>1 DEF QuietConns, ExitConn

LEMMA ConnectExits ==
  ASSUME CallInv, NEW p \in Procs, NEW what \in Names, NEW s, s = NewConn(p, what),
         Connect(s), what # "exit"
  PROVE  QuietConns
<1>1. /\ Conns' = Conns \cup {s} /\ s[2] = what
      /\ \A d \in Conns : wire'[d] = wire[d]
  BY Connecting
<1> QED
  BY <1>1 DEF QuietConns, ExitConn

\* Steps that change neither keep the invariant.
LEMMA QuietExits ==
  ASSUME CallInv, WireInv, ExitInv, QuietEnds, QuietConns, did_exit_already' = did_exit_already,
         \A p \in Procs : \/ proc'[p] = proc[p]
                          \/ proc[p] = "alive" /\ proc'[p] \in {"replaced", "crashed"}
  PROVE  ExitInv'
<1>1. \A p \in Procs : Made(p, "exit")' = Made(p, "exit")
  BY DEF QuietConns, ExitConn, Made
<1>2. \A c : ExitConn(c) => Kinds(wire[c])' = Kinds(wire[c])
  BY DEF QuietConns, Kinds
<1>3. ASSUME NEW t \in Threads, NEW c \in EndCalls(stack'[t]) PROVE EndsIn(t, c)'
  <2>1. c \in EndCalls(stack[t]) /\ EndCalls(stack'[t]) = EndCalls(stack[t])
    BY <1>3 DEF QuietEnds
  <2>2. EndsIn(t, c)
    BY <2>1 DEF ExitInv, Endings
  <2>3. Reporter(c) /\ c.conn # NoConn => Kinds(wire[c.conn])' = Kinds(wire[c.conn])
    <3> SUFFICES ASSUME Reporter(c), c.conn # NoConn
                 PROVE  Kinds(wire[c.conn])' = Kinds(wire[c.conn])
      OBVIOUS
    <3>1. c \in CallsIn(stack[t]) /\ c.op = "report" /\ c.hook = "exit"
      BY <2>1 DEF EndCalls, Reporter
    <3>2. c.conn \in Conns /\ c.conn[2] = "exit"
      BY <3>1, Calling DEF WireInv, ReportConns
    <3> QED
      BY <1>2, <3>2 DEF ExitConn
  <2> QED
    BY <2>1, <2>2, <2>3 DEF EndsIn
<1>4. ASSUME NEW p \in Procs PROVE ExitOnce(p)'
  <2>1. ExitOnce(p)
    BY DEF ExitInv
  <2>2. \A c \in Made(p, "exit") : ExitConn(c) /\ Kinds(wire[c])' = Kinds(wire[c])
    BY <1>2 DEF Made, ExitConn
  <2>3. \A t \in Threads : \A c : ReportsOn(t, c)' <=> ReportsOn(t, c)
    BY DEF QuietEnds, ReportsOn
  <2>4. (\E c \in Conns : c[2] = "exit") => (\E c \in Conns : c[2] = "exit")'
    BY DEF QuietConns, ExitConn
  <2>5. /\ \A c, d \in Made(p, "exit") : c = d
        /\ Made(p, "exit") # {} => did_exit_already[p] /\ proc[p] # "unborn"
        /\ did_exit_already[p] /\ "exit" \notin SocketsFail /\ Made(p, "exit") = {} =>
              p # Root /\ \E c \in Conns : c[2] = "exit"
    BY <2>1 DEF ExitOnce
  <2>6. \A c \in Made(p, "exit") :
          Kinds(wire[c])' = Whole \/ \E t \in Threads : Home[t] = p /\ ReportsOn(t, c)'
    BY <2>1, <2>2, <2>3 DEF ExitOnce
  <2>7. proc'[p] = "exited" =>
          did_exit_already[p] /\ \A c \in Made(p, "exit") : Kinds(wire[c])' = Whole
    BY <2>1, <2>2 DEF ExitOnce
  <2>8. proc[p] # "unborn" => proc'[p] # "unborn"
    OBVIOUS
  <2> QED
    BY <1>1, <2>4, <2>5, <2>6, <2>7, <2>8 DEF ExitOnce
<1>5. proc'[Root] # "unborn"
  BY InterposerAssumption DEF ExitInv
<1> QED
  BY <1>3, <1>4, <1>5 DEF ExitInv, Endings

-----------------------------------------------------------------------------
(* The steps that have nothing to do with the exit. *)

\* A step of a call or a destructor.
LEMMA HookEnds ==
  ASSUME CallInv, NEW t \in Threads, HookStep(t) \/ CleanupStep(t)
  PROVE  QuietEnds
<1>1. /\ stack[t] # <<>> /\ Top(t).op \in {"call", "cleanup"}
      /\ stack \in [Threads -> Seq(Calls)] /\ Top(t) \in Calls /\ Tail(stack[t]) \in Seq(Calls)
  <2>1. stack[t] # <<>> /\ Top(t).op \in {"call", "cleanup"}
    BY DEF HookStep, CleanupStep, CheckFinalized, Forward, Lock, RealCall, WriteField, Unlock,
           CleanupLock, CleanupDone, CleanupClose, CleanupReset, In
  <2> QED
    BY <2>1, TopCalls
<1>2. ~Ends(Top(t))
  BY <1>1 DEF Ends, Reporter
<1>3. ASSUME NEW at \in Labels, Goto(t, at) PROVE QuietEnds
  BY <1>1, <1>2, <1>3, GotoEnds
<1>4. ASSUME Return(t) PROVE QuietEnds
  BY <1>1, <1>2, <1>4, ReturnEnds
<1>5. {"lock", "real", "unlock", "done", "close", "reset"} \cup Fields \subseteq Labels
  BY DEF Labels
<1>6. ASSUME HookStep(t) PROVE QuietEnds
  <2>1. CASE CheckFinalized(t)
    BY <1>3, <1>5, <2>1 DEF CheckFinalized
  <2>2. CASE Forward(t)
    <3>1. CASE UNCHANGED stack
      BY <3>1 DEF QuietEnds
    <3> QED
      BY <1>4, <2>2, <3>1 DEF Forward
  <2>3. CASE Lock(t)
    BY <1>3, <1>5, <2>3 DEF Lock
  <2>4. CASE RealCall(t)
    BY <1>3, <1>5, <2>4 DEF RealCall, Fields
  <2>5. ASSUME NEW k \in Fields, WriteField(t, k) PROVE QuietEnds
    <3>1. After(k) \in Labels
      BY <1>5 DEF After, Fields
    <3> QED
      BY <1>3, <2>5, <3>1 DEF WriteField
  <2>6. CASE Unlock(t)
    BY <1>4, <2>6 DEF Unlock
  <2> QED
    BY <1>6, <2>1, <2>2, <2>3, <2>4, <2>5, <2>6 DEF HookStep
<1>7. ASSUME CleanupStep(t) PROVE QuietEnds
  <2>1. CASE CleanupLock(t)
    BY <1>3, <1>5, <2>1 DEF CleanupLock
  <2>2. CASE CleanupDone(t)
    BY <1>3, <1>5, <2>2 DEF CleanupDone
  <2>3. CASE CleanupClose(t)
    <3>1. PICK c, r, d, q : /\ c = Top(t) /\ r = Tail(stack[t]) /\ d = Placed(c, "reset")
                            /\ q = <<d>> \o r
      OBVIOUS
    <3>2. d \in Calls /\ d.op = c.op
      BY <1>1, <1>5, <3>1 DEF Calls, Placed
    <3>3. q \in Seq(Calls) /\ CallsIn(q) = {d} \cup CallsIn(r)
      <4>1. q \in Seq(Calls)
        BY <1>1, <3>1, <3>2
      <4> QED
        BY <1>1, <3>1, <3>2, <4>1, CallsOf
    <3>4. CloseSocket(t, q)
      BY <1>1, <2>3, <3>1, MovedPlaces DEF CleanupClose
    <3>5. /\ EndCalls(stack'[t]) = EndCalls(q)
          /\ \A u \in Threads \ {t} : stack'[u] = stack[u]
      BY <3>3, <3>4, ClosedEnds
    <3>6. EndCalls(stack[t]) = EndCalls(r)
      <4>1. EndCalls(stack[t]) = {b \in {c} : Ends(b)} \cup EndCalls(r)
        BY <1>1, <3>1, EndsOf
      <4> QED
        BY <1>2, <3>1, <4>1
    <3>7. EndCalls(q) = EndCalls(r)
      BY <1>1, <3>1, <3>2, <3>3 DEF EndCalls, Ends, Reporter
    <3> QED
      BY <3>5, <3>6, <3>7 DEF QuietEnds
  <2>4. CASE CleanupReset(t)
    BY <1>4, <2>4 DEF CleanupReset
  <2> QED
    BY <1>7, <2>1, <2>2, <2>3, <2>4 DEF CleanupStep
<1> QED
  BY <1>6, <1>7

LEMMA HookConns ==
  ASSUME CallInv, WireInv, NEW t \in Threads, HookStep(t) \/ CleanupStep(t)
  PROVE  QuietConns
<1>1. PICK c : c = Top(t)
  OBVIOUS
<1>2. ASSUME NEW k \in Fields \cup {"DONE"}, stack[t] # <<>>, c.op \in {"call", "cleanup"},
             c.at \in Fields \cup {"done"}, Write(Lib(t).sock, Item(c.ev, k))
      PROVE  QuietConns
  <2>1. PICK s \in Conns : s = Lib(t).sock /\ s # NoConn
    BY <1>1, <1>2, HasSocket
  <2>2. c.ev \in Events /\ c.hook \in Hooks /\ Home[t] \in Procs
    BY <1>1, <1>2, HasSocket
  <2>3. s[2] \in Hooks
    BY <1>1, <2>1, <2>2 DEF WireInv, LibConns, Lib
  <2>4. s[2] # "exit"
    BY <2>3, InterposerAssumption
  <2> QED
    BY <1>2, <2>1, <2>2, <2>4, WriteExits
<1>3. CASE UNCHANGED wire
  BY <1>3, SameExits
<1>4. CASE Lock(t)
  <2>1. stack[t] # <<>> /\ c.op = "call" /\ c.at = "lock"
    BY <1>1, <1>4 DEF Lock, In
  <2>2. PICK r : r = Tail(stack[t])
    OBVIOUS
  <2>3. c.hook \in Hooks /\ c.hook \in Names /\ Home[t] \in Procs
    BY <1>1, <2>1, <2>2, TopCalls DEF Form, Names
  <2>4. ASSUME NEW s \in Sockets(Home[t], c.hook), s # NoConn, Connect(s) PROVE QuietConns
    <3>1. s = NewConn(Home[t], c.hook)
      BY <2>4 DEF Sockets
    <3>2. c.hook # "exit"
      BY <2>3, InterposerAssumption
    <3> QED
      BY <2>3, <2>4, <3>1, <3>2, ConnectExits
  <2> QED
    BY <1>1, <1>3, <1>4, <2>4 DEF Lock
<1>5. ASSUME NEW k \in Fields, WriteField(t, k) PROVE QuietConns
  BY <1>1, <1>2, <1>5 DEF WriteField, In
<1>6. CASE CleanupDone(t)
  BY <1>1, <1>2, <1>6 DEF CleanupDone, In
<1>7. CASE CheckFinalized(t) \/ Forward(t) \/ RealCall(t) \/ Unlock(t)
  BY <1>3, <1>7 DEF CheckFinalized, Forward, RealCall, Unlock
<1>8. CASE CleanupLock(t) \/ CleanupClose(t) \/ CleanupReset(t)
  BY <1>3, <1>8 DEF CleanupLock, CleanupClose, CleanupReset
<1> QED
  BY <1>4, <1>5, <1>6, <1>7, <1>8 DEF HookStep, CleanupStep

LEMMA HookExits ==
  ASSUME CallInv, WireInv, ExitInv, NEW t \in Threads, HookStep(t) \/ CleanupStep(t)
  PROVE  ExitInv'
<1>1. QuietEnds /\ QuietConns
  BY HookEnds, HookConns
<1>2. did_exit_already' = did_exit_already
  BY DEF HookStep, CleanupStep, CheckFinalized, Forward, Lock, RealCall, WriteField, Unlock,
         CleanupLock, CleanupDone, CleanupClose, CleanupReset
<1>3. proc' = proc \/ Forward(t)
  BY DEF HookStep, CleanupStep, CheckFinalized, Lock, RealCall, WriteField, Unlock,
         CleanupLock, CleanupDone, CleanupClose, CleanupReset
<1>4. \A p \in Procs : \/ proc'[p] = proc[p]
                       \/ proc[p] = "alive" /\ proc'[p] \in {"replaced", "crashed"}
  <2>1. CASE Forward(t)
    BY <2>1 DEF Forward, In, Runs, CallInv, TypeOK
  <2> QED
    BY <1>3, <2>1
<1> QED
  BY <1>1, <1>2, <1>4, QuietExits

LEMMA CallHookExits ==
  ASSUME CallInv, WireInv, ExitInv, NEW t \in Threads, NEW h \in Hooks, CallHook(t, h)
  PROVE  ExitInv'
<1>1. PICK d : d = Call("call", h, Entry(h), NewEvent(t))
  OBVIOUS
<1>2. Entry(h) \in {"check", "lock"}
  BY DEF Entry
<1>3. d \in Calls /\ d.op = "call"
  BY <1>1, <1>2, NewCall DEF Ops, Names, Labels
<1>4. stack[t] \in Seq(Calls) /\ Enter(t, d, stack[t])
  BY <1>1 DEF CallHook, CallInv, TypeOK
<1>5. ~Ends(d)
  BY <1>3 DEF Ends, Reporter
<1>6. QuietEnds
  BY <1>3, <1>4, <1>5, EnterEnds
<1>7. QuietConns
  BY SameExits DEF CallHook
<1> QED
  BY <1>6, <1>7, QuietExits DEF CallHook

LEMMA FiniExits ==
  ASSUME CallInv, WireInv, ExitInv, NEW t \in Threads, NEW h \in Hooks, Fini(t, h)
  PROVE  ExitInv'
<1>1. PICK d : d = Call("cleanup", h, "lock", NewEvent(t))
  OBVIOUS
<1>2. d \in Calls /\ d.op = "cleanup"
  BY <1>1, NewCall DEF Ops, Names, Labels
<1>3. stack[t] \in Seq(Calls) /\ Enter(t, d, stack[t])
  BY <1>1 DEF Fini, CallInv, TypeOK
<1>4. ~Ends(d)
  BY <1>2 DEF Ends, Reporter
<1>5. QuietEnds
  BY <1>2, <1>3, <1>4, EnterEnds
<1>6. QuietConns
  BY SameExits DEF Fini
<1> QED
  BY <1>5, <1>6, QuietExits DEF Fini

LEMMA ExecveExits ==
  ASSUME CallInv, WireInv, ExitInv, NEW t \in Threads, Execve(t) \/ RealExecve(t)
  PROVE  ExitInv'
<1>1. QuietConns /\ did_exit_already' = did_exit_already
  BY SameExits DEF Execve, RealExecve
<1>2. \A p \in Procs : \/ proc'[p] = proc[p]
                       \/ proc[p] = "alive" /\ proc'[p] \in {"replaced", "crashed"}
  BY DEF Execve, RealExecve, In, Runs, CallInv, TypeOK
<1>3. CASE Execve(t)
  <2>1. PICK image, report, q :
          /\ image = Call("exec", "exec", "real", NewEvent(t)) /\ q = <<image>>
          /\ report = Call("report", "exec", "connect", NewEvent(t))
    OBVIOUS
  <2>2. image \in Calls /\ image.op = "exec"
    <3>1. PICK op \in Ops, hook \in Names, at \in Labels : op = "exec" /\ hook = "exec" /\ at = "real"
      BY DEF Ops, Names, Labels
    <3> QED
      BY <2>1, <3>1, NewCall
  <2>3. report \in Calls /\ report.op = "report" /\ report.hook = "exec"
    <3>1. PICK op \in Ops, hook \in Names, at \in Labels : op = "report" /\ hook = "exec" /\ at = "connect"
      BY DEF Ops, Names, Labels
    <3> QED
      BY <2>1, <3>1, NewCall
  <2>4. ~Ends(image) /\ ~Ends(report)
    BY <2>2, <2>3 DEF Ends, Reporter
  <2>5. q \in Seq(Calls) /\ CallsIn(q) = {image}
    <3>1. q \in Seq(Calls)
      BY <2>1, <2>2
    <3>2. DOMAIN q = {1} /\ q[1] = image
      BY <2>1
    <3> QED
      BY <3>1, <3>2 DEF CallsIn
  <2>6. stack[t] = <<>> /\ Enter(t, report, q)
    BY <1>3, <2>1 DEF Execve, Idle
  <2>7. EndCalls(q) = EndCalls(stack[t])
    <3>1. CallsIn(stack[t]) = {}
      BY <2>6 DEF CallsIn
    <3> QED
      BY <2>4, <2>5, <3>1 DEF EndCalls
  <2>8. QuietEnds
    BY <2>3, <2>4, <2>5, <2>6, <2>7, EnterEnds
  <2> QED
    BY <1>1, <1>2, <2>8, QuietExits
<1>4. CASE RealExecve(t)
  <2>1. stack[t] # <<>> /\ ~Ends(Top(t))
    BY <1>4 DEF RealExecve, In, Ends, Reporter
  <2>2. QuietEnds
    <3>1. CASE UNCHANGED stack
      BY <3>1 DEF QuietEnds
    <3> QED
      BY <1>4, <2>1, <3>1, ReturnEnds DEF RealExecve
  <2> QED
    BY <1>1, <1>2, <2>2, QuietExits
<1> QED
  BY <1>3, <1>4

\* The report of an execve().
LEMMA ExecReportExits ==
  ASSUME CallInv, WireInv, ExitInv, NEW t \in Threads, ReportStep(t), Top(t).hook # "exit"
  PROVE  ExitInv'
<1>1. PICK c, r : c = Top(t) /\ r = Tail(stack[t])
  OBVIOUS
<1>2. stack[t] # <<>> /\ c.op = "report" /\ ~Ends(c)
  BY <1>1 DEF ReportStep, ExitReportTest, ReportConnect, ReportField, ReportDone, ReportClose,
              In, Ends, Reporter
<1>3. /\ c \in Calls /\ r \in Seq(Calls) /\ Home[t] \in Procs /\ c.hook = "exec"
      /\ c \in CallsIn(stack[t]) /\ CallsIn(stack[t]) = {c} \cup CallsIn(r)
      /\ stack \in [Threads -> Seq(Calls)]
  BY <1>1, <1>2, TopCalls DEF Form
<1>4. ASSUME NEW at \in Labels, Goto(t, at) PROVE QuietEnds
  BY <1>1, <1>2, <1>4, GotoEnds
<1>5. ASSUME Return(t) PROVE QuietEnds
  BY <1>1, <1>2, <1>5, ReturnEnds
<1>6. {"connect", "EVENT", "TYPE", "BODY", "unlock", "done", "close"} \subseteq Labels
  BY DEF Labels, Fields
<1>7. ASSUME NEW k \in Fields \cup {"DONE"}, c.at \in Fields \cup {"done"},
             Write(c.conn, Item(c.ev, k))
      PROVE  QuietConns
  <2>1. c.conn # NoConn /\ c.ev \in Events
    BY <1>1, <1>2, <1>7, SendingReport
  <2>2. c.conn \in Conns /\ c.conn[2] = "exec"
    BY <1>2, <1>3, <2>1, Calling DEF WireInv, ReportConns
  <2> QED
    BY <1>7, <2>1, <2>2, WriteExits
<1>8. CASE ExitReportTest(t)
  <2>1. QuietEnds
    BY <1>4, <1>5, <1>6, <1>8 DEF ExitReportTest
  <2>2. QuietConns
    BY <1>8, SameExits DEF ExitReportTest
  <2> QED
    BY <1>8, <2>1, <2>2, QuietExits DEF ExitReportTest
<1>9. CASE ReportConnect(t)
  <2>1. did_exit_already' = did_exit_already
    BY <1>1, <1>3, <1>9 DEF ReportConnect, CallInv, TypeOK
  <2>2. PICK e \in Sockets(Home[t], c.hook), at \in {"EVENT", "done"} :
         /\ IF e = NoConn THEN UNCHANGED wire ELSE Connect(e)
         /\ stack' = [stack EXCEPT ![t] =
                        IF e = NoConn THEN r
                        ELSE <<[c EXCEPT !.at = at, !.conn = e]>> \o r]
    BY <1>1, <1>9 DEF ReportConnect
  <2>3. CASE e = NoConn
    <3>1. Return(t)
      BY <1>1, <1>9, <2>2, <2>3 DEF Return, ReportConnect
    <3>2. QuietConns
      BY <2>2, <2>3, SameExits
    <3> QED
      BY <1>5, <1>9, <2>1, <3>1, <3>2, QuietExits DEF ReportConnect
  <2>4. CASE e # NoConn
    <3>1. e = NewConn(Home[t], c.hook) /\ Connect(e) /\ c.hook \in Names /\ c.hook # "exit"
      BY <1>3, <2>2, <2>4 DEF Sockets, Calls
    <3>2. QuietConns /\ e \in ConnNames
      BY <1>3, <3>1, ConnectExits, Connecting
    <3>3. PICK d : d = [c EXCEPT !.at = at, !.conn = e]
      OBVIOUS
    <3>4. d \in Calls /\ d.op = "report" /\ d.hook = c.hook
      BY <1>2, <1>3, <2>2, <3>2, <3>3 DEF Calls, Labels, Fields
    <3>5. PICK n : n = <<d>> \o r
      OBVIOUS
    <3>6. CallsIn(n) = {d} \cup CallsIn(r)
      BY <1>3, <3>4, <3>5, CallsOf
    <3>7. stack' = [stack EXCEPT ![t] = n]
      BY <2>2, <2>4, <3>3, <3>5
    <3>8. Replaces(t, c, {d}, r)
      BY <1>3, <3>6, <3>7 DEF Replaces
    <3>9. ~Ends(d)
      BY <1>3, <3>4 DEF Ends, Reporter
    <3>10. QuietEnds
      BY <1>2, <3>8, <3>9, ReplacedEnds
    <3> QED
      BY <1>9, <2>1, <3>2, <3>10, QuietExits DEF ReportConnect
  <2> QED
    BY <2>3, <2>4
<1>10. ASSUME NEW k \in Fields, ReportField(t, k) PROVE ExitInv'
  <2>1. (IF k = "BODY" THEN "done" ELSE After(k)) \in Labels
    BY <1>6 DEF After, Fields
  <2>2. QuietEnds
    BY <1>4, <1>10, <2>1 DEF ReportField
  <2>3. QuietConns
    BY <1>1, <1>7, <1>10 DEF ReportField, In
  <2> QED
    BY <1>10, <2>2, <2>3, QuietExits DEF ReportField
<1>11. CASE ReportDone(t)
  <2>1. QuietEnds
    BY <1>4, <1>6, <1>11 DEF ReportDone
  <2>2. QuietConns
    BY <1>1, <1>7, <1>11 DEF ReportDone, In
  <2> QED
    BY <1>11, <2>1, <2>2, QuietExits DEF ReportDone
<1>12. CASE ReportClose(t)
  <2>1. CloseSocket(t, r)
    BY <1>1, <1>12 DEF ReportClose
  <2>2. /\ EndCalls(stack'[t]) = EndCalls(r)
        /\ \A u \in Threads \ {t} : stack'[u] = stack[u]
    BY <1>3, <2>1, ClosedEnds
  <2>3. EndCalls(stack[t]) = EndCalls(r)
    BY <1>2, <1>3 DEF EndCalls
  <2>4. QuietEnds
    BY <2>2, <2>3 DEF QuietEnds
  <2>5. QuietConns
    BY <1>12, SameExits DEF ReportClose
  <2> QED
    BY <1>12, <2>4, <2>5, QuietExits DEF ReportClose
<1> QED
  BY <1>8, <1>9, <1>10, <1>11, <1>12 DEF ReportStep

-----------------------------------------------------------------------------
(* The end of a process. *)

\* The only thread that ends process p does a step of the end.
LEMMA EndingStep ==
  ASSUME CallInv, WireInv, ExitInv, OneEnder, NEW t \in Threads, t \in Enders,
         NEW p \in Procs, p = Home[t],
         \A u \in Threads \ {t} : stack'[u] = stack[u],
         \A q \in Procs \ {p} : proc'[q] = proc[q] /\ did_exit_already'[q] = did_exit_already[q],
         proc'[p] # "unborn",
         \A c : c[1] # p /\ ExitConn(c)' => ExitConn(c),
         \A c : ExitConn(c) => ExitConn(c)' /\ (c[1] # p => wire'[c] = wire[c]),
         \A c \in EndCalls(stack'[t]) : EndsIn(t, c)',
         ExitOnce(p)'
  PROVE  ExitInv'
<1>1. ASSUME NEW u \in Threads, NEW c \in EndCalls(stack'[u]) PROVE EndsIn(u, c)'
  <2>1. CASE u = t
    BY <1>1, <2>1
  <2>2. CASE u # t
    <3>1. c \in EndCalls(stack[u]) /\ EndCalls(stack'[u]) = EndCalls(stack[u])
      BY <1>1, <2>2
    <3>2. EndsIn(u, c)
      BY <3>1 DEF ExitInv, Endings
    <3>3. Home[u] \in Procs \ {p}
      BY <2>2, <3>2, InterposerAssumption DEF EndsIn, OneEnder
    <3>4. did_exit_already'[Home[u]] = did_exit_already[Home[u]]
      BY <3>3
    <3>5. Reporter(c) /\ c.conn # NoConn => Kinds(wire[c.conn])' = Kinds(wire[c.conn])
      <4> SUFFICES ASSUME Reporter(c), c.conn # NoConn
                   PROVE  Kinds(wire[c.conn])' = Kinds(wire[c.conn])
        OBVIOUS
      <4>1. c \in CallsIn(stack[u]) /\ c.op = "report" /\ c.hook = "exit"
        BY <3>1 DEF EndCalls, Reporter
      <4>2. c.conn \in Conns /\ c.conn[1] = Home[u] /\ c.conn[2] = "exit"
        BY <4>1, Calling DEF WireInv, ReportConns
      <4>3. wire'[c.conn] = wire[c.conn]
        BY <3>3, <4>2 DEF ExitConn
      <4> QED
        BY <4>3 DEF Kinds
    <3> QED
      BY <3>1, <3>2, <3>4, <3>5 DEF EndsIn
  <2> QED
    BY <2>1, <2>2
<1>2. ASSUME NEW q \in Procs, q # p PROVE ExitOnce(q)'
  <2>1. ExitOnce(q) /\ proc'[q] = proc[q] /\ did_exit_already'[q] = did_exit_already[q]
    BY <1>2 DEF ExitInv
  <2>2. Made(q, "exit")' = Made(q, "exit")
    BY <1>2 DEF Made, ExitConn
  <2>3. \A c \in Made(q, "exit") : Kinds(wire[c])' = Kinds(wire[c])
    BY <1>2 DEF Made, ExitConn, Kinds
  <2>4. \A u \in Threads : Home[u] = q => \A c : ReportsOn(u, c)' <=> ReportsOn(u, c)
    BY <1>2 DEF ReportsOn
  <2>5. (\E c \in Conns : c[2] = "exit") => (\E c \in Conns : c[2] = "exit")'
    BY DEF ExitConn
  <2>6. \A c \in Made(q, "exit") :
          Kinds(wire[c])' = Whole \/ \E u \in Threads : Home[u] = q /\ ReportsOn(u, c)'
    BY <2>1, <2>3, <2>4 DEF ExitOnce
  <2>7. proc'[q] = "exited" =>
          did_exit_already'[q] /\ \A c \in Made(q, "exit") : Kinds(wire[c])' = Whole
    BY <2>1, <2>3 DEF ExitOnce
  <2>8. /\ \A c, d \in Made(q, "exit") : c = d
        /\ Made(q, "exit") # {} => did_exit_already'[q] /\ proc'[q] # "unborn"
        /\ did_exit_already'[q] /\ "exit" \notin SocketsFail /\ Made(q, "exit") = {} =>
              q # Root /\ \E c \in Conns : c[2] = "exit"
    BY <2>1 DEF ExitOnce
  <2> QED
    BY <2>2, <2>5, <2>6, <2>7, <2>8 DEF ExitOnce
<1>3. proc'[Root] # "unborn"
  BY InterposerAssumption DEF ExitInv
<1> QED
  BY <1>1, <1>2, <1>3 DEF ExitInv, Endings

\* The same of a step that leaves the connections alone: if there is one, either it
\* has the whole report or the thread is still reporting on it.
LEMMA EndingMove ==
  ASSUME CallInv, WireInv, ExitInv, OneEnder, NEW t \in Threads, t \in Enders,
         NEW p \in Procs, p = Home[t], proc[p] = "alive",
         \A u \in Threads \ {t} : stack'[u] = stack[u],
         wire' = wire, proc' = proc, did_exit_already' = did_exit_already,
         \A c \in EndCalls(stack'[t]) : EndsIn(t, c)',
         \A c \in Conns : ReportsOn(t, c) => ReportsOn(t, c)' \/ Kinds(wire[c]) = Whole
  PROVE  ExitInv'
<1>1. ExitOnce(p)
  BY DEF ExitInv
<1>2. Made(p, "exit")' = Made(p, "exit") /\ Conns' = Conns
  BY DEF Made, Conns
<1>3. \A u \in Threads \ {t} : \A c : ReportsOn(u, c)' <=> ReportsOn(u, c)
  BY DEF ReportsOn
<1>4. \A c \in Made(p, "exit") :
        Kinds(wire[c])' = Whole \/ \E u \in Threads : Home[u] = p /\ ReportsOn(u, c)'
  BY <1>1, <1>3 DEF ExitOnce, Made
<1>5. ExitOnce(p)'
  BY <1>1, <1>2, <1>4 DEF ExitOnce
<1>6. /\ \A c : c[1] # p /\ ExitConn(c)' => ExitConn(c)
      /\ \A c : ExitConn(c) => ExitConn(c)' /\ (c[1] # p => wire'[c] = wire[c])
  BY <1>2 DEF ExitConn
<1>7. proc'[p] # "unborn"
  OBVIOUS
<1>8. \A q \in Procs \ {p} : proc'[q] = proc[q] /\ did_exit_already'[q] = did_exit_already[q]
  OBVIOUS
<1> QED
  BY <1>5, <1>6, <1>7, <1>8, EndingStep

\* Who is at the end of a process.
LEMMA EndingThread ==
  ASSUME CallInv, ExitInv, NEW t \in Threads, NEW c \in EndCalls(stack[t])
  PROVE  t \in Enders /\ EndsIn(t, c) /\ Ends(c) /\ c \in CallsIn(stack[t])
BY DEF ExitInv, Endings, EndsIn, EndCalls

LEMMA NoEnds ==
  ASSUME NEW s, s = <<>>
  PROVE  EndCalls(s) = {}
BY DEF EndCalls, CallsIn

LEMMA OneEndCall ==
  ASSUME NEW d, Ends(d), NEW q, q = <<d>>
  PROVE  EndCalls(q) = {d} /\ CallsIn(q) = {d}
<1>1. DOMAIN q = {1} /\ q[1] = d
  OBVIOUS
<1>2. CallsIn(q) = {d}
  BY <1>1 DEF CallsIn
<1> QED
  BY <1>2 DEF EndCalls

\* The stack after Enter().
LEMMA EnteredEnds ==
  ASSUME CallInv, NEW t \in Threads, NEW d \in Calls, NEW q \in Seq(Calls), Enter(t, d, q), Ends(d)
  PROVE  /\ EndCalls(stack'[t]) = {d} \cup EndCalls(q)
         /\ \A u \in Threads \ {t} : stack'[u] = stack[u]
<1>1. /\ CallsIn(stack'[t]) = {d} \cup CallsIn(q)
      /\ \A u \in Threads \ {t} : stack'[u] = stack[u]
  BY EnterCalls
<1> QED
  BY <1>1 DEF EndCalls

LEMMA ExitExits ==
  ASSUME CallInv, WireInv, ExitInv, OneEnder, NEW t \in Threads,
         NEW how \in {"exit", "_exit", "return"}, Exit(t, how)
  PROVE  ExitInv'
<1>1. PICK at \in {"end", "fini"} : at = IF how = "_exit" THEN "end" ELSE "fini"
  OBVIOUS
<1>2. PICK end, report : /\ end = Call("exit", how, at, NewEvent(t))
                         /\ report = Call("report", "exit", "test", NewEvent(t))
  OBVIOUS
<1>3. /\ end \in Calls /\ end.op = "exit" /\ end.at = at
  <2>1. "exit" \in Ops /\ how \in Names /\ at \in Labels
    BY DEF Ops, Names, Labels
  <2> QED
    BY <1>2, <2>1, NewCall
<1>4. /\ report \in Calls /\ report.op = "report" /\ report.hook = "exit"
      /\ report.conn = NoConn /\ report.at = "test"
  <2>1. PICK op \in Ops, hook \in Names, x \in Labels : op = "report" /\ hook = "exit" /\ x = "test"
    BY DEF Ops, Names, Labels
  <2> QED
    BY <1>2, <2>1, NewCall
<1>5. Ends(end) /\ Ends(report) /\ Reporter(report) /\ ~Reporter(end)
  BY <1>3, <1>4 DEF Ends, Reporter
<1>6. /\ stack[t] = <<>> /\ proc[Home[t]] = "alive" /\ Home[t] \in Procs
      /\ wire' = wire /\ proc' = proc /\ did_exit_already' = did_exit_already
  BY InterposerAssumption DEF Exit, Idle, Runs
<1>7. t \in Enders
  BY DEF Exit, Enders
<1>8. \/ how = "return" /\ Enter(t, end, <<>>)
      \/ how # "return" /\ Enter(t, report, <<end>>)
  BY <1>1, <1>2 DEF Exit
<1>9. /\ EndCalls(stack'[t]) \subseteq {end, report}
      /\ at = "end" => report \in EndCalls(stack'[t])
      /\ \A u \in Threads \ {t} : stack'[u] = stack[u]
  <2>1. CASE how = "return"
    <3>0. <<>> \in Seq(Calls)
      OBVIOUS
    <3>1. PICK q \in Seq(Calls) : q = <<>>
      BY <3>0
    <3>2. /\ EndCalls(stack'[t]) = {end} \cup EndCalls(q)
          /\ \A u \in Threads \ {t} : stack'[u] = stack[u]
      BY <1>3, <1>5, <1>8, <2>1, <3>1, EnteredEnds
    <3> QED
      BY <1>1, <2>1, <3>1, <3>2, NoEnds
  <2>2. CASE how # "return"
    <3>0. <<end>> \in Seq(Calls)
      BY <1>3
    <3>1. PICK q \in Seq(Calls) : q = <<end>>
      BY <3>0
    <3>2. /\ EndCalls(stack'[t]) = {report} \cup EndCalls(q)
          /\ \A u \in Threads \ {t} : stack'[u] = stack[u]
      BY <1>4, <1>5, <1>8, <2>2, <3>1, EnteredEnds
    <3> QED
      BY <1>5, <3>1, <3>2, OneEndCall
  <2> QED
    BY <2>1, <2>2
<1>10. EndsIn(t, report)'
  BY <1>4, <1>5, <1>7 DEF EndsIn
<1>11. EndsIn(t, end)'
  BY <1>3, <1>5, <1>7, <1>9 DEF EndsIn
<1>12. \A c : ~ReportsOn(t, c)
  BY <1>6, NoEnds DEF ReportsOn
<1> QED
  BY <1>6, <1>7, <1>9, <1>10, <1>11, <1>12, EndingMove

\* The innermost call of a thread that is about to end its process.
LEMMA BottomEnds ==
  ASSUME CallInv, NEW t \in Threads, stack[t] # <<>>, NEW c, c = Top(t), c.op = "exit"
  PROVE  EndCalls(stack[t]) = {c} /\ c \in Calls
<1>1. stack[t] \in Seq(Calls) /\ Shape(stack[t])
  BY DEF CallInv, TypeOK, StackInv
<1>2. PICK s \in Seq(Calls) : s = stack[t]
  BY <1>1
<1>3. CallsIn(s) = {c} /\ c = Head(s) /\ s # <<>>
  BY <1>1, <1>2, Bottom DEF Top
<1> QED
  BY <1>2, <1>3 DEF EndCalls, Ends

LEMMA ExitHandlerExits ==
  ASSUME CallInv, WireInv, ExitInv, OneEnder, NEW t \in Threads, ExitHandler(t)
  PROVE  ExitInv'
<1>1. PICK c, e, q, d : /\ c = Top(t) /\ e = Placed(c, "end") /\ q = <<e>>
                        /\ d = Call("report", "exit", "test", NewEvent(t))
  OBVIOUS
<1>2. /\ stack[t] # <<>> /\ c.op = "exit" /\ c.at = "fini" /\ Enter(t, d, Moved(t, "end"))
      /\ proc[Home[t]] = "alive" /\ Home[t] \in Procs
      /\ wire' = wire /\ proc' = proc /\ did_exit_already' = did_exit_already
  BY <1>1, InterposerAssumption DEF ExitHandler, In, Runs
<1>3. EndCalls(stack[t]) = {c} /\ c \in Calls
  BY <1>1, <1>2, BottomEnds
<1>4. e \in Calls /\ e.op = "exit" /\ e.at = "end"
  BY <1>1, <1>2, <1>3 DEF Calls, Placed, Labels
<1>5. /\ d \in Calls /\ d.op = "report" /\ d.hook = "exit" /\ d.conn = NoConn /\ d.at = "test"
  <2>1. PICK op \in Ops, hook \in Names, x \in Labels : op = "report" /\ hook = "exit" /\ x = "test"
    BY DEF Ops, Names, Labels
  <2> QED
    BY <1>1, <2>1, NewCall
<1>6. Ends(e) /\ Ends(d) /\ Reporter(d) /\ ~Reporter(e) /\ ~Reporter(c)
  BY <1>2, <1>4, <1>5 DEF Ends, Reporter
<1>7. t \in Enders
  BY <1>3, EndingThread
<1>8. q \in Seq(Calls) /\ Moved(t, "end") = q
  <2>1. stack[t] \in Seq(Calls) /\ Shape(stack[t])
    BY DEF CallInv, TypeOK, StackInv
  <2>2. PICK s \in Seq(Calls) : s = stack[t]
    BY <2>1
  <2>3. Tail(stack[t]) = <<>>
    BY <1>1, <1>2, <2>1, <2>2, Bottom DEF Top
  <2>4. Moved(t, "end") = <<e>> \o <<>>
    BY <1>1, <1>3, <2>3, MovedPlaces
  <2> QED
    BY <1>1, <1>4, <2>4
<1>9. /\ EndCalls(stack'[t]) = {d} \cup EndCalls(q)
      /\ \A u \in Threads \ {t} : stack'[u] = stack[u]
  BY <1>2, <1>5, <1>6, <1>8, EnteredEnds
<1>10. EndCalls(stack'[t]) = {d, e}
  BY <1>1, <1>6, <1>9, OneEndCall
<1>11. EndsIn(t, d)'
  BY <1>5, <1>6, <1>7 DEF EndsIn
<1>12. EndsIn(t, e)'
  BY <1>4, <1>6, <1>7, <1>10 DEF EndsIn
<1>13. \A x : ~ReportsOn(t, x)
  BY <1>3, <1>6 DEF ReportsOn
<1> QED
  BY <1>2, <1>7, <1>9, <1>10, <1>11, <1>12, <1>13, EndingMove

LEMMA EndExits ==
  ASSUME CallInv, WireInv, ExitInv, OneEnder, NEW t \in Threads, End(t)
  PROVE  ExitInv'
<1>1. PICK c, p : c = Top(t) /\ p = Home[t]
  OBVIOUS
<1>2. /\ stack[t] # <<>> /\ c.op = "exit" /\ c.at = "end" /\ p \in Procs
      /\ stack' = stack /\ wire' = wire /\ did_exit_already' = did_exit_already
      /\ proc' = [proc EXCEPT ![p] = "exited"] /\ proc \in [Procs -> {"unborn", "alive", "exited", "replaced", "crashed"}]
  BY <1>1, InterposerAssumption DEF End, In, CallInv, TypeOK
<1>3. EndCalls(stack[t]) = {c} /\ ~Reporter(c)
  BY <1>1, <1>2, BottomEnds DEF Reporter
<1>4. t \in Enders /\ EndsIn(t, c)
  BY <1>3, EndingThread
<1>5. did_exit_already[p]
  BY <1>1, <1>2, <1>3, <1>4 DEF EndsIn
<1>6. ASSUME NEW u \in Threads, NEW x, Home[u] = p, ReportsOn(u, x) PROVE FALSE
  <2>1. u \in Enders
    BY <1>6, EndingThread DEF ReportsOn
  <2>2. u = t
    BY <1>1, <1>4, <1>6, <2>1 DEF OneEnder
  <2> QED
    BY <1>3, <1>6, <2>2 DEF ReportsOn
<1>7. ExitOnce(p)
  BY <1>2 DEF ExitInv
<1>8. \A x \in Made(p, "exit") : Kinds(wire[x]) = Whole
  BY <1>6, <1>7 DEF ExitOnce
<1>9. Made(p, "exit")' = Made(p, "exit") /\ Conns' = Conns /\ proc'[p] = "exited"
  BY <1>2 DEF Made, Conns
<1>10. ExitOnce(p)'
  BY <1>2, <1>5, <1>7, <1>8, <1>9 DEF ExitOnce
<1>11. \A d \in EndCalls(stack'[t]) : EndsIn(t, d)'
  BY <1>2, <1>3, <1>4 DEF EndsIn
<1>12. /\ \A x : x[1] # p /\ ExitConn(x)' => ExitConn(x)
       /\ \A x : ExitConn(x) => ExitConn(x)' /\ (x[1] # p => wire'[x] = wire[x])
  BY <1>2, <1>9 DEF ExitConn
<1>13. \A q \in Procs \ {p} : proc'[q] = proc[q] /\ did_exit_already'[q] = did_exit_already[q]
  BY <1>2
<1>14. \A u \in Threads \ {t} : stack'[u] = stack[u]
  BY <1>2
<1> QED
  BY <1>1, <1>2, <1>4, <1>9, <1>10, <1>11, <1>12, <1>13, <1>14, EndingStep

-----------------------------------------------------------------------------
(* The report of the end of a process. *)

LEMMA ExitReportOf ==
  ASSUME CallInv, WireInv, ExitInv, NEW t \in Threads, stack[t] # <<>>,
         NEW c, c = Top(t), Reporter(c), NEW r, r = Tail(stack[t])
  PROVE  /\ EndCalls(stack[t]) = {c} \cup EndCalls(r) /\ EndsIn(t, c) /\ t \in Enders
         /\ \A b \in EndCalls(r) : b.op = "exit" /\ ~Reporter(b)
         /\ c.conn # NoConn => /\ c.conn \in Made(Home[t], "exit")
                               /\ did_exit_already[Home[t]]
                               /\ \A x \in Made(Home[t], "exit") : x = c.conn
<1>1. c \in CallsIn(stack[t]) /\ Ends(c) /\ c.op = "report" /\ c.hook = "exit"
  BY TopCalls DEF Ends, Reporter
<1>2. EndCalls(stack[t]) = {c} \cup EndCalls(r)
  <2>1. EndCalls(stack[t]) = {b \in {c} : Ends(b)} \cup EndCalls(r)
    BY EndsOf
  <2> QED
    BY <1>1, <2>1
<1>3. EndsIn(t, c) /\ t \in Enders
  BY <1>2, EndingThread
<1>4. ASSUME NEW b \in EndCalls(r) PROVE b.op = "exit" /\ ~Reporter(b)
  <2>1. b \in CallsIn(r) /\ Ends(b)
    BY DEF EndCalls
  <2>2. b.op \in {"exit", "exec", "cleanup"}
    BY <2>1, RestOf
  <2> QED
    BY <2>1, <2>2 DEF Ends, Reporter
<1>5. ASSUME c.conn # NoConn
      PROVE  /\ c.conn \in Made(Home[t], "exit")
             /\ did_exit_already[Home[t]]
             /\ \A x \in Made(Home[t], "exit") : x = c.conn
  <2>1. c.conn \in Conns /\ c.conn[1] = Home[t] /\ c.conn[2] = "exit"
    BY <1>1, <1>5, Calling DEF WireInv, ReportConns
  <2>2. c.conn \in Made(Home[t], "exit")
    BY <2>1 DEF Made
  <2>3. ExitOnce(Home[t])
    BY InterposerAssumption DEF ExitInv
  <2> QED
    BY <2>2, <2>3 DEF ExitOnce
<1> QED
  BY <1>2, <1>3, <1>4, <1>5

LEMMA ExitReportTestExits ==
  ASSUME CallInv, WireInv, ExitInv, OneEnder, NEW t \in Threads, ExitReportTest(t), Top(t).hook = "exit"
  PROVE  ExitInv'
<1>1. PICK c, r, p : c = Top(t) /\ r = Tail(stack[t]) /\ p = Home[t]
  OBVIOUS
<1>2. /\ stack[t] # <<>> /\ c.op = "report" /\ c.at = "test" /\ c.hook = "exit" /\ p \in Procs
      /\ proc[p] = "alive" /\ wire' = wire /\ proc' = proc /\ did_exit_already' = did_exit_already
  BY <1>1, InterposerAssumption DEF ExitReportTest, In, Runs
<1>3. Reporter(c)
  BY <1>2 DEF Reporter
<1>4. /\ EndCalls(stack[t]) = {c} \cup EndCalls(r) /\ t \in Enders
      /\ \A b \in EndCalls(r) : b.op = "exit" /\ ~Reporter(b)
  BY <1>1, <1>2, <1>3, ExitReportOf
<1>5. c.conn = NoConn /\ NoConn \notin Conns
  BY <1>1, <1>2, TopCalls DEF Form, Fields, CallInv, TypeOK
<1>6. \A x \in Conns : ~ReportsOn(t, x)
  BY <1>4, <1>5 DEF ReportsOn
<1>7. CASE did_exit_already[p]
  <2>1. Return(t)
    BY <1>1, <1>7 DEF ExitReportTest
  <2>2. Replaces(t, c, {}, r)
    BY <1>1, <1>2, <2>1, ReturnCalls
  <2>3. /\ EndCalls(stack'[t]) = EndCalls(r)
        /\ \A u \in Threads \ {t} : stack'[u] = stack[u]
    BY <2>2 DEF Replaces, EndCalls
  <2>4. \A b \in EndCalls(stack'[t]) : EndsIn(t, b)'
    BY <1>1, <1>2, <1>4, <1>7, <2>3 DEF EndsIn
  <2> QED
    BY <1>1, <1>2, <1>4, <1>6, <2>3, <2>4, EndingMove
<1>8. CASE ~did_exit_already[p]
  <2>1. PICK at, d : at = "connect" /\ d = Placed(c, at)
    OBVIOUS
  <2>2. Goto(t, at) /\ at \in Labels
    BY <1>1, <1>8, <2>1 DEF ExitReportTest, Labels
  <2>3. Replaces(t, c, {d}, r)
    BY <1>1, <1>2, <2>1, <2>2, GotoCalls
  <2>4. d.op = c.op /\ d.hook = c.hook /\ d.at = at /\ d.conn = c.conn
    BY <2>1, PlacedCall
  <2>5. Reporter(d) /\ Ends(d)
    BY <1>2, <2>4 DEF Reporter, Ends
  <2>6. /\ EndCalls(stack'[t]) = {d} \cup EndCalls(r)
        /\ \A u \in Threads \ {t} : stack'[u] = stack[u]
    BY <2>3, <2>5 DEF Replaces, EndCalls
  <2>7. EndsIn(t, d)'
    BY <1>1, <1>2, <1>4, <1>5, <1>8, <2>4, <2>5 DEF EndsIn
  <2>8. \A b \in EndCalls(r) : EndsIn(t, b)'
    BY <1>4, <2>5, <2>6 DEF EndsIn
  <2> QED
    BY <1>1, <1>2, <1>4, <1>6, <2>6, <2>7, <2>8, EndingMove
<1> QED
  BY <1>7, <1>8

LEMMA ReportCloseExits ==
  ASSUME CallInv, WireInv, ExitInv, OneEnder, NEW t \in Threads, ReportClose(t), Top(t).hook = "exit"
  PROVE  ExitInv'
<1>1. PICK c, r, p : c = Top(t) /\ r = Tail(stack[t]) /\ p = Home[t]
  OBVIOUS
<1>2. /\ stack[t] # <<>> /\ c.op = "report" /\ c.at = "close" /\ c.hook = "exit" /\ p \in Procs
      /\ proc[p] = "alive" /\ wire' = wire /\ proc' = proc /\ did_exit_already' = did_exit_already
      /\ CloseSocket(t, r)
  BY <1>1, InterposerAssumption DEF ReportClose, In, Runs
<1>3. Reporter(c)
  BY <1>2 DEF Reporter
<1>4. c.conn # NoConn /\ r \in Seq(Calls)
  BY <1>1, <1>2, TopCalls DEF Form, Fields
<1>5. /\ EndCalls(stack[t]) = {c} \cup EndCalls(r) /\ t \in Enders /\ EndsIn(t, c)
      /\ \A b \in EndCalls(r) : b.op = "exit" /\ ~Reporter(b)
  BY <1>1, <1>2, <1>3, ExitReportOf
<1>6. did_exit_already[p]
  BY <1>1, <1>2, <1>3, <1>4, ExitReportOf
<1>7. Kinds(wire[c.conn]) = Whole
  BY <1>2, <1>3, <1>4, <1>5 DEF EndsIn, SentAt
<1>8. /\ EndCalls(stack'[t]) = EndCalls(r)
      /\ \A u \in Threads \ {t} : stack'[u] = stack[u]
  BY <1>2, <1>4, ClosedEnds
<1>9. \A b \in EndCalls(stack'[t]) : EndsIn(t, b)'
  BY <1>1, <1>2, <1>5, <1>6, <1>8 DEF EndsIn
<1>10. \A x \in Conns : ReportsOn(t, x) => Kinds(wire[x]) = Whole
  BY <1>5, <1>7 DEF ReportsOn
<1> QED
  BY <1>1, <1>2, <1>5, <1>8, <1>9, <1>10, EndingMove

\* What is sent has one more kind.
LEMMA KindsAppend ==
  ASSUME NEW w \in Seq(Items), NEW x \in Items, NEW v, v = Append(w, x)
  PROVE  Kinds(v) = Append(Kinds(w), x.kind)
<1>1. /\ v[Len(w) + 1] = x /\ DOMAIN v = 1 .. Len(w) + 1 /\ Len(w) \in Nat
      /\ DOMAIN w = 1 .. Len(w)
      /\ \A i \in DOMAIN w : v[i] = w[i]
  BY AppendItem
<1> DEFINE K == Fields \cup {"DONE"}
<1>2. x.kind \in K /\ \A i \in DOMAIN w : w[i].kind \in K
  <2>1. \A i \in DOMAIN w : w[i] \in Items
    <3> HIDE DEF Items
    <3> QED
      OBVIOUS
  <2> QED
    BY <2>1 DEF Items
<1>3. PICK n \in Nat : n = Len(w)
  BY <1>1
<1> HIDE DEF K
<1>4. Kinds(w) = [i \in 1 .. n |-> w[i].kind] /\ Kinds(v) = [i \in 1 .. n + 1 |-> v[i].kind]
  BY <1>1, <1>3 DEF Kinds
<1>5. Kinds(w) \in Seq(K) /\ Len(Kinds(w)) = n
  BY <1>1, <1>2, <1>3, <1>4
<1>6. PICK k \in Seq(K), y \in K : k = Kinds(w) /\ y = x.kind
  BY <1>2, <1>5
<1>7. /\ Append(k, y) \in Seq(K) /\ Len(Append(k, y)) = n + 1
      /\ Append(k, y)[n + 1] = y /\ \A i \in 1 .. n : Append(k, y)[i] = k[i]
  BY <1>5, <1>6, SMTT(30)
<1>8. PICK a \in Seq(K) : a = Append(k, y)
  BY <1>7
<1>9. Len(a) = n + 1 /\ a[n + 1] = y /\ \A i \in 1 .. n : a[i] = k[i]
  BY <1>7, <1>8
<1>10. PICK m \in Nat : m = n + 1
  BY <1>3
<1>11. a = [i \in 1 .. m |-> a[i]]
  <2>1. a \in [1 .. Len(a) -> K]
    BY LenProperties
  <2>2. Len(a) = m
    BY <1>9, <1>10
  <2>3. a \in [1 .. m -> K]
    BY <2>1, <2>2
  <2> QED
    BY <2>3
<1>12. \A i \in 1 .. m : a[i] = v[i].kind
  <2> SUFFICES ASSUME NEW i \in 1 .. m PROVE a[i] = v[i].kind
    OBVIOUS
  <2>1. CASE i = n + 1
    BY <1>1, <1>3, <1>6, <1>9, <2>1
  <2>2. CASE i \in 1 .. n
    BY <1>1, <1>3, <1>4, <1>6, <1>9, <2>2
  <2> QED
    BY <1>3, <1>10, <2>1, <2>2
<1>13. Kinds(v) = a
  BY <1>4, <1>10, <1>11, <1>12
<1> QED
  BY <1>6, <1>8, <1>13

\* A report sends its next item.
LEMMA ExitSends ==
  ASSUME CallInv, WireInv, ExitInv, OneEnder, NEW t \in Threads, stack[t] # <<>>,
         proc[Home[t]] = "alive", proc' = proc, did_exit_already' = did_exit_already,
         NEW c, c = Top(t), Reporter(c), c.at \in Fields \cup {"done"},
         NEW k \in Fields \cup {"DONE"}, Write(c.conn, Item(c.ev, k)),
         NEW at \in Labels, Goto(t, at), at # "connect", SentAt(at) = Append(SentAt(c.at), k)
  PROVE  ExitInv'
<1>1. PICK r, p, s, d : r = Tail(stack[t]) /\ p = Home[t] /\ s = c.conn /\ d = Placed(c, at)
  OBVIOUS
<1>2. /\ s # NoConn /\ c.ev \in Events /\ p \in Procs
      /\ c.op = "report" /\ c.hook = "exit"
  BY <1>1, SendingReport, InterposerAssumption DEF Reporter
<1>3. /\ EndCalls(stack[t]) = {c} \cup EndCalls(r) /\ t \in Enders /\ EndsIn(t, c)
      /\ \A b \in EndCalls(r) : b.op = "exit" /\ ~Reporter(b)
      /\ s \in Made(p, "exit") /\ did_exit_already[p]
      /\ \A x \in Made(p, "exit") : x = s
  BY <1>1, <1>2, ExitReportOf
<1>4. s \in Conns /\ s[1] = p
  BY <1>3 DEF Made
<1>5. /\ Conns' = Conns /\ wire'[s] = Append(wire[s], Item(c.ev, k))
      /\ wire[s] \in Seq(Items)
      /\ \A x \in Conns : x # s => wire'[x] = wire[x]
  BY <1>1, <1>2, <1>4, Writing DEF Items
<1>6. Replaces(t, c, {d}, r)
  BY <1>1, GotoCalls
<1>7. d.op = c.op /\ d.hook = c.hook /\ d.at = at /\ d.conn = s
  BY <1>1, PlacedCall
<1>8. Reporter(d) /\ Ends(d)
  BY <1>2, <1>7 DEF Reporter, Ends
<1>9. /\ EndCalls(stack'[t]) = {d} \cup EndCalls(r)
      /\ \A u \in Threads \ {t} : stack'[u] = stack[u]
  BY <1>6, <1>8 DEF Replaces, EndCalls
<1>10. Kinds(wire'[s]) = SentAt(at)
  <2>1. Kinds(wire[s]) = SentAt(c.at)
    BY <1>1, <1>2, <1>3 DEF EndsIn
  <2>2. Item(c.ev, k) \in Items /\ Item(c.ev, k).kind = k
    BY <1>2 DEF Items, Item
  <2>3. PICK w \in Seq(Items), x \in Items : w = wire[s] /\ x = Item(c.ev, k)
    BY <1>5, <2>2
  <2>4. Kinds(Append(w, x)) = Append(Kinds(w), x.kind)
    BY KindsAppend
  <2> QED
    BY <1>5, <2>1, <2>2, <2>3, <2>4
<1>11. EndsIn(t, d)'
  BY <1>2, <1>3, <1>7, <1>8, <1>10 DEF EndsIn
<1>12. \A b \in EndCalls(r) : EndsIn(t, b)'
  BY <1>3, <1>8, <1>9 DEF EndsIn
<1>13. ReportsOn(t, s)'
  BY <1>7, <1>8, <1>9 DEF ReportsOn
<1>14. Made(p, "exit")' = Made(p, "exit")
  BY <1>5 DEF Made
<1>15. ExitOnce(p)'
  <2>1. ExitOnce(p)
    BY <1>2 DEF ExitInv
  <2>2. proc'[p] = "alive" /\ did_exit_already'[p]
    BY <1>1, <1>3
  <2>3. \A x \in Made(p, "exit") : \E u \in Threads : Home[u] = p /\ ReportsOn(u, x)'
    BY <1>1, <1>3, <1>13
  <2> QED
    BY <1>3, <1>14, <2>1, <2>2, <2>3 DEF ExitOnce
<1>16. /\ \A x : x[1] # p /\ ExitConn(x)' => ExitConn(x)
       /\ \A x : ExitConn(x) => ExitConn(x)' /\ (x[1] # p => wire'[x] = wire[x])
  BY <1>4, <1>5 DEF ExitConn
<1>17. /\ \A q \in Procs \ {p} : proc'[q] = proc[q] /\ did_exit_already'[q] = did_exit_already[q]
       /\ proc'[p] # "unborn"
  BY <1>1
<1>18. \A b \in EndCalls(stack'[t]) : EndsIn(t, b)'
  BY <1>9, <1>11, <1>12
<1> QED
  BY <1>1, <1>2, <1>3, <1>9, <1>15, <1>16, <1>17, <1>18, EndingStep

LEMMA ReportSendExits ==
  ASSUME CallInv, WireInv, ExitInv, OneEnder, NEW t \in Threads,
         (\E k \in Fields : ReportField(t, k)) \/ ReportDone(t), Top(t).hook = "exit"
  PROVE  ExitInv'
<1>1. PICK c : c = Top(t)
  OBVIOUS
<1>2. ASSUME NEW k \in Fields, ReportField(t, k) PROVE ExitInv'
  <2>1. PICK at : at = IF k = "BODY" THEN "done" ELSE After(k)
    OBVIOUS
  <2>2. at \in Labels /\ at # "connect" /\ k \in Fields \cup {"DONE"}
    BY <2>1 DEF After, Labels, Fields
  <2>3. /\ stack[t] # <<>> /\ c.op = "report" /\ c.at = k /\ proc[Home[t]] = "alive"
        /\ proc' = proc /\ did_exit_already' = did_exit_already
        /\ Write(c.conn, Item(c.ev, k)) /\ Goto(t, at)
    BY <1>1, <1>2, <2>1 DEF ReportField, In, Runs
  <2>4. Reporter(c) /\ c.at \in Fields \cup {"done"}
    BY <1>1, <2>3 DEF Reporter
  <2>5. SentAt(at) = Append(SentAt(c.at), k)
    <3>1. /\ SentAt("TYPE") = Append(SentAt("EVENT"), "EVENT")
          /\ SentAt("BODY") = Append(SentAt("TYPE"), "TYPE")
          /\ SentAt("done") = Append(SentAt("BODY"), "BODY")
      BY DEF SentAt
    <3> QED
      BY <2>1, <2>3, <3>1 DEF After, Fields
  <2> QED
    BY <1>1, <2>2, <2>3, <2>4, <2>5, ExitSends
<1>3. CASE ReportDone(t)
  <2>1. PICK at, k : at = "close" /\ k = "DONE"
    OBVIOUS
  <2>2. at \in Labels /\ at # "connect" /\ k \in Fields \cup {"DONE"}
    BY <2>1 DEF Labels
  <2>3. /\ stack[t] # <<>> /\ c.op = "report" /\ c.at = "done" /\ proc[Home[t]] = "alive"
        /\ proc' = proc /\ did_exit_already' = did_exit_already
        /\ Write(c.conn, Item(c.ev, k)) /\ Goto(t, at)
    BY <1>1, <1>3, <2>1 DEF ReportDone, In, Runs
  <2>4. Reporter(c) /\ c.at \in Fields \cup {"done"}
    BY <1>1, <2>3 DEF Reporter
  <2>5. SentAt(at) = Append(SentAt(c.at), k)
    <3>1. SentAt("close") = Append(SentAt("done"), "DONE")
      BY DEF SentAt, Whole
    <3> QED
      BY <2>1, <2>3, <3>1
  <2> QED
    BY <1>1, <2>2, <2>3, <2>4, <2>5, ExitSends
<1> QED
  BY <1>2, <1>3

\* It begins, or the process has no socket to report on.
LEMMA ReportConnectExits ==
  ASSUME CallInv, WireInv, ExitInv, OneEnder, NEW t \in Threads, ReportConnect(t), Top(t).hook = "exit"
  PROVE  ExitInv'
<1>1. PICK c, r, p : c = Top(t) /\ r = Tail(stack[t]) /\ p = Home[t]
  OBVIOUS
<1>2. /\ stack[t] # <<>> /\ c.op = "report" /\ c.at = "connect" /\ c.hook = "exit" /\ p \in Procs
      /\ proc[p] = "alive" /\ proc' = proc
  BY <1>1, InterposerAssumption DEF ReportConnect, In, Runs
<1>3. Reporter(c)
  BY <1>2 DEF Reporter
<1>4. /\ EndCalls(stack[t]) = {c} \cup EndCalls(r) /\ t \in Enders /\ EndsIn(t, c)
      /\ \A b \in EndCalls(r) : b.op = "exit" /\ ~Reporter(b)
  BY <1>1, <1>2, <1>3, ExitReportOf
<1>5. /\ c \in Calls /\ r \in Seq(Calls) /\ stack \in [Threads -> Seq(Calls)]
      /\ c.conn = NoConn /\ NoConn \notin Conns
  BY <1>1, <1>2, TopCalls DEF Form, CallInv, TypeOK
<1>6. /\ did_exit_already' = [did_exit_already EXCEPT ![p] = TRUE]
      /\ did_exit_already'[p]
      /\ \A q \in Procs \ {p} : did_exit_already'[q] = did_exit_already[q]
  <2>1. did_exit_already \in [Procs -> BOOLEAN]
    BY DEF CallInv, TypeOK
  <2>2. did_exit_already' = [did_exit_already EXCEPT ![p] = @ \/ c.hook = "exit"]
    BY <1>1 DEF ReportConnect
  <2> QED
    BY <1>2, <2>1, <2>2
<1>7. ~did_exit_already[p] /\ Made(p, "exit") = {} /\ ExitOnce(p)
  <2>1. ~did_exit_already[p]
    BY <1>1, <1>2, <1>3, <1>4 DEF EndsIn
  <2>2. ExitOnce(p)
    BY <1>2 DEF ExitInv
  <2> QED
    BY <2>1, <2>2 DEF ExitOnce
<1>8. PICK e \in Sockets(p, "exit"), at \in {"EVENT", "done"} :
        /\ at = "done" => e = NoConn
        /\ IF e = NoConn THEN UNCHANGED wire ELSE Connect(e)
        /\ stack' = [stack EXCEPT ![t] =
                       IF e = NoConn THEN r
                       ELSE <<[c EXCEPT !.at = at, !.conn = e]>> \o r]
  BY <1>1, <1>2, ZenonT(40) DEF ReportConnect
<1>9. \A u \in Threads \ {t} : stack'[u] = stack[u]
  BY <1>5, <1>8
<1>10. /\ \A q \in Procs \ {p} : proc'[q] = proc[q] /\ did_exit_already'[q] = did_exit_already[q]
       /\ proc'[p] # "unborn" /\ proc'[p] # "exited"
  BY <1>2, <1>6
<1>11. CASE e = NoConn
  <2>1. stack'[t] = r /\ wire' = wire
    BY <1>5, <1>8, <1>11
  <2>2. "exit" \in SocketsFail
    <3>1. e # NewConn(p, "exit")
      BY <1>11 DEF NewConn, NoConn
    <3> QED
      BY <1>8, <3>1 DEF Sockets
  <2>3. \A b \in EndCalls(stack'[t]) : EndsIn(t, b)'
    BY <1>1, <1>4, <1>6, <2>1 DEF EndsIn
  <2>4. Made(p, "exit")' = {}
    BY <1>7, <2>1 DEF Made, Conns
  <2>5. ExitOnce(p)'
    BY <1>10, <2>2, <2>4 DEF ExitOnce
  <2>6. /\ \A x : x[1] # p /\ ExitConn(x)' => ExitConn(x)
        /\ \A x : ExitConn(x) => ExitConn(x)' /\ (x[1] # p => wire'[x] = wire[x])
    BY <2>1 DEF ExitConn, Conns
  <2> QED
    BY <1>1, <1>2, <1>4, <1>9, <1>10, <2>3, <2>5, <2>6, EndingStep
<1>12. CASE e # NoConn
  <2>1. e = NewConn(p, "exit") /\ Connect(e) /\ at = "EVENT"
    BY <1>8, <1>12 DEF Sockets
  <2>2. PICK what \in Names : what = "exit"
    BY DEF Names
  <2>3. /\ e \notin Conns /\ Conns' = Conns \cup {e} /\ e \in ConnNames /\ e[1] = p /\ e[2] = "exit"
        /\ wire'[e] = <<>> /\ \A x \in Conns : wire'[x] = wire[x]
    BY <1>2, <2>1, <2>2, Connecting
  <2>4. PICK d : d = [c EXCEPT !.at = at, !.conn = e]
    OBVIOUS
  <2>5. d \in Calls /\ d.op = "report" /\ d.hook = "exit" /\ d.at = "EVENT" /\ d.conn = e
    BY <1>2, <1>5, <2>1, <2>3, <2>4 DEF Calls, Labels, Fields
  <2>6. PICK n : n = <<d>> \o r
    OBVIOUS
  <2>7. CallsIn(n) = {d} \cup CallsIn(r)
    BY <1>5, <2>5, <2>6, CallsOf
  <2>8. stack'[t] = n
    BY <1>5, <1>8, <1>12, <2>4, <2>6
  <2>9. Reporter(d) /\ Ends(d)
    BY <2>5 DEF Reporter, Ends
  <2>10. EndCalls(stack'[t]) = {d} \cup EndCalls(r)
    BY <2>7, <2>8, <2>9 DEF EndCalls
  <2>11. Kinds(wire'[e]) = SentAt("EVENT")
    <3>1. SentAt("EVENT") = <<>>
      BY DEF SentAt
    <3>2. DOMAIN wire'[e] = {}
      BY <2>3
    <3>3. Kinds(wire'[e]) = [i \in {} |-> wire'[e][i].kind]
      BY <3>2 DEF Kinds
    <3> QED
      BY <3>1, <3>3
  <2>12. EndsIn(t, d)'
    BY <1>4, <2>5, <2>9, <2>11 DEF EndsIn
  <2>13. \A b \in EndCalls(r) : EndsIn(t, b)'
    BY <1>1, <1>4, <1>6 DEF EndsIn
  <2>14. Made(p, "exit")' = {e}
    BY <1>7, <2>3 DEF Made
  <2>15. ReportsOn(t, e)'
    BY <2>5, <2>9, <2>10 DEF ReportsOn
  <2>16. ExitOnce(p)'
    BY <1>1, <1>6, <1>10, <2>14, <2>15 DEF ExitOnce
  <2>17. /\ \A x : x[1] # p /\ ExitConn(x)' => ExitConn(x)
         /\ \A x : ExitConn(x) => ExitConn(x)' /\ (x[1] # p => wire'[x] = wire[x])
    BY <2>3 DEF ExitConn
  <2>18. \A b \in EndCalls(stack'[t]) : EndsIn(t, b)'
    BY <2>10, <2>12, <2>13
  <2> QED
    BY <1>1, <1>2, <1>4, <1>9, <1>10, <2>16, <2>17, <2>18, EndingStep
<1> QED
  BY <1>11, <1>12

-----------------------------------------------------------------------------
(* The first state, and all steps. *)

LEMMA ForkExits ==
  ASSUME CallInv, ExitInv, NEW t \in Threads, NEW u \in Threads, Fork(t, u)
  PROVE  ExitInv'
<1>1. PICK p, q : p = Home[t] /\ q = Home[u]
  OBVIOUS
<1>2. /\ p \in Procs /\ q \in Procs /\ proc[p] = "alive" /\ proc[q] = "unborn" /\ p # q
      /\ stack' = stack /\ wire' = wire
  BY <1>1, InterposerAssumption DEF Fork, Idle, Runs
<1>3. /\ proc'[q] = "alive" /\ did_exit_already'[q] = did_exit_already[p]
      /\ \A x \in Procs \ {q} : proc'[x] = proc[x] /\ did_exit_already'[x] = did_exit_already[x]
  <2>1. /\ did_exit_already \in [Procs -> BOOLEAN]
        /\ proc \in [Procs -> {"unborn", "alive", "exited", "replaced", "crashed"}]
    BY DEF CallInv, TypeOK
  <2>2. /\ proc' = [proc EXCEPT ![q] = "alive"]
        /\ did_exit_already' = [did_exit_already EXCEPT ![q] = did_exit_already[p]]
    BY <1>1 DEF Fork
  <2> QED
    BY <1>2, <2>1, <2>2
<1>4. Conns' = Conns /\ \A x \in Procs : Made(x, "exit")' = Made(x, "exit")
  BY <1>2 DEF Made, Conns
<1>5. ASSUME NEW v \in Threads, NEW c \in EndCalls(stack'[v]) PROVE EndsIn(v, c)'
  <2>1. c \in EndCalls(stack[v])
    BY <1>2, <1>5
  <2>2. EndsIn(v, c)
    BY <2>1 DEF ExitInv, Endings
  <2>3. stack[v] # <<>>
    BY <2>1, NoEnds
  <2>4. Home[v] \in Procs \ {q}
    BY <1>2, <2>3, InterposerAssumption DEF CallInv, StackInv
  <2>5. did_exit_already'[Home[v]] = did_exit_already[Home[v]]
    BY <1>3, <2>4
  <2> QED
    BY <1>2, <2>2, <2>5 DEF EndsIn
<1>6. ASSUME NEW x \in Procs \ {q} PROVE ExitOnce(x)'
  <2>1. ExitOnce(x)
    BY DEF ExitInv
  <2>2. proc'[x] = proc[x] /\ did_exit_already'[x] = did_exit_already[x]
    BY <1>3
  <2>3. \A v \in Threads : \A c : ReportsOn(v, c)' <=> ReportsOn(v, c)
    BY <1>2 DEF ReportsOn
  <2> QED
    BY <1>2, <1>4, <2>1, <2>2, <2>3 DEF ExitOnce
<1>7. ExitOnce(q)'
  <2>1. ExitOnce(p) /\ ExitOnce(q) /\ proc[Root] # "unborn"
    BY <1>2 DEF ExitInv
  <2>2. Made(q, "exit") = {} /\ q # Root
    BY <1>2, <2>1 DEF ExitOnce
  <2>3. did_exit_already[p] /\ "exit" \notin SocketsFail => \E c \in Conns : c[2] = "exit"
    BY <2>1 DEF ExitOnce, Made
  <2>4. did_exit_already'[q] /\ "exit" \notin SocketsFail => \E c \in Conns' : c[2] = "exit"
    BY <1>3, <1>4, <2>3
  <2>5. Made(q, "exit")' = {} /\ proc'[q] # "exited"
    BY <1>2, <1>3, <1>4, <2>2
  <2> QED
    BY <2>2, <2>4, <2>5 DEF ExitOnce
<1>8. proc'[Root] # "unborn"
  BY <1>2, <1>3, InterposerAssumption DEF ExitInv
<1> QED
  BY <1>5, <1>6, <1>7, <1>8 DEF ExitInv, Endings

LEMMA ExitInit == Init => ExitInv
<1> SUFFICES ASSUME Init PROVE ExitInv
  OBVIOUS
<1>1. Conns = {} /\ \A t \in Threads : EndCalls(stack[t]) = {}
  BY NoEnds DEF Init, Conns
<1>2. \A p \in Procs : Made(p, "exit") = {} /\ ~did_exit_already[p] /\ proc[p] # "exited"
  BY <1>1 DEF Init, Made
<1>3. proc[Root] # "unborn"
  BY InterposerAssumption DEF Init
<1> QED
  BY <1>1, <1>2, <1>3 DEF ExitInv, Endings, ExitOnce

LEMMA ExitNext ==
  ASSUME CallInv, WireInv, ExitInv, OneEnder, [Next]_vars
  PROVE  ExitInv'
<1>1. CASE UNCHANGED vars
  <2>1. QuietEnds /\ QuietConns
    BY <1>1, SameExits DEF vars, QuietEnds
  <2> QED
    BY <1>1, <2>1, QuietExits DEF vars
<1>2. CASE Next
  <2>1. PICK t \in Threads : Proceed(t) \/ Begin(t)
    BY <1>2 DEF Next
  <2>2. CASE HookStep(t) \/ CleanupStep(t)
    BY <2>2, HookExits
  <2>3. CASE ReportStep(t)
    <3>1. CASE Top(t).hook = "exit"
      BY <2>3, <3>1, ExitReportTestExits, ReportConnectExits, ReportSendExits, ReportCloseExits
         DEF ReportStep
    <3>2. CASE Top(t).hook # "exit"
      BY <2>3, <3>2, ExecReportExits
    <3> QED
      BY <3>1, <3>2
  <2>4. CASE \E h \in Hooks : Fini(t, h)
    BY <2>4, FiniExits
  <2>5. CASE ExitHandler(t) \/ End(t)
    BY <2>5, ExitHandlerExits, EndExits
  <2>6. CASE RealExecve(t) \/ Execve(t)
    BY <2>6, ExecveExits
  <2>7. CASE \E h \in Hooks : CallHook(t, h)
    BY <2>7, CallHookExits
  <2>8. CASE \E how \in {"exit", "_exit", "return"} : Exit(t, how)
    BY <2>8, ExitExits
  <2>9. CASE \E u \in Threads : Fork(t, u)
    BY <2>9, ForkExits
  <2> QED
    BY <2>1, <2>2, <2>3, <2>4, <2>5, <2>6, <2>7, <2>8, <2>9 DEF Proceed, Begin
<1> QED
  BY <1>1, <1>2

\* Of the code around did_exit_already: while one thread ends a process, its exit
\* is reported on one connection at most, and the process ends after the report.
THEOREM ExitsOnce ==
  ASSUME OneEnder
  PROVE  Spec => []ExitInv
<1>1. Init => ExitInv
  BY ExitInit
<1>2. CallInv /\ WireInv /\ ExitInv /\ [Next]_vars => ExitInv'
  BY ExitNext
<1>3. Spec => []CallInv /\ []WireInv
  BY CallsNestAndLock, ConnectionsInTurn
<1> QED
  BY <1>1, <1>2, <1>3, PTL DEF Spec

\* The same in the words of ExitReported.
LEMMA ExitParts ==
  ASSUME CallInv, ExitInv
  PROVE  ExitReported
<1> SUFFICES ASSUME NEW p \in Procs, proc[p] = "exited",
                    NEW reports, reports = {c \in Conns : c[1] = p /\ c[2] = "exit"}
             PROVE  /\ did_exit_already[p]
                    /\ Cardinality(reports) <= 1
                    /\ "exit" \notin SocketsFail /\ reports = {} =>
                          p # Root /\ \E c \in Conns : c[2] = "exit"
                    /\ \A c \in reports : [i \in DOMAIN wire[c] |-> wire[c][i].kind]
                                            = <<"EVENT", "TYPE", "BODY", "DONE">>
  BY ZenonT(40) DEF ExitReported
<1>1. ExitOnce(p) /\ reports = Made(p, "exit")
  BY DEF ExitInv, Made
<1>2. Cardinality(reports) <= 1
  <2>1. CASE reports = {}
    BY <2>1, FS_EmptySet
  <2>2. CASE reports # {}
    <3>a. \A c, d \in reports : c = d
      BY <1>1 DEF ExitOnce
    <3>1. PICK c : reports = {c}
      <4>1. PICK c : c \in reports
        BY <2>2
      <4>2. reports = {c}
        BY <3>a, <4>1
      <4> QED
        BY <4>2
    <3>2. Cardinality(reports) = Cardinality({c})
      BY <3>1, Zenon
    <3>3. Cardinality({c}) = 1
      BY FS_Singleton, Zenon
    <3> QED
      BY <3>2, <3>3
  <2> QED
    BY <2>1, <2>2
<1>3. \A c \in reports : [i \in DOMAIN wire[c] |-> wire[c][i].kind]
                           = <<"EVENT", "TYPE", "BODY", "DONE">>
  BY <1>1 DEF ExitOnce, Kinds, Whole
<1> QED
  BY <1>1, <1>2, <1>3 DEF ExitOnce

\* Of the code of exit(), _exit() and voyeur_exit_handler: if at most one thread ends
\* each process, one that has exited reported it in full, once, unless it had no
\* socket to report it on or did_exit_already from the process that forked it.
THEOREM ReportsItsExit ==
  ASSUME OneEnder
  PROVE  Spec => []ExitReported
<1>1. CallInv /\ ExitInv => ExitReported
  BY ExitParts
<1>2. Spec => []CallInv /\ []ExitInv
  BY CallsNestAndLock, ExitsOnce
<1> QED
  BY <1>1, <1>2, PTL
=============================================================================
