--------------------------- MODULE InterposerProofs ---------------------------
(***************************************************************************)
(* Proofs about Interposer, for any number of processes, threads and       *)
(* calls.                                                                  *)
(***************************************************************************)
EXTENDS InterposerInvariants, FiniteSetTheorems, TLAPS

USE DEF processVars

-----------------------------------------------------------------------------
(* Stacks. *)

\* A stack is the innermost call and what it is inside of.
LEMMA OnStack ==
  ASSUME NEW c \in Calls, NEW r \in Seq(Calls), NEW s, s = <<c>> \o r
  PROVE  /\ s \in Seq(Calls) /\ s # <<>>
         /\ Head(s) = c /\ Tail(s) = r
         /\ CallsIn(s) = {c} \cup CallsIn(r)
         /\ Owned(s) = Owned(r) \cup (IF Owns(c) THEN {c.hook} ELSE {})
         /\ Shape(s) <=> /\ Shape(r) /\ Form(c)
                         /\ r # <<>> => Within(Head(r), c)
<1>1. /\ s \in Seq(Calls) /\ s # <<>> /\ Len(s) = Len(r) + 1 /\ Len(r) \in Nat
      /\ Head(s) = c /\ Tail(s) = r
      /\ s[1] = c
      /\ DOMAIN r = 1 .. Len(r) /\ DOMAIN s = 1 .. Len(r) + 1
      /\ \A i \in DOMAIN r : s[i + 1] = r[i]
      /\ r # <<>> => Head(r) = r[1] /\ 1 \in DOMAIN r
  <2>1. s \in Seq(Calls) /\ Len(s) = Len(r) + 1 /\ Len(r) \in Nat
    OBVIOUS
  <2>2. s[1] = c /\ \A i \in DOMAIN r : s[i + 1] = r[i]
    OBVIOUS
  <2>3. s # <<>> /\ DOMAIN r = 1 .. Len(r) /\ DOMAIN s = 1 .. Len(r) + 1
    BY <2>1
  <2>4. Head(s) = c /\ Tail(s) = r
    OBVIOUS
  <2>5. r # <<>> => Head(r) = r[1] /\ 1 \in DOMAIN r
    OBVIOUS
  <2> QED
    BY <2>1, <2>2, <2>3, <2>4, <2>5
<1>5. 1 \in DOMAIN s
  BY <1>1
<1>2. CallsIn(s) = {c} \cup CallsIn(r)
  <2>1. ASSUME NEW i \in DOMAIN s PROVE s[i] \in {c} \cup CallsIn(r)
    <3>1. i = 1 \/ (i - 1 \in DOMAIN r /\ s[i] = r[i - 1])
      BY <1>1
    <3> QED
      BY <1>1, <3>1 DEF CallsIn
  <2>2. ASSUME NEW i \in DOMAIN r PROVE r[i] \in CallsIn(s)
    <3>1. i + 1 \in DOMAIN s /\ s[i + 1] = r[i]
      BY <1>1
    <3> QED
      BY <3>1 DEF CallsIn
  <2>3. c \in CallsIn(s)
    BY <1>1, <1>5 DEF CallsIn
  <2> QED
    BY <2>1, <2>2, <2>3, ZenonT(40) DEF CallsIn
<1>3. Owned(s) = Owned(r) \cup (IF Owns(c) THEN {c.hook} ELSE {})
  BY <1>2 DEF Owned
<1>4. Shape(s) <=> /\ Shape(r) /\ Form(c)
                   /\ r # <<>> => Within(Head(r), c)
  <2>1. ASSUME Shape(s)
        PROVE  Shape(r) /\ Form(c) /\ (r # <<>> => Within(Head(r), c))
    <3>1. Form(c)
      BY <1>1, <1>5, <2>1 DEF Shape
    <3>2. ASSUME NEW i \in DOMAIN r PROVE Form(r[i]) /\ (i > 1 => Within(r[i], r[i - 1]))
      <4>1. i + 1 \in DOMAIN s /\ s[i + 1] = r[i] /\ (i + 1) - 1 = i
        BY <1>1
      <4>2. i > 1 => i - 1 \in DOMAIN r /\ s[i] = r[i - 1]
        BY <1>1
      <4>3. Form(s[i + 1]) /\ (i + 1 > 1 => Within(s[i + 1], s[(i + 1) - 1]))
        BY <2>1, <4>1 DEF Shape
      <4>4. i \in Nat /\ i >= 1
        BY <1>1
      <4> QED
        BY <4>1, <4>2, <4>3, <4>4
    <3>3. r # <<>> => Within(Head(r), c)
      <4> SUFFICES ASSUME r # <<>> PROVE Within(Head(r), c)
        OBVIOUS
      <4>1. 2 \in DOMAIN s /\ s[2] = Head(r) /\ s[2 - 1] = c /\ 2 > 1
        BY <1>1
      <4> QED
        BY <2>1, <4>1 DEF Shape
    <3> QED
      BY <3>1, <3>2, <3>3 DEF Shape
  <2>2. ASSUME Shape(r), Form(c), r # <<>> => Within(Head(r), c)
        PROVE  Shape(s)
    <3> SUFFICES ASSUME NEW i \in DOMAIN s PROVE Form(s[i]) /\ (i > 1 => Within(s[i], s[i - 1]))
      BY DEF Shape
    <3>1. CASE i = 1
      BY <1>1, <2>2, <3>1
    <3>2. CASE i = 2
      <4>1. r # <<>> /\ s[2] = r[1] /\ 1 \in DOMAIN r /\ s[2 - 1] = c
        BY <1>1, <3>2
      <4> QED
        BY <1>1, <2>2, <3>2, <4>1 DEF Shape
    <3>3. CASE i > 2
      <4> DEFINE j == i - 1
      <4>1. /\ j \in DOMAIN r /\ j > 1 /\ s[i] = r[j]
            /\ j - 1 \in DOMAIN r /\ s[i - 1] = r[j - 1]
        BY <1>1, <3>3
      <4> QED
        BY <2>2, <4>1 DEF Shape
    <3> QED
      BY <1>1, <3>1, <3>2, <3>3
  <2> QED
    BY <2>1, <2>2
<1> QED
  BY <1>1, <1>2, <1>3, <1>4

LEMMA OwnedBy ==
  ASSUME NEW c \in Calls, NEW r \in Seq(Calls)
  PROVE  Owned(<<c>> \o r) = Owned(r) \cup (IF Owns(c) THEN {c.hook} ELSE {})
BY OnStack

LEMMA CallsOf ==
  ASSUME NEW c \in Calls, NEW r \in Seq(Calls)
  PROVE  CallsIn(<<c>> \o r) = {c} \cup CallsIn(r)
BY OnStack

LEMMA Split ==
  ASSUME NEW s \in Seq(Calls), Shape(s), s # <<>>,
         NEW c, c = Head(s), NEW r, r = Tail(s)
  PROVE  /\ c \in Calls /\ r \in Seq(Calls) /\ s = <<c>> \o r
         /\ Form(c) /\ Shape(r)
         /\ r # <<>> => Within(Head(r), c)
         /\ CallsIn(s) = {c} \cup CallsIn(r)
         /\ Owned(s) = Owned(r) \cup (IF Owns(c) THEN {c.hook} ELSE {})
<1>1. c \in Calls /\ r \in Seq(Calls) /\ s = <<c>> \o r
  OBVIOUS
<1> QED
  BY <1>1, OnStack

\* The end of a process and an execve() are inside of nothing.
LEMMA Bottom ==
  ASSUME NEW s \in Seq(Calls), Shape(s), s # <<>>, Head(s).op \in {"exit", "exec"}
  PROVE  Tail(s) = <<>> /\ CallsIn(s) = {Head(s)} /\ Owned(s) = {}
<1>0. Head(s) \in Calls /\ Tail(s) \in Seq(Calls)
  OBVIOUS
<1>1. PICK c \in Calls, r \in Seq(Calls) : c = Head(s) /\ r = Tail(s)
  BY <1>0
<1>2. /\ r # <<>> => Within(Head(r), c)
      /\ CallsIn(s) = {c} \cup CallsIn(r)
      /\ Owned(s) = Owned(r) \cup (IF Owns(c) THEN {c.hook} ELSE {})
  BY <1>1, Split, ZenonT(40)
<1>3. r = <<>> /\ ~Owns(c)
  BY <1>1, <1>2 DEF Within, Owns
<1>4. CallsIn(r) = {} /\ Owned(r) = {}
  BY <1>3 DEF CallsIn, Owned
<1> QED
  BY <1>1, <1>2, <1>3, <1>4

\* Only a call of close() is inside of anything that has a mutex, the destructor
\* whose socket it closes.
Under(c, r) ==
    \/ r = <<>> /\ CallsIn(r) = {} /\ Owned(r) = {}
    \/ /\ r # <<>> /\ Head(r).op \in {"exit", "exec"} /\ CallsIn(r) = {Head(r)}
       /\ Owned(r) = {} /\ Tail(r) = <<>>
    \/ /\ r # <<>> /\ Head(r).op = "cleanup" /\ Head(r).at = "reset"
       /\ c.op = "call" /\ c.hook = "close"
       /\ Head(r).hook = "close" => c.at = "check"
       /\ Owned(r) = {Head(r).hook}
       /\ \A b \in CallsIn(r) \ {Head(r)} : b.op \in {"exit", "exec"}

LEMMA Beneath ==
  ASSUME NEW s \in Seq(Calls), Shape(s), s # <<>>,
         NEW c, c = Head(s), NEW r, r = Tail(s)
  PROVE  Under(c, r)
<1>1. /\ c \in Calls /\ r \in Seq(Calls) /\ Shape(r)
      /\ r # <<>> => Within(Head(r), c)
  BY Split
<1>2. CASE r = <<>>
  BY <1>2 DEF CallsIn, Owned, Under
<1>3. CASE r # <<>> /\ Head(r).op \in {"exit", "exec"}
  BY <1>1, <1>3, Bottom DEF Under
<1>4. CASE r # <<>> /\ Head(r).op \notin {"exit", "exec"}
  <2>0. Head(r) \in Calls /\ Tail(r) \in Seq(Calls)
    BY <1>1, <1>4
  <2>1. PICK d \in Calls, q \in Seq(Calls) : d = Head(r) /\ q = Tail(r)
    BY <2>0
  <2>2. /\ d.op = "cleanup" /\ d.at = "reset" /\ c.op = "call" /\ c.hook = "close"
        /\ d.hook = "close" => c.at = "check"
    BY <1>1, <1>4, <2>1 DEF Within
  <2>3. /\ q # <<>> => Within(Head(q), d)
        /\ Owned(r) = Owned(q) \cup (IF Owns(d) THEN {d.hook} ELSE {})
        /\ Shape(q) /\ CallsIn(r) = {d} \cup CallsIn(q)
    BY <1>1, <1>4, <2>1, Split
  <2>6. Owns(d)
    BY <2>2 DEF Owns
  <2>4. q # <<>> => Head(q).op \in {"exit", "exec"}
    BY <2>2, <2>3 DEF Within
  <2>5. Owned(q) = {} /\ \A b \in CallsIn(q) : b.op \in {"exit", "exec"}
    <3>1. CASE q = <<>>
      BY <3>1 DEF CallsIn, Owned
    <3>2. CASE q # <<>>
      BY <2>3, <2>4, <3>2, Bottom
    <3> QED
      BY <3>1, <3>2
  <2> QED
    BY <1>4, <2>1, <2>2, <2>3, <2>5, <2>6 DEF Under
<1> QED
  BY <1>2, <1>3, <1>4

\* The innermost call of a thread, and what it is inside of.
LEMMA TopOf ==
  ASSUME TypeOK, StackInv, NEW t \in Threads, stack[t] # <<>>,
         NEW c, c = Top(t), NEW r, r = Tail(stack[t])
  PROVE  /\ c \in Calls /\ r \in Seq(Calls) /\ stack[t] = <<c>> \o r
         /\ Form(c) /\ Shape(r)
         /\ r # <<>> => Within(Head(r), c)
         /\ CallsIn(stack[t]) = {c} \cup CallsIn(r)
         /\ Owned(stack[t]) = Owned(r) \cup (IF Owns(c) THEN {c.hook} ELSE {})
         /\ Home[t] \in Procs /\ proc[Home[t]] # "unborn"
<1>1. /\ stack[t] \in Seq(Calls) /\ Shape(stack[t])
      /\ Home[t] \in Procs /\ proc[Home[t]] # "unborn"
  BY InterposerAssumption DEF TypeOK, StackInv
<1>2. PICK s \in Seq(Calls) : s = stack[t]
  BY <1>1
<1>3. Shape(s) /\ s # <<>> /\ c = Head(s) /\ r = Tail(s)
  BY <1>1, <1>2 DEF Top
<1>4. /\ c \in Calls /\ r \in Seq(Calls) /\ s = <<c>> \o r
      /\ Form(c) /\ Shape(r)
      /\ r # <<>> => Within(Head(r), c)
      /\ CallsIn(s) = {c} \cup CallsIn(r)
      /\ Owned(s) = Owned(r) \cup (IF Owns(c) THEN {c.hook} ELSE {})
  BY <1>3, Split
<1> QED
  BY <1>1, <1>2, <1>4
-----------------------------------------------------------------------------
(* What a step does to the stacks and the libraries. *)

\* The stack of t becomes n.
Restacks(t, n) ==
    /\ stack' = [stack EXCEPT ![t] = n]
    /\ n \in Seq(Calls) /\ Shape(n)
    /\ \A c \in CallsIn(n) : /\ c.conn \in Conns' \cup {NoConn}
                             /\ Finalizes(c) => voyeur_close_finalized'[Home[t]]
    /\ n # <<>> /\ Head(n).at \in Fields \cup {"done"} =>
          IF Head(n).op = "report" THEN Head(n).conn # NoConn
          ELSE lib'[Home[t]][Head(n).hook].sock # NoConn

\* Processes do not become unborn, nor a closing one open.
Onward ==
    /\ proc' \in [Procs -> {"unborn", "alive", "exited", "replaced", "crashed"}]
    /\ \A p \in Procs : proc[p] # "unborn" <=> proc'[p] # "unborn"
    /\ voyeur_close_finalized' \in [Procs -> BOOLEAN]
    /\ \A p \in Procs : voyeur_close_finalized[p] => voyeur_close_finalized'[p]
    /\ did_exit_already' \in [Procs -> BOOLEAN]
    /\ fini' \in [Procs -> SUBSET Hooks]
    /\ made' \in [Threads -> Nat]
    /\ shared' = shared
    /\ effects' \in [Procs -> [Hooks -> Seq(Events \X ConnNames)]]

\* Connections are only added, under new names.
Connects ==
    /\ Conns \subseteq Conns' /\ Conns' \subseteq ConnNames \ {NoConn}
    /\ \A c \in Conns' : wire'[c] \in Seq([kind : Fields \cup {"DONE"}, ev : Events])
    /\ Numbered'

\* Other threads keep the sockets they are about to send on.
LEMMA KeepsReady ==
  ASSUME CallInv, NEW t \in Threads, NEW n, Restacks(t, n),
         \A p \in Procs : \A h \in Hooks :
            \/ lib'[p][h].sock = lib[p][h].sock
            \/ lib[p][h].mutex \in {None, t}
  PROVE  \A u \in Threads : stack'[u] # <<>> /\ Top(u)'.at \in Fields \cup {"done"} =>
            IF Top(u)'.op = "report" THEN Top(u)'.conn # NoConn ELSE Lib(u)'.sock # NoConn
<1> SUFFICES ASSUME NEW u \in Threads, stack'[u] # <<>>, Top(u)'.at \in Fields \cup {"done"}
             PROVE  IF Top(u)'.op = "report" THEN Top(u)'.conn # NoConn ELSE Lib(u)'.sock # NoConn
  OBVIOUS
<1>1. stack \in [Threads -> Seq(Calls)] /\ TypeOK /\ StackInv /\ Locked
  BY DEF CallInv, TypeOK
<1>2. CASE u = t
  <2>1. stack'[t] = n
    BY <1>1 DEF Restacks
  <2> QED
    BY <1>2, <2>1 DEF Restacks, Top, Lib
<1>3. CASE u # t
  <2>1. stack'[u] = stack[u] /\ Top(u)' = Top(u) /\ stack[u] # <<>>
    BY <1>1, <1>3 DEF Restacks, Top
  <2>2. PICK c : c = Top(u)
    OBVIOUS
  <2>6. PICK r : r = Tail(stack[u])
    OBVIOUS
  <2>7. /\ Form(c) /\ Home[u] \in Procs
        /\ Owned(stack[u]) = Owned(r) \cup (IF Owns(c) THEN {c.hook} ELSE {})
    BY <1>1, <2>1, <2>2, <2>6, TopOf
  <2>3. /\ Form(c) /\ Home[u] \in Procs
        /\ Owns(c) => c.hook \in Owned(stack[u])
    BY <2>7
  <2>4. CASE c.op = "report"
    <3>1. c.conn # NoConn
      BY <1>1, <2>1, <2>2, <2>4 DEF TypeOK
    <3> QED
      BY <2>1, <2>2, <2>4, <3>1
  <2>5. CASE c.op # "report"
    <3>1. c.hook \in Hooks /\ Owns(c)
      BY <2>1, <2>2, <2>3, <2>5 DEF Form, Owns, Fields
    <3>2. lib[Home[u]][c.hook].mutex = u
      BY <1>1, <2>3, <3>1 DEF Locked
    <3>3. lib'[Home[u]][c.hook].sock = lib[Home[u]][c.hook].sock
      BY <1>3, <2>3, <3>1, <3>2, InterposerAssumption
    <3>4. lib[Home[u]][c.hook].sock # NoConn
      BY <1>1, <2>1, <2>2, <2>5 DEF TypeOK, Lib
    <3> QED
      BY <2>1, <2>2, <2>5, <3>3, <3>4 DEF Lib
  <2> QED
    BY <2>4, <2>5
<1> QED
  BY <1>2, <1>3

\* The parts of the invariant that are about stacks.
LEMMA StacksKept ==
  ASSUME CallInv, NEW t \in Threads, NEW n, Restacks(t, n), Onward, Runs(t),
         Conns \subseteq Conns'
  PROVE  /\ stack' \in [Threads -> Seq(Calls)] /\ StackInv'
         /\ stack'[t] = n /\ \A u \in Threads \ {t} : stack'[u] = stack[u]
         /\ \A u \in Threads : \A i \in DOMAIN stack'[u] :
               stack'[u][i].conn \in Conns' \cup {NoConn}
<1>1. /\ stack \in [Threads -> Seq(Calls)] /\ StackInv /\ Home \in [Threads -> Procs]
      /\ \A u \in Threads : \A i \in DOMAIN stack[u] :
               stack[u][i].conn \in Conns \cup {NoConn}
  BY InterposerAssumption DEF CallInv, TypeOK
<1>2. stack' \in [Threads -> Seq(Calls)] /\ stack'[t] = n
      /\ \A u \in Threads \ {t} : stack'[u] = stack[u]
  BY <1>1 DEF Restacks
<1>3. StackInv'
  <2> SUFFICES ASSUME NEW u \in Threads
               PROVE  Shape(stack'[u]) /\ (stack'[u] # <<>> => proc'[Home[u]] # "unborn")
    BY DEF StackInv
  <2>1. CASE u = t
    BY <1>1, <1>2, <2>1 DEF Restacks, Onward, Runs
  <2>2. CASE u # t
    BY <1>1, <1>2, <2>2 DEF StackInv, Onward
  <2> QED
    BY <2>1, <2>2
<1>4. ASSUME NEW u \in Threads, NEW i \in DOMAIN stack'[u]
      PROVE  stack'[u][i].conn \in Conns' \cup {NoConn}
  <2>1. CASE u = t
    BY <1>2, <2>1 DEF Restacks, CallsIn
  <2>2. CASE u # t
    BY <1>1, <1>2, <2>2
  <2> QED
    BY <2>1, <2>2
<1> QED
  BY <1>2, <1>3, <1>4
\* A step that leaves the mutexes alone.
LEMMA QuietStep ==
  ASSUME CallInv, NEW t \in Threads, NEW n, Restacks(t, n), Onward, Connects, Runs(t),
         lib' = lib, Owned(n) = Owned(stack[t])
  PROVE  CallInv'
<1>0. TypeOK /\ Numbered /\ StackInv /\ Locked /\ LibInv
  BY DEF CallInv
<1>1. /\ stack' \in [Threads -> Seq(Calls)] /\ StackInv'
      /\ stack'[t] = n /\ \A u \in Threads \ {t} : stack'[u] = stack[u]
      /\ \A u \in Threads : \A i \in DOMAIN stack'[u] :
               stack'[u][i].conn \in Conns' \cup {NoConn}
  BY StacksKept DEF Connects
<1>2. \A u \in Threads : stack'[u] # <<>> /\ Top(u)'.at \in Fields \cup {"done"} =>
            IF Top(u)'.op = "report" THEN Top(u)'.conn # NoConn ELSE Lib(u)'.sock # NoConn
  BY KeepsReady
<1>3. TypeOK'
  <2>1. lib' \in [Procs -> [Hooks -> Library]]
        /\ \A p \in Procs : \A h \in Hooks : lib'[p][h].sock \in Conns' \cup {NoConn}
    BY <1>0 DEF TypeOK, Connects
  <2>2. shared' \subseteq Conns'
    BY <1>0 DEF TypeOK, Onward, Connects
  <2> QED
    BY <1>1, <1>2, <2>1, <2>2 DEF TypeOK, Onward, Connects
<1>4. Locked'
  <2> SUFFICES ASSUME NEW u \in Threads
               PROVE  /\ \A h \in Hooks : lib[Home[u]][h].mutex = u <=> h \in Owned(stack'[u])
                      /\ \A c \in CallsIn(stack'[u]) : Finalizes(c) => voyeur_close_finalized'[Home[u]]
    BY DEF Locked
  <2>1. CASE u = t
    BY <1>0, <1>1, <2>1 DEF Locked, Restacks
  <2>2. CASE u # t
    BY <1>0, <1>1, <2>2, InterposerAssumption DEF Locked, Onward
  <2> QED
    BY <2>1, <2>2
<1>5. LibInv'
  <2> SUFFICES ASSUME NEW p \in Procs, NEW h \in Hooks PROVE LibState(p, h)'
    BY DEF LibInv
  <2>1. LibState(p, h) /\ lib[p][h].mutex \in Threads \cup {None}
    BY <1>0 DEF LibInv, TypeOK, Library
  <2> QED
    BY <2>1, InterposerAssumption DEF LibState, Onward
<1> QED
  BY <1>1, <1>3, <1>4, <1>5 DEF CallInv, Connects

\* A step that takes a mutex that nobody has, or gives back the one that t has.
LEMMA MutexStep ==
  ASSUME CallInv, NEW t \in Threads, NEW n, Restacks(t, n), Onward, Connects, Runs(t),
         NEW h \in Hooks, NEW l \in Library, lib' = [lib EXCEPT ![Home[t]][h] = l],
         l.sock \in Conns' \cup {NoConn}, ~l.initialized => l.sock = NoConn,
         \/ /\ lib[Home[t]][h].mutex = None /\ l.mutex = t
            /\ Owned(n) = Owned(stack[t]) \cup {h}
         \/ /\ lib[Home[t]][h].mutex = t /\ l.mutex = None
            /\ Owned(n) = Owned(stack[t]) \ {h}
  PROVE  CallInv'
<1>0. TypeOK /\ Numbered /\ StackInv /\ Locked /\ LibInv
  BY DEF CallInv
<1>1. /\ stack' \in [Threads -> Seq(Calls)] /\ StackInv'
      /\ stack'[t] = n /\ \A u \in Threads \ {t} : stack'[u] = stack[u]
      /\ \A u \in Threads : \A i \in DOMAIN stack'[u] :
               stack'[u][i].conn \in Conns' \cup {NoConn}
  BY StacksKept DEF Connects
<1>a. Home \in [Threads -> Procs] /\ lib \in [Procs -> [Hooks -> Library]]
  BY <1>0, InterposerAssumption DEF TypeOK
<1>b. /\ lib'[Home[t]][h] = l
      /\ \A p \in Procs : \A k \in Hooks : p # Home[t] \/ k # h => lib'[p][k] = lib[p][k]
  BY <1>a
<1>2. \A u \in Threads : stack'[u] # <<>> /\ Top(u)'.at \in Fields \cup {"done"} =>
            IF Top(u)'.op = "report" THEN Top(u)'.conn # NoConn ELSE Lib(u)'.sock # NoConn
  <2>1. \A p \in Procs : \A k \in Hooks :
            \/ lib'[p][k].sock = lib[p][k].sock
            \/ lib[p][k].mutex \in {None, t}
    BY <1>b
  <2> QED
    BY <2>1, KeepsReady
<1>3. TypeOK'
  <2>1. lib' \in [Procs -> [Hooks -> Library]]
    BY <1>a
  <2>3. \A p \in Procs : \A k \in Hooks : lib'[p][k].sock \in Conns' \cup {NoConn}
    BY <1>0, <1>b DEF TypeOK, Connects
  <2>2. shared' \subseteq Conns'
    BY <1>0 DEF TypeOK, Onward, Connects
  <2> QED
    BY <1>1, <1>2, <2>1, <2>2, <2>3 DEF TypeOK, Onward, Connects
<1>4. Locked'
  <2> SUFFICES ASSUME NEW u \in Threads
               PROVE  /\ \A k \in Hooks : lib'[Home[u]][k].mutex = u <=> k \in Owned(stack'[u])
                      /\ \A c \in CallsIn(stack'[u]) : Finalizes(c) => voyeur_close_finalized'[Home[u]]
    BY DEF Locked
  <2>1. CASE u = t
    <3>1. ASSUME NEW k \in Hooks
          PROVE  lib'[Home[t]][k].mutex = t <=> k \in Owned(n)
      <4>1. lib[Home[t]][k].mutex = t <=> k \in Owned(stack[t])
        BY <1>0 DEF Locked
      <4> QED
        BY <1>a, <1>b, <4>1, InterposerAssumption
    <3> QED
      BY <1>1, <2>1, <3>1 DEF Restacks
  <2>2. CASE u # t
    <3>1. ASSUME NEW k \in Hooks
          PROVE  lib'[Home[u]][k].mutex = u <=> k \in Owned(stack[u])
      <4>1. lib[Home[u]][k].mutex = u <=> k \in Owned(stack[u])
        BY <1>0 DEF Locked
      <4> QED
        BY <1>a, <1>b, <2>2, <4>1, InterposerAssumption
    <3>2. \A c \in CallsIn(stack[u]) : Finalizes(c) => voyeur_close_finalized'[Home[u]]
      BY <1>0, <1>a DEF Locked, Onward
    <3> QED
      BY <1>1, <2>2, <3>1, <3>2
  <2> QED
    BY <2>1, <2>2
<1>5. LibInv'
  <2> SUFFICES ASSUME NEW p \in Procs, NEW k \in Hooks PROVE LibState(p, k)'
    BY DEF LibInv
  <2>1. LibState(p, k) /\ lib[p][k].mutex \in Threads \cup {None}
    BY <1>0 DEF LibInv, TypeOK, Library
  <2>2. CASE p = Home[t] /\ k = h
    BY <1>a, <1>b, <2>2 DEF LibState, Onward, Runs
  <2>3. CASE p # Home[t] \/ k # h
    BY <1>a, <1>b, <2>1, <2>3 DEF LibState, Onward
  <2> QED
    BY <2>2, <2>3
<1> QED
  BY <1>1, <1>3, <1>4, <1>5 DEF CallInv, Connects

\* The calls of a stack have connections that were made, and if one of them is the
\* destructor of close(), then its process is closing.
LEMMA Calling ==
  ASSUME CallInv, NEW t \in Threads
  PROVE  \A c \in CallsIn(stack[t]) : /\ c.conn \in Conns \cup {NoConn}
                                      /\ Finalizes(c) => voyeur_close_finalized[Home[t]]
BY DEF CallInv, TypeOK, Locked, CallsIn

\* A stack with another innermost call.
LEMMA Stacks ==
  ASSUME NEW t \in Threads, NEW d \in Calls, NEW r \in Seq(Calls), NEW n, n = <<d>> \o r,
         stack' = [stack EXCEPT ![t] = n],
         Form(d), Shape(r), r # <<>> => Within(Head(r), d),
         \A c \in CallsIn(r) : /\ c.conn \in Conns' \cup {NoConn}
                               /\ Finalizes(c) => voyeur_close_finalized'[Home[t]],
         d.conn \in Conns' \cup {NoConn},
         Finalizes(d) => voyeur_close_finalized'[Home[t]],
         d.at \in Fields \cup {"done"} =>
            IF d.op = "report" THEN d.conn # NoConn
            ELSE lib'[Home[t]][d.hook].sock # NoConn
  PROVE  /\ Restacks(t, n)
         /\ Owned(n) = Owned(r) \cup (IF Owns(d) THEN {d.hook} ELSE {})
<1>1. /\ n \in Seq(Calls) /\ n # <<>> /\ Head(n) = d
      /\ CallsIn(n) = {d} \cup CallsIn(r)
      /\ Owned(n) = Owned(r) \cup (IF Owns(d) THEN {d.hook} ELSE {})
      /\ Shape(n)
  BY OnStack
<1> QED
  BY <1>1 DEF Restacks

\* A call at another place.
Placed(c, at) == [op |-> c.op, hook |-> c.hook, at |-> at, ev |-> c.ev, conn |-> c.conn]

LEMMA MovedPlaces ==
  ASSUME NEW t \in Threads, Top(t) \in Calls, NEW at
  PROVE  Moved(t, at) = <<Placed(Top(t), at)>> \o Tail(stack[t])
<1>1. PICK c \in Calls : c = Top(t)
  OBVIOUS
<1>2. [c EXCEPT !.at = at] = Placed(c, at)
  BY DEF Calls, Placed
<1> QED
  BY <1>1, <1>2 DEF Moved

\* A stack n that is r with call d on it has the mutexes of both.
Adds(n, r, d) == Owned(n) = Owned(r) \cup (IF Owns(d) THEN {d.hook} ELSE {})

\* Goto() moves the innermost call.  A close() called by the destructor of close()
\* does not get past its first test.
LEMMA Going ==
  ASSUME CallInv, NEW t \in Threads, stack[t] # <<>>, NEW at \in Labels,
         NEW c, c = Top(t), NEW r, r = Tail(stack[t]), NEW d, d = Placed(c, at),
         Goto(t, at), Onward, Connects, Form(d),
         c.at = "check" => ~voyeur_close_finalized[Home[t]],
         Finalizes(d) => voyeur_close_finalized'[Home[t]],
         at \in Fields \cup {"done"} =>
            IF c.op = "report" THEN c.conn # NoConn
            ELSE lib'[Home[t]][c.hook].sock # NoConn
  PROVE  \E n : Restacks(t, n) /\ Adds(n, r, d)
<1>1. /\ c \in Calls /\ r \in Seq(Calls) /\ stack[t] = <<c>> \o r
      /\ Form(c) /\ Shape(r)
      /\ r # <<>> => Within(Head(r), c)
      /\ CallsIn(stack[t]) = {c} \cup CallsIn(r)
      /\ Home[t] \in Procs
  <2>1. TypeOK /\ StackInv
    BY DEF CallInv
  <2>2. c \in Calls /\ r \in Seq(Calls)
    BY <2>1, TopOf
  <2>3. stack[t] = <<c>> \o r
    BY <2>1, TopOf
  <2>4. Form(c) /\ Shape(r)
    BY <2>1, TopOf
  <2>5. r # <<>> => Within(Head(r), c)
    BY <2>1, TopOf
  <2>6. CallsIn(stack[t]) = {c} \cup CallsIn(r) /\ Home[t] \in Procs
    BY <2>1, TopOf
  <2> QED
    BY <2>2, <2>3, <2>4, <2>5, <2>6
<1>2. d \in Calls /\ d.op = c.op /\ d.hook = c.hook /\ d.conn = c.conn /\ d.at = at
  BY <1>1 DEF Calls, Placed
<1>3. \A b \in CallsIn(stack[t]) : /\ b.conn \in Conns \cup {NoConn}
                                   /\ Finalizes(b) => voyeur_close_finalized[Home[t]]
  BY Calling
<1>4. \A b \in CallsIn(r) : /\ b.conn \in Conns' \cup {NoConn}
                            /\ Finalizes(b) => voyeur_close_finalized'[Home[t]]
  BY <1>1, <1>3 DEF Connects, Onward
<1>5. ASSUME r # <<>> PROVE Within(Head(r), d)
  <2>1. PICK b \in Calls : b = Head(r) /\ b \in CallsIn(r)
    <3>1. Head(r) \in Calls /\ Head(r) = r[1] /\ 1 \in DOMAIN r
      BY <1>1, <1>5
    <3> QED
      BY <3>1 DEF CallsIn
  <2>2. ~(b.op = "cleanup" /\ b.hook = "close" /\ b.at = "reset")
    <3>1. SUFFICES ASSUME b.op = "cleanup", b.hook = "close", b.at = "reset" PROVE FALSE
      OBVIOUS
    <3>2. c.at = "check"
      BY <1>1, <1>5, <2>1, <3>1 DEF Within
    <3>3. Finalizes(b)
      BY <3>1 DEF Finalizes, Owns
    <3> QED
      BY <1>1, <1>3, <2>1, <3>2, <3>3
  <2>3. Within(b, c)
    BY <1>1, <1>5, <2>1
  <2> QED
    BY <1>2, <2>1, <2>2, <2>3 DEF Within
<1>6. d.conn \in Conns' \cup {NoConn}
  BY <1>1, <1>2, <1>3 DEF Connects
<1>7. stack' = [stack EXCEPT ![t] = <<d>> \o r]
  <2>1. Top(t) \in Calls /\ r = Tail(stack[t])
    BY <1>1
  <2>2. Moved(t, at) = <<d>> \o r
    BY <2>1, MovedPlaces
  <2> QED
    BY <2>2 DEF Goto
<1>8. PICK n : n = <<d>> \o r
  OBVIOUS
<1>9. stack' = [stack EXCEPT ![t] = n] /\ Form(d) /\ Shape(r)
  BY <1>1, <1>7, <1>8
<1>10. d.at \in Fields \cup {"done"} =>
         IF d.op = "report" THEN d.conn # NoConn ELSE lib'[Home[t]][d.hook].sock # NoConn
  BY <1>2
<1>11. Restacks(t, n)
  BY <1>1, <1>2, <1>4, <1>5, <1>6, <1>8, <1>9, <1>10, Stacks
<1>12. Adds(n, r, d)
  BY <1>1, <1>2, <1>8, OwnedBy DEF Adds
<1> QED
  BY <1>11, <1>12

\* Return() leaves what the call was inside of.
LEMMA Returning ==
  ASSUME CallInv, NEW t \in Threads, stack[t] # <<>>, Return(t), Onward, Connects
  PROVE  Restacks(t, Tail(stack[t]))
<1>0. PICK c, r : c = Top(t) /\ r = Tail(stack[t])
  OBVIOUS
<1>1. /\ c \in Calls /\ r \in Seq(Calls) /\ stack[t] = <<c>> \o r
      /\ Form(c) /\ Shape(r)
      /\ r # <<>> => Within(Head(r), c)
      /\ CallsIn(stack[t]) = {c} \cup CallsIn(r)
      /\ Home[t] \in Procs
  BY <1>0, TopOf DEF CallInv
<1>3. \A b \in CallsIn(stack[t]) : /\ b.conn \in Conns \cup {NoConn}
                                   /\ Finalizes(b) => voyeur_close_finalized[Home[t]]
  BY Calling
<1>4. \A b \in CallsIn(r) : /\ b.conn \in Conns' \cup {NoConn}
                            /\ Finalizes(b) => voyeur_close_finalized'[Home[t]]
  BY <1>1, <1>3 DEF Connects, Onward
<1>5. ASSUME r # <<>> PROVE Head(r).at \notin Fields \cup {"done"}
  <2>1. PICK b : b = Head(r) /\ Form(b)
    <3>1. Head(r) = r[1] /\ 1 \in DOMAIN r
      BY <1>1, <1>5
    <3> QED
      BY <1>1, <3>1 DEF Shape
  <2>2. Within(b, c)
    BY <1>1, <1>5, <2>1
  <2>3. b.at \in {"fini", "end", "real", "reset"}
    BY <2>1, <2>2 DEF Within, Form
  <2> QED
    BY <2>1, <2>3 DEF Fields
<1>6. stack' = [stack EXCEPT ![t] = r]
  BY <1>0 DEF Return
<1> QED
  BY <1>0, <1>1, <1>4, <1>5, <1>6 DEF Restacks

\* Enter() begins a call that has no connection and no mutex yet.
LEMMA Entering ==
  ASSUME CallInv, NEW t \in Threads, NEW d \in Calls, NEW q \in Seq(Calls), Enter(t, d, q),
         Connects, Onward, Form(d), ~Owns(d), d.conn = NoConn, d.at \notin Fields \cup {"done"},
         Shape(q), q # <<>> => Within(Head(q), d),
         \A c \in CallsIn(q) : /\ c.conn \in Conns \cup {NoConn}
                               /\ Finalizes(c) => voyeur_close_finalized[Home[t]]
  PROVE  \E n : Restacks(t, n) /\ Owned(n) = Owned(q)
<1>1. PICK n : n = <<d>> \o q
  OBVIOUS
<1>2. stack' = [stack EXCEPT ![t] = n] /\ Home[t] \in Procs
  BY <1>1, InterposerAssumption DEF Enter
<1>3. \A c \in CallsIn(q) : /\ c.conn \in Conns' \cup {NoConn}
                            /\ Finalizes(c) => voyeur_close_finalized'[Home[t]]
  BY <1>2 DEF Connects, Onward
<1>4. ~Finalizes(d)
  BY DEF Finalizes
<1>5. Restacks(t, n)
  BY <1>1, <1>2, <1>3, <1>4, Stacks
<1>6. Owned(n) = Owned(q)
  BY <1>1, OwnedBy
<1> QED
  BY <1>5, <1>6

-----------------------------------------------------------------------------
(* What a step does to the connections. *)

LEMMA SameConns ==
  ASSUME CallInv, wire' = wire
  PROVE  Connects
BY DEF CallInv, TypeOK, Connects, Numbered, Made, Conns

\* What is sent is appended to what was.
LEMMA Writing ==
  ASSUME CallInv, NEW c \in Conns, NEW k \in Fields \cup {"DONE"}, NEW e \in Events,
         Write(c, Item(e, k))
  PROVE  /\ Connects /\ Conns' = Conns
         /\ wire[c] \in Seq([kind : Fields \cup {"DONE"}, ev : Events])
         /\ wire'[c] = Append(wire[c], Item(e, k))
         /\ \A d \in Conns : d # c => wire'[d] = wire[d]
<1>1. /\ \A d \in Conns : wire[d] \in Seq([kind : Fields \cup {"DONE"}, ev : Events])
      /\ Conns \subseteq ConnNames \ {NoConn} /\ Numbered
  BY DEF CallInv, TypeOK
<1>2. DOMAIN wire' = DOMAIN wire
  BY DEF Write
<1>3. /\ wire'[c] = Append(wire[c], Item(e, k))
      /\ \A d \in Conns : d # c => wire'[d] = wire[d]
  BY DEF Write, Conns
<1>4. Item(e, k) \in [kind : Fields \cup {"DONE"}, ev : Events]
  BY DEF Item
<1>5. \A d \in Conns : wire'[d] \in Seq([kind : Fields \cup {"DONE"}, ev : Events])
  <2> DEFINE R == [kind : Fields \cup {"DONE"}, ev : Events]
  <2>1. wire[c] \in Seq(R) /\ Item(e, k) \in R
    BY <1>1, <1>4
  <2>2. Append(wire[c], Item(e, k)) \in Seq(R)
    <3> HIDE DEF R
    <3> QED
      BY <2>1
  <2> QED
    BY <1>1, <1>3, <2>2
<1>6. Conns' = Conns
  BY <1>2 DEF Conns
<1>7. Numbered'
  BY <1>1, <1>6 DEF Numbered, Made
<1> QED
  BY <1>1, <1>3, <1>5, <1>6, <1>7 DEF Connects

\* A new connection has a name that no other one has.
LEMMA Connecting ==
  ASSUME CallInv, NEW p \in Procs, NEW what \in Names, NEW c, c = NewConn(p, what),
         Connect(c)
  PROVE  /\ Connects /\ c \notin Conns /\ Conns' = Conns \cup {c} /\ c # NoConn
         /\ c \in ConnNames /\ c[1] = p /\ c[2] = what
         /\ wire'[c] = <<>> /\ \A d \in Conns : wire'[d] = wire[d]
<1>0. /\ \A d \in Conns : wire[d] \in Seq([kind : Fields \cup {"DONE"}, ev : Events])
      /\ Conns \subseteq ConnNames \ {NoConn} /\ Numbered
  BY DEF CallInv, TypeOK
<1>1. DEFINE S == Made(p, what)
             k == Cardinality(S)
<1>2. IsFiniteSet(Conns) /\ IsFiniteSet(S) /\ k \in Nat
  BY <1>0, FS_Subset, FS_CardinalityType DEF Numbered, Made
<1>3. c = <<p, what, 1 + k>>
  BY DEF NewConn, Made
<1>4. c \in Procs \X Names \X Nat /\ c[1] = p /\ c[2] = what /\ c[3] = 1 + k
  BY <1>2, <1>3
<1>5. c \in ConnNames /\ c # NoConn
  BY <1>4 DEF ConnNames, NoConn
<1>6. c \notin Conns
  <2> SUFFICES ASSUME c \in Conns PROVE FALSE
    OBVIOUS
  <2>1. c[3] \in 1 .. k
    BY <1>0, <1>4 DEF Numbered
  <2> QED
    BY <1>2, <1>4, <2>1
<1>7. /\ Conns' = Conns \cup {c}
      /\ wire'[c] = <<>> /\ \A d \in Conns : wire'[d] = wire[d]
  BY <1>6 DEF Connect, Conns
<1>8. Numbered'
  <2>1. IsFiniteSet(Conns')
    BY <1>2, <1>7, FS_AddElement
  <2>2. Made(p, what)' = S \cup {c} /\ c \notin S
    BY <1>4, <1>6, <1>7 DEF Made
  <2>3. Cardinality(S \cup {c}) = k + 1
    BY <1>2, <2>2, FS_AddElement
  <2>4. ASSUME NEW d \in Conns'
        PROVE  d[3] \in 1 .. Cardinality(Made(d[1], d[2])')
    <3>1. CASE d = c
      <4>1. Made(d[1], d[2])' = S \cup {c} /\ d[3] = k + 1
        BY <1>2, <1>4, <2>2, <3>1
      <4> QED
        BY <1>2, <2>3, <4>1
    <3>2. CASE d # c
      <4>1. d \in Conns /\ d[3] \in 1 .. Cardinality(Made(d[1], d[2]))
        BY <1>0, <1>7, <3>2 DEF Numbered
      <4>2. CASE d[1] = p /\ d[2] = what
        BY <1>2, <2>2, <2>3, <4>1, <4>2
      <4>3. CASE ~(d[1] = p /\ d[2] = what)
        <5>1. Made(d[1], d[2])' = Made(d[1], d[2])
          BY <1>4, <1>7, <4>3 DEF Made
        <5> QED
          BY <4>1, <5>1
      <4> QED
        BY <4>2, <4>3
    <3> QED
      BY <3>1, <3>2
  <2> QED
    BY <2>1, <2>4 DEF Numbered
<1>9. \A d \in Conns' : wire'[d] \in Seq([kind : Fields \cup {"DONE"}, ev : Events])
  <2>1. <<>> \in Seq([kind : Fields \cup {"DONE"}, ev : Events])
    OBVIOUS
  <2> QED
    BY <1>0, <1>7, <2>1
<1> QED
  BY <1>0, <1>4, <1>5, <1>6, <1>7, <1>8, <1>9 DEF Connects

-----------------------------------------------------------------------------
(* The steps of the threads. *)

LEMMA NewCall ==
  ASSUME CallInv, NEW t \in Threads, NEW op \in Ops, NEW hook \in Names, NEW at \in Labels,
         NEW d, d = Call(op, hook, at, NewEvent(t))
  PROVE  /\ d \in Calls /\ d.op = op /\ d.hook = hook /\ d.at = at /\ d.conn = NoConn
         /\ d.ev = NewEvent(t) /\ NewEvent(t) \in Events
<1>1. made[t] \in Nat
  BY DEF CallInv, TypeOK
<1>2. NewEvent(t) \in Events
  BY <1>1 DEF NewEvent, Events
<1> QED
  BY <1>2 DEF Call, Calls, ConnNames

\* Steps that leave the stacks alone.
LEMMA Staying ==
  ASSUME CallInv, NEW t \in Threads, Onward, UNCHANGED <<stack, lib, wire>>, Runs(t)
  PROVE  CallInv'
<1>0. TypeOK /\ StackInv /\ Locked /\ Connects
  BY SameConns DEF CallInv
<1>1. /\ stack' = [stack EXCEPT ![t] = stack[t]]
      /\ stack[t] \in Seq(Calls) /\ Shape(stack[t]) /\ Home[t] \in Procs
  BY <1>0, InterposerAssumption DEF TypeOK, StackInv
<1>2. \A c \in CallsIn(stack[t]) : /\ c.conn \in Conns' \cup {NoConn}
                                   /\ Finalizes(c) => voyeur_close_finalized'[Home[t]]
  BY <1>0, <1>1, Calling DEF Connects, Onward
<1>3. stack[t] # <<>> /\ Head(stack[t]).at \in Fields \cup {"done"} =>
          IF Head(stack[t]).op = "report" THEN Head(stack[t]).conn # NoConn
          ELSE lib'[Home[t]][Head(stack[t]).hook].sock # NoConn
  BY <1>0 DEF TypeOK, Top, Lib
<1>4. Restacks(t, stack[t])
  BY <1>1, <1>2, <1>3 DEF Restacks
<1> QED
  BY <1>0, <1>4, QuietStep

LEMMA CallHookStep ==
  ASSUME CallInv, NEW t \in Threads, NEW h \in Hooks, CallHook(t, h)
  PROVE  CallInv'
<1>0. TypeOK /\ StackInv /\ Locked /\ InterposerAssumption
  BY InterposerAssumption DEF CallInv
<1>1. PICK d : d = Call("call", h, Entry(h), NewEvent(t))
  OBVIOUS
<1>2. Entry(h) \in {"check", "lock"} /\ (Entry(h) = "check" => h = "close")
  BY DEF Entry
<1>3. /\ d \in Calls /\ d.op = "call" /\ d.hook = h /\ d.at = Entry(h) /\ d.conn = NoConn
  BY <1>1, <1>2, NewCall DEF Ops, Names, Labels
<1>4. Form(d) /\ ~Owns(d) /\ d.at \notin Fields \cup {"done"}
  BY <1>2, <1>3 DEF Form, Owns, Fields
<1>5. Runs(t) /\ stack[t] \in Seq(Calls) /\ Shape(stack[t])
  BY <1>0 DEF CallHook, Idle, In, TypeOK, StackInv
<1>6. stack[t] # <<>> => Within(Head(stack[t]), d)
  BY <1>3 DEF CallHook, Idle, In, Top, Within
<1>7. Connects /\ Enter(t, d, stack[t]) /\ lib' = lib
  BY <1>1, SameConns DEF CallHook
<1>8. Onward
  BY <1>0 DEF Onward, CallHook, Enter, TypeOK
<1>9. \A c \in CallsIn(stack[t]) : /\ c.conn \in Conns \cup {NoConn}
                                   /\ Finalizes(c) => voyeur_close_finalized[Home[t]]
  BY Calling
<1>10. PICK n : Restacks(t, n) /\ Owned(n) = Owned(stack[t])
  BY <1>3, <1>4, <1>5, <1>6, <1>7, <1>8, <1>9, Entering
<1> QED
  BY <1>5, <1>7, <1>8, <1>10, QuietStep

LEMMA CheckFinalizedStep ==
  ASSUME CallInv, NEW t \in Threads, CheckFinalized(t)
  PROVE  CallInv'
<1>0. TypeOK /\ StackInv /\ Locked
  BY DEF CallInv
<1>1. PICK c, r, d : c = Top(t) /\ r = Tail(stack[t]) /\ d = Placed(c, "lock")
  OBVIOUS
<1>2. /\ stack[t] # <<>> /\ c.op = "call" /\ c.at = "check" /\ Goto(t, "lock")
      /\ ~voyeur_close_finalized[Home[t]] /\ Runs(t) /\ lib' = lib
  BY <1>1 DEF CheckFinalized, In
<1>3. Form(c) /\ Owned(stack[t]) = Owned(r) \cup (IF Owns(c) THEN {c.hook} ELSE {})
  BY <1>0, <1>1, <1>2, TopOf
<1>4. Form(d) /\ ~Owns(d) /\ ~Owns(c) /\ ~Finalizes(d)
  BY <1>1, <1>2, <1>3 DEF Form, Owns, Placed, Fields, Finalizes
<1>5. Onward /\ Connects
  BY <1>0, SameConns DEF Onward, CheckFinalized, Goto, TypeOK
<1>6. PICK n : Restacks(t, n) /\ Adds(n, r, d)
  <2>1. "lock" \in Labels /\ "lock" \notin Fields \cup {"done"}
    BY DEF Labels, Fields
  <2> QED
    BY <1>1, <1>2, <1>4, <1>5, <2>1, Going
<1>7. Owned(n) = Owned(stack[t])
  BY <1>3, <1>4, <1>6 DEF Adds
<1> QED
  BY <1>2, <1>5, <1>6, <1>7, QuietStep

LEMMA ForwardStep ==
  ASSUME CallInv, NEW t \in Threads, Forward(t)
  PROVE  CallInv'
<1>0. TypeOK /\ StackInv /\ Locked
  BY DEF CallInv
<1>1. PICK c, r : c = Top(t) /\ r = Tail(stack[t])
  OBVIOUS
<1>2. stack[t] # <<>> /\ c.op = "call" /\ c.at = "check" /\ Runs(t) /\ lib' = lib /\ wire' = wire
  BY <1>1 DEF Forward, In
<1>5. Connects
  BY <1>2, SameConns
<1>6. Onward
  <2>1. \/ UNCHANGED proc
        \/ proc' = [proc EXCEPT ![Home[t]] = "crashed"]
    BY DEF Forward
  <2>2. made' = made /\ shared' = shared /\ effects' = effects /\ fini' = fini
        /\ UNCHANGED <<voyeur_close_finalized, did_exit_already>>
    BY DEF Forward, Return
  <2> QED
    BY <1>0, <1>2, <2>1, <2>2 DEF Onward, TypeOK, Runs
<1>7. CASE Return(t)
  <2>1. Restacks(t, r)
    BY <1>1, <1>2, <1>5, <1>6, <1>7, Returning
  <2>2. Owned(stack[t]) = Owned(r) \cup (IF Owns(c) THEN {c.hook} ELSE {})
    BY <1>0, <1>1, <1>2, TopOf
  <2>3. ~Owns(c)
    BY <1>2 DEF Owns, Fields
  <2> QED
    BY <1>2, <1>5, <1>6, <2>1, <2>2, <2>3, QuietStep
<1>8. CASE UNCHANGED stack
  BY <1>2, <1>6, <1>8, Staying
<1> QED
  BY <1>7, <1>8 DEF Forward

\* A thread has a mutex but once.
LEMMA OnceOwned ==
  ASSUME CallInv, NEW t \in Threads, stack[t] # <<>>,
         NEW c, c = Top(t), NEW r, r = Tail(stack[t]), Owns(c)
  PROVE  /\ Owned(r) = Owned(stack[t]) \ {c.hook}
         /\ Owned(stack[t]) = Owned(r) \cup {c.hook}
<1>1. TypeOK /\ StackInv
  BY DEF CallInv
<1>2. Owned(stack[t]) = Owned(r) \cup {c.hook}
  BY <1>1, TopOf
<1>3. stack[t] \in Seq(Calls) /\ Shape(stack[t]) /\ c = Head(stack[t])
  BY <1>1 DEF TypeOK, StackInv, Top
<1>4. c.hook \notin Owned(r)
  <2>1. PICK s \in Seq(Calls) : s = stack[t]
    BY <1>3
  <2>2. s # <<>> /\ Shape(s) /\ c = Head(s) /\ r = Tail(s)
    BY <1>3, <2>1
  <2>3. c.at # "check"
    BY DEF Owns, Fields
  <2>4. Under(c, r)
    BY <2>2, Beneath
  <2> QED
    BY <2>3, <2>4 DEF Under
<1> QED
  BY <1>2, <1>4

\* What takes a mutex that is free.
LEMMA Acquiring ==
  ASSUME CallInv, NEW t \in Threads, NEW n, Restacks(t, n), Onward, Connects, Runs(t),
         NEW h \in Hooks, NEW m \in Library, lib' = [lib EXCEPT ![Home[t]][h] = m],
         m.sock \in Conns' \cup {NoConn}, ~m.initialized => m.sock = NoConn,
         lib[Home[t]][h].mutex = None, m.mutex = t, Owned(n) = Owned(stack[t]) \cup {h}
  PROVE  CallInv'
BY MutexStep

LEMMA LockStep ==
  ASSUME CallInv, NEW t \in Threads, Lock(t)
  PROVE  CallInv'
<1>0. TypeOK /\ StackInv /\ Locked
  BY DEF CallInv
<1>1. PICK c, r, d : c = Top(t) /\ r = Tail(stack[t]) /\ d = Placed(c, "real")
  OBVIOUS
<1>2. /\ stack[t] # <<>> /\ c.op = "call" /\ c.at = "lock" /\ Goto(t, "real")
      /\ Runs(t) /\ Lib(t).mutex = None
  BY <1>1 DEF Lock, In
<1>3. /\ Form(c) /\ Owned(stack[t]) = Owned(r) \cup (IF Owns(c) THEN {c.hook} ELSE {})
      /\ Home[t] \in Procs
  BY <1>0, <1>1, <1>2, TopOf
<1>4. /\ Form(d) /\ Owns(d) /\ d.hook = c.hook /\ ~Owns(c) /\ ~Finalizes(d) /\ c.hook \in Hooks
  BY <1>1, <1>2, <1>3 DEF Form, Owns, Placed, Fields, Finalizes
<1>5. PICK l : l = lib[Home[t]][c.hook]
  OBVIOUS
<1>6. l \in Library /\ l.mutex = None /\ l = Lib(t) /\ l.sock \in Conns \cup {NoConn}
      /\ (~l.initialized => l.sock = NoConn)
  BY <1>0, <1>1, <1>2, <1>3, <1>4, <1>5 DEF TypeOK, Lib, CallInv, LibInv, LibState
<1>7. Onward
  BY <1>0 DEF Onward, Lock, Goto, TypeOK
<1>8. PICK m \in Library :
         /\ Connects /\ lib' = [lib EXCEPT ![Home[t]][c.hook] = m] /\ m.mutex = t
         /\ m.sock \in Conns' \cup {NoConn} /\ (~m.initialized => m.sock = NoConn)
  <2>1. CASE l.initialized /\ SetLib(t, [l EXCEPT !.mutex = t]) /\ UNCHANGED wire
    <3>1. PICK m : m = [l EXCEPT !.mutex = t]
      OBVIOUS
    <3>2. m \in Library /\ m.mutex = t /\ m.sock = l.sock /\ m.initialized = l.initialized
      BY <1>6, <3>1 DEF Library
    <3>3. Connects /\ Conns' = Conns
      BY <2>1, SameConns DEF Conns
    <3>4. lib' = [lib EXCEPT ![Home[t]][c.hook] = m]
      BY <1>1, <2>1, <3>1 DEF SetLib
    <3> QED
      BY <1>6, <3>2, <3>3, <3>4
  <2>2. ASSUME NEW e \in Sockets(Home[t], c.hook),
               IF e = NoConn THEN UNCHANGED wire ELSE Connect(e),
               SetLib(t, [mutex |-> t, initialized |-> TRUE, next |-> TRUE, sock |-> e])
        PROVE  \E m \in Library :
         /\ Connects /\ lib' = [lib EXCEPT ![Home[t]][c.hook] = m] /\ m.mutex = t
         /\ m.sock \in Conns' \cup {NoConn} /\ (~m.initialized => m.sock = NoConn)
    <3>1. PICK m : m = [mutex |-> t, initialized |-> TRUE, next |-> TRUE, sock |-> e]
      OBVIOUS
    <3>2. Connects /\ e \in Conns' \cup {NoConn} /\ e \in ConnNames
      <4>1. CASE e = NoConn
        BY <2>2, <4>1, SameConns DEF ConnNames
      <4>2. CASE e # NoConn
        <5>1. e = NewConn(Home[t], c.hook) /\ Connect(e) /\ c.hook \in Names
          BY <1>4, <2>2, <4>2 DEF Sockets, Names
        <5> QED
          BY <1>3, <5>1, Connecting
      <4> QED
        BY <4>1, <4>2
    <3>3. m \in Library /\ m.mutex = t /\ m.sock = e /\ m.initialized
      BY <3>1, <3>2 DEF Library
    <3>4. lib' = [lib EXCEPT ![Home[t]][c.hook] = m]
      BY <1>1, <2>2, <3>1 DEF SetLib
    <3> QED
      BY <3>2, <3>3, <3>4
  <2>3. \/ l.initialized /\ SetLib(t, [l EXCEPT !.mutex = t]) /\ UNCHANGED wire
        \/ \E e \in Sockets(Home[t], c.hook) :
             /\ IF e = NoConn THEN UNCHANGED wire ELSE Connect(e)
             /\ SetLib(t, [mutex |-> t, initialized |-> TRUE, next |-> TRUE, sock |-> e])
    BY <1>1, <1>6 DEF Lock
  <2> QED
    BY <2>1, <2>2, <2>3
<1>9. PICK n : Restacks(t, n) /\ Adds(n, r, d)
  <2>1. "real" \in Labels /\ "real" \notin Fields \cup {"done"}
    BY DEF Labels, Fields
  <2> QED
    BY <1>1, <1>2, <1>4, <1>7, <1>8, <2>1, Going
<1>10. Owned(n) = Owned(stack[t]) \cup {c.hook}
  BY <1>3, <1>4, <1>9 DEF Adds
<1> QED
  <2>1. PICK h \in Hooks : h = c.hook
    BY <1>4
  <2>2. lib' = [lib EXCEPT ![Home[t]][h] = m] /\ lib[Home[t]][h].mutex = None
    BY <1>5, <1>6, <1>8, <2>1
  <2>3. Owned(n) = Owned(stack[t]) \cup {h}
    BY <1>10, <2>1
  <2>4. m \in Library /\ Connects /\ m.mutex = t /\ Runs(t) /\ Restacks(t, n)
    BY <1>2, <1>8, <1>9
  <2>5. m.sock \in Conns' \cup {NoConn} /\ (~m.initialized => m.sock = NoConn)
    BY <1>8
  <2> QED
    BY <1>7, <2>2, <2>3, <2>4, <2>5, Acquiring

LEMMA RealCallStep ==
  ASSUME CallInv, NEW t \in Threads, RealCall(t)
  PROVE  CallInv'
<1>0. TypeOK /\ StackInv /\ Locked
  BY DEF CallInv
<1>1. PICK c, r : c = Top(t) /\ r = Tail(stack[t])
  OBVIOUS
<1>2. /\ stack[t] # <<>> /\ c.op = "call" /\ c.at = "real"
      /\ Runs(t) /\ lib' = lib /\ wire' = wire
  BY <1>1 DEF RealCall, In
<1>3. /\ c \in Calls /\ Form(c) /\ Owned(stack[t]) = Owned(r) \cup (IF Owns(c) THEN {c.hook} ELSE {})
      /\ Home[t] \in Procs
  BY <1>0, <1>1, <1>2, TopOf
<1>4. PICK at : /\ at \in {"EVENT", "unlock"} /\ Goto(t, at)
                /\ at = "EVENT" => Lib(t).sock # NoConn
  BY DEF RealCall
<1>5. PICK d : d = Placed(c, at)
  OBVIOUS
<1>6. /\ Form(d) /\ Owns(d) /\ Owns(c) /\ d.hook = c.hook /\ ~Finalizes(d) /\ c.hook \in Hooks
  BY <1>2, <1>3, <1>4, <1>5 DEF Form, Owns, Placed, Fields, Finalizes
<1>7. Connects
  BY <1>2, SameConns
<1>8. Onward
  <2>1. effects' \in [Procs -> [Hooks -> Seq(Events \X ConnNames)]]
    <3>1. PICK x : x = <<c.ev, lib[Home[t]][c.hook].sock>>
      OBVIOUS
    <3>2. x \in Events \X ConnNames
      BY <1>0, <1>3, <1>6, <3>1 DEF TypeOK, Library, Calls
    <3>3. Append(effects[Home[t]][c.hook], x) \in Seq(Events \X ConnNames)
      BY <1>0, <1>3, <1>6, <3>2 DEF TypeOK
    <3>4. effects' = [effects EXCEPT ![Home[t]][c.hook] = Append(effects[Home[t]][c.hook], x)]
      BY <1>0, <1>1, <1>3, <1>6, <3>1 DEF RealCall, Lib, TypeOK
    <3> QED
      BY <1>0, <3>3, <3>4 DEF TypeOK
  <2> QED
    BY <1>0, <1>4, <2>1 DEF Onward, RealCall, Goto, TypeOK
<1>9. PICK n : Restacks(t, n) /\ Adds(n, r, d)
  <2>1. at \in Labels /\ (at \in Fields \cup {"done"} =>
            IF c.op = "report" THEN c.conn # NoConn
            ELSE lib'[Home[t]][c.hook].sock # NoConn)
    BY <1>1, <1>2, <1>4 DEF Labels, Fields, Lib
  <2> QED
    BY <1>1, <1>2, <1>4, <1>5, <1>6, <1>7, <1>8, <2>1, Going
<1>10. Owned(n) = Owned(stack[t])
  BY <1>3, <1>6, <1>9 DEF Adds
<1> QED
  BY <1>2, <1>7, <1>8, <1>9, <1>10, QuietStep

\* A call about to send has a socket to send on.
LEMMA HasSocket ==
  ASSUME CallInv, NEW t \in Threads, stack[t] # <<>>, Top(t).at \in Fields \cup {"done"},
         Top(t).op \in {"call", "cleanup"}
  PROVE  /\ Lib(t).sock \in Conns /\ Lib(t).sock # NoConn
         /\ Top(t).ev \in Events /\ Top(t).hook \in Hooks /\ Home[t] \in Procs
<1>0. TypeOK /\ StackInv
  BY DEF CallInv
<1>1. PICK c : c = Top(t)
  OBVIOUS
<1>2. PICK r : r = Tail(stack[t])
  OBVIOUS
<1>3. c \in Calls /\ Form(c) /\ Home[t] \in Procs
  BY <1>0, <1>1, <1>2, TopOf
<1>4. c.ev \in Events /\ c.hook \in Hooks
  BY <1>1, <1>3 DEF Calls, Form
<1>5. Lib(t).sock # NoConn
  BY <1>0 DEF TypeOK
<1> QED
  BY <1>0, <1>1, <1>3, <1>4, <1>5 DEF TypeOK, Lib

LEMMA WriteFieldStep ==
  ASSUME CallInv, NEW t \in Threads, NEW k \in Fields, WriteField(t, k)
  PROVE  CallInv'
<1>0. TypeOK /\ StackInv /\ Locked
  BY DEF CallInv
<1>1. PICK c, r, d, at : c = Top(t) /\ r = Tail(stack[t]) /\ d = Placed(c, at) /\ at = After(k)
  OBVIOUS
<1>2. /\ stack[t] # <<>> /\ c.op = "call" /\ c.at = k /\ Goto(t, at)
      /\ Runs(t) /\ lib' = lib /\ Write(Lib(t).sock, Item(c.ev, k))
  BY <1>1 DEF WriteField, In
<1>3. /\ Form(c) /\ Owned(stack[t]) = Owned(r) \cup (IF Owns(c) THEN {c.hook} ELSE {})
  BY <1>0, <1>1, <1>2, TopOf
<1>4. at \in {"TYPE", "BODY", "unlock"}
  BY <1>1 DEF Fields, After
<1>5. /\ Lib(t).sock \in Conns /\ Lib(t).sock # NoConn /\ c.ev \in Events
  BY <1>1, <1>2, HasSocket
<1>6. /\ Form(d) /\ Owns(d) /\ Owns(c) /\ d.hook = c.hook /\ ~Finalizes(d) /\ c.hook \in Hooks
  BY <1>1, <1>2, <1>3, <1>4 DEF Form, Owns, Placed, Fields, Finalizes
<1>7. Connects
  <2>1. PICK s \in Conns : s = Lib(t).sock
    BY <1>5
  <2> QED
    BY <1>2, <1>5, <2>1, Writing
<1>8. Onward
  BY <1>0 DEF Onward, WriteField, Goto, TypeOK
<1>9. PICK n : Restacks(t, n) /\ Adds(n, r, d)
  <2>1. at \in Labels /\ (at \in Fields \cup {"done"} =>
            IF c.op = "report" THEN c.conn # NoConn
            ELSE lib'[Home[t]][c.hook].sock # NoConn)
    BY <1>1, <1>2, <1>4, <1>5 DEF Labels, Fields, Lib
  <2>2. c.at = "check" => ~voyeur_close_finalized[Home[t]]
    BY <1>2 DEF Fields
  <2> QED
    BY <1>1, <1>2, <1>6, <1>7, <1>8, <2>1, <2>2, Going
<1>10. Owned(n) = Owned(stack[t])
  BY <1>3, <1>6, <1>9 DEF Adds
<1> QED
  BY <1>2, <1>7, <1>8, <1>9, <1>10, QuietStep

\* What both Unlock and CleanupReset do.
LEMMA Releasing ==
  ASSUME CallInv, NEW t \in Threads, stack[t] # <<>>, NEW c, c = Top(t), Owns(c), c.hook \in Hooks,
         Runs(t), Return(t), Onward, wire' = wire, NEW m \in Library, SetLib(t, m),
         m.mutex = None, m.sock \in Conns \cup {NoConn}, ~m.initialized => m.sock = NoConn
  PROVE  CallInv'
<1>0. Locked /\ Connects
  BY SameConns DEF CallInv
<1>1. PICK n, h : n = Tail(stack[t]) /\ h = c.hook /\ h \in Hooks
  OBVIOUS
<1>2. Restacks(t, n)
  BY <1>0, <1>1, Returning
<1>3. Owned(n) = Owned(stack[t]) \ {h} /\ Owned(stack[t]) = Owned(n) \cup {h}
  BY <1>1, OnceOwned
<1>4. lib[Home[t]][h].mutex = t
  <2>1. h \in Owned(stack[t])
    BY <1>3
  <2> QED
    BY <1>0, <1>1, <2>1 DEF Locked
<1>5. lib' = [lib EXCEPT ![Home[t]][h] = m] /\ m.sock \in Conns' \cup {NoConn}
  BY <1>0, <1>1 DEF SetLib, Conns
<1> QED
  BY <1>0, <1>1, <1>2, <1>3, <1>4, <1>5, MutexStep

LEMMA UnlockStep ==
  ASSUME CallInv, NEW t \in Threads, Unlock(t)
  PROVE  CallInv'
<1>0. TypeOK /\ StackInv /\ LibInv
  BY DEF CallInv
<1>1. PICK c, r, l, m : /\ c = Top(t) /\ r = Tail(stack[t]) /\ l = Lib(t)
                        /\ m = [l EXCEPT !.mutex = None]
  OBVIOUS
<1>2. /\ stack[t] # <<>> /\ c.op = "call" /\ c.at = "unlock" /\ Return(t)
      /\ Runs(t) /\ SetLib(t, m) /\ wire' = wire
  BY <1>1 DEF Unlock, In
<1>3. Form(c) /\ Home[t] \in Procs
  BY <1>0, <1>1, <1>2, TopOf
<1>4. Owns(c) /\ c.hook \in Hooks
  BY <1>2, <1>3 DEF Form, Owns
<1>5. /\ l \in Library /\ l.sock \in Conns \cup {NoConn}
      /\ ~l.initialized => l.sock = NoConn
  BY <1>0, <1>1, <1>3, <1>4 DEF TypeOK, Lib, LibInv, LibState
<1>6. m \in Library /\ m.mutex = None /\ m.sock = l.sock /\ m.initialized = l.initialized
  BY <1>1, <1>5 DEF Library
<1>7. Onward
  BY <1>0 DEF Onward, Unlock, Return, TypeOK
<1> QED
  BY <1>1, <1>2, <1>4, <1>5, <1>6, <1>7, Releasing

LEMMA CleanupResetStep ==
  ASSUME CallInv, NEW t \in Threads, CleanupReset(t)
  PROVE  CallInv'
<1>0. TypeOK /\ StackInv
  BY DEF CallInv
<1>1. PICK c, r, l, m : /\ c = Top(t) /\ r = Tail(stack[t]) /\ l = Lib(t)
                        /\ m = [l EXCEPT !.mutex = None, !.initialized = FALSE, !.sock = NoConn]
  OBVIOUS
<1>2. /\ stack[t] # <<>> /\ c.op = "cleanup" /\ c.at = "reset" /\ Return(t)
      /\ Runs(t) /\ SetLib(t, m) /\ wire' = wire
  BY <1>1 DEF CleanupReset, In
<1>3. Form(c) /\ Home[t] \in Procs
  BY <1>0, <1>1, <1>2, TopOf
<1>4. Owns(c) /\ c.hook \in Hooks
  BY <1>2, <1>3 DEF Form, Owns
<1>5. l \in Library
  BY <1>0, <1>1, <1>3, <1>4 DEF TypeOK, Lib
<1>6. m \in Library /\ m.mutex = None /\ m.sock = NoConn
  BY <1>1, <1>5 DEF Library, ConnNames
<1>7. Onward
  BY <1>0 DEF Onward, CleanupReset, Return, TypeOK
<1> QED
  BY <1>1, <1>2, <1>4, <1>6, <1>7, Releasing

LEMMA CleanupLockStep ==
  ASSUME CallInv, NEW t \in Threads, CleanupLock(t)
  PROVE  CallInv'
<1>0. TypeOK /\ StackInv /\ LibInv
  BY DEF CallInv
<1>1. PICK c, r, l, m : /\ c = Top(t) /\ r = Tail(stack[t]) /\ l = Lib(t)
                        /\ m = [l EXCEPT !.mutex = t]
  OBVIOUS
<1>2. /\ stack[t] # <<>> /\ c.op = "cleanup" /\ c.at = "lock"
      /\ Runs(t) /\ SetLib(t, m) /\ wire' = wire /\ l.mutex = None
      /\ voyeur_close_finalized' =
           [voyeur_close_finalized EXCEPT ![Home[t]] = @ \/ c.hook = "close"]
  BY <1>1 DEF CleanupLock, In
<1>3. /\ Form(c) /\ Owned(stack[t]) = Owned(r) \cup (IF Owns(c) THEN {c.hook} ELSE {})
      /\ Home[t] \in Procs
  BY <1>0, <1>1, <1>2, TopOf
<1>4. PICK at : /\ at \in {"done", "reset"} /\ Goto(t, at)
                /\ at = "done" => l.sock # NoConn
  BY <1>1 DEF CleanupLock
<1>5. PICK d : d = Placed(c, at)
  OBVIOUS
<1>6. /\ Form(d) /\ Owns(d) /\ ~Owns(c) /\ d.hook = c.hook /\ d.op = "cleanup" /\ c.hook \in Hooks
  BY <1>2, <1>3, <1>4, <1>5 DEF Form, Owns, Placed
<1>7. /\ l \in Library /\ l.sock \in Conns \cup {NoConn} /\ l = lib[Home[t]][c.hook]
      /\ ~l.initialized => l.sock = NoConn
  BY <1>0, <1>1, <1>3, <1>6 DEF TypeOK, Lib, LibInv, LibState
<1>8. m \in Library /\ m.mutex = t /\ m.sock = l.sock /\ m.initialized = l.initialized
  BY <1>1, <1>7 DEF Library
<1>9. Connects /\ Conns' = Conns
  BY <1>2, SameConns DEF Conns
<1>10. /\ voyeur_close_finalized' \in [Procs -> BOOLEAN]
       /\ \A p \in Procs : voyeur_close_finalized[p] => voyeur_close_finalized'[p]
       /\ c.hook = "close" => voyeur_close_finalized'[Home[t]]
  <2>1. voyeur_close_finalized \in [Procs -> BOOLEAN]
    BY <1>0 DEF TypeOK
  <2> QED
    BY <1>2, <1>3, <2>1
<1>11. Onward
  BY <1>0, <1>4, <1>10 DEF Onward, CleanupLock, Goto, TypeOK
<1>12. lib' = [lib EXCEPT ![Home[t]][c.hook] = m] /\ lib'[Home[t]][c.hook] = m
  BY <1>0, <1>1, <1>2, <1>3, <1>6 DEF SetLib, TypeOK
<1>13. PICK n : Restacks(t, n) /\ Adds(n, r, d)
  <2>1. at \in Labels /\ (at \in Fields \cup {"done"} =>
            IF c.op = "report" THEN c.conn # NoConn
            ELSE lib'[Home[t]][c.hook].sock # NoConn)
    BY <1>2, <1>4, <1>8, <1>12 DEF Labels, Fields
  <2>2. Finalizes(d) => voyeur_close_finalized'[Home[t]]
    BY <1>6, <1>10 DEF Finalizes
  <2>3. c.at # "check"
    BY <1>2
  <2> QED
    BY <1>1, <1>2, <1>4, <1>5, <1>6, <1>9, <1>11, <2>1, <2>2, <2>3, Going
<1>14. Owned(n) = Owned(stack[t]) \cup {c.hook}
  BY <1>3, <1>6, <1>13 DEF Adds
<1> QED
  <2>1. PICK h \in Hooks : h = c.hook
    BY <1>6
  <2>2. lib' = [lib EXCEPT ![Home[t]][h] = m] /\ lib[Home[t]][h].mutex = None
    BY <1>2, <1>7, <1>12, <2>1
  <2>3. m.sock \in Conns' \cup {NoConn} /\ (~m.initialized => m.sock = NoConn)
    BY <1>7, <1>8, <1>9
  <2>4. Owned(n) = Owned(stack[t]) \cup {h}
    BY <1>14, <2>1
  <2> QED
    BY <1>2, <1>8, <1>9, <1>11, <1>13, <2>2, <2>3, <2>4, Acquiring

LEMMA CleanupDoneStep ==
  ASSUME CallInv, NEW t \in Threads, CleanupDone(t)
  PROVE  CallInv'
<1>0. TypeOK /\ StackInv /\ Locked
  BY DEF CallInv
<1>1. PICK c, r, d : c = Top(t) /\ r = Tail(stack[t]) /\ d = Placed(c, "close")
  OBVIOUS
<1>2. /\ stack[t] # <<>> /\ c.op = "cleanup" /\ c.at = "done" /\ Goto(t, "close")
      /\ Runs(t) /\ lib' = lib /\ Write(Lib(t).sock, Item(c.ev, "DONE"))
  BY <1>1 DEF CleanupDone, In
<1>3. /\ Form(c) /\ Owned(stack[t]) = Owned(r) \cup (IF Owns(c) THEN {c.hook} ELSE {})
      /\ CallsIn(stack[t]) = {c} \cup CallsIn(r) /\ Home[t] \in Procs
  BY <1>0, <1>1, <1>2, TopOf
<1>5. /\ Lib(t).sock \in Conns /\ Lib(t).sock # NoConn /\ c.ev \in Events
  BY <1>1, <1>2, HasSocket
<1>6. /\ Form(d) /\ Owns(d) /\ Owns(c) /\ d.hook = c.hook /\ c.hook \in Hooks
      /\ Finalizes(d) => Finalizes(c)
  BY <1>1, <1>2, <1>3 DEF Form, Owns, Placed, Fields, Finalizes
<1>7. Connects
  <2>1. PICK s \in Conns : s = Lib(t).sock
    BY <1>5
  <2> QED
    BY <1>2, <1>5, <2>1, Writing
<1>8. Onward
  BY <1>0 DEF Onward, CleanupDone, Goto, TypeOK
<1>11. Finalizes(d) => voyeur_close_finalized'[Home[t]]
  BY <1>0, <1>3, <1>6, <1>8 DEF Onward, Locked
<1>9. PICK n : Restacks(t, n) /\ Adds(n, r, d)
  <2>1. "close" \in Labels /\ "close" \notin Fields \cup {"done"}
    BY DEF Labels, Fields
  <2> QED
    BY <1>1, <1>2, <1>6, <1>7, <1>8, <1>11, <2>1, Going
<1>10. Owned(n) = Owned(stack[t])
  BY <1>3, <1>6, <1>9 DEF Adds
<1> QED
  BY <1>2, <1>7, <1>8, <1>9, <1>10, QuietStep

\* voyeur_close_socket(): a call of the interposed close(), if there is one.
LEMMA Closing ==
  ASSUME CallInv, NEW t \in Threads, NEW q \in Seq(Calls), CloseSocket(t, q),
         Connects, Onward, Shape(q),
         q # <<>> => /\ Head(q).at \notin Fields \cup {"done"}
                     /\ \/ Head(q).op \in {"exit", "exec"}
                        \/ Head(q).op = "cleanup" /\ Head(q).at = "reset",
         \A c \in CallsIn(q) : /\ c.conn \in Conns \cup {NoConn}
                               /\ Finalizes(c) => voyeur_close_finalized[Home[t]]
  PROVE  \E n : Restacks(t, n) /\ Owned(n) = Owned(q)
<1>1. CASE "close" \in Hooks
  <2>1. PICK d : d = Call("call", "close", Entry("close"), NewEvent(t))
    OBVIOUS
  <2>2. Entry("close") = "check"
    BY DEF Entry
  <2>3. /\ d \in Calls /\ d.op = "call" /\ d.hook = "close" /\ d.at = "check" /\ d.conn = NoConn
    BY <1>1, <2>1, <2>2, NewCall DEF Ops, Names, Labels
  <2>4. Form(d) /\ ~Owns(d) /\ d.at \notin Fields \cup {"done"}
    BY <1>1, <2>3 DEF Form, Owns, Fields
  <2>5. q # <<>> => Within(Head(q), d)
    BY <2>3 DEF Within
  <2>6. Enter(t, d, q)
    BY <1>1, <2>1 DEF CloseSocket
  <2> QED
    BY <2>3, <2>4, <2>5, <2>6, Entering
<1>2. CASE "close" \notin Hooks
  <2>1. stack' = [stack EXCEPT ![t] = q] /\ Home[t] \in Procs
    BY <1>2, InterposerAssumption DEF CloseSocket
  <2>2. \A c \in CallsIn(q) : /\ c.conn \in Conns' \cup {NoConn}
                              /\ Finalizes(c) => voyeur_close_finalized'[Home[t]]
    BY <2>1 DEF Connects, Onward
  <2>3. Restacks(t, q)
    BY <2>1, <2>2 DEF Restacks
  <2> QED
    BY <2>3
<1> QED
  BY <1>1, <1>2

LEMMA CloseSteps ==
  ASSUME NEW t \in Threads, NEW q, CloseSocket(t, q), made \in [Threads -> Nat]
  PROVE  made' \in [Threads -> Nat]
<1>1. CASE UNCHANGED made
  BY <1>1
<1>2. CASE made' = [made EXCEPT ![t] = @ + 1]
  BY <1>2
<1> QED
  BY <1>1, <1>2 DEF CloseSocket, Enter

LEMMA CleanupCloseStep ==
  ASSUME CallInv, NEW t \in Threads, CleanupClose(t)
  PROVE  CallInv'
<1>0. TypeOK /\ StackInv /\ Locked
  BY DEF CallInv
<1>1. PICK c, r, d, q : /\ c = Top(t) /\ r = Tail(stack[t]) /\ d = Placed(c, "reset")
                        /\ q = <<d>> \o r
  OBVIOUS
<1>2. /\ stack[t] # <<>> /\ c.op = "cleanup" /\ c.at = "close" /\ Runs(t)
      /\ lib' = lib /\ wire' = wire
  BY <1>1 DEF CleanupClose, In
<1>3. /\ Form(c) /\ Owned(stack[t]) = Owned(r) \cup (IF Owns(c) THEN {c.hook} ELSE {})
      /\ c \in Calls /\ r \in Seq(Calls) /\ Shape(r)
      /\ r # <<>> => Within(Head(r), c)
      /\ CallsIn(stack[t]) = {c} \cup CallsIn(r) /\ Home[t] \in Procs
  BY <1>0, <1>1, <1>2, TopOf
<1>4. /\ d \in Calls /\ d.op = "cleanup" /\ d.at = "reset" /\ d.hook = c.hook /\ d.conn = c.conn
  BY <1>1, <1>2, <1>3 DEF Calls, Placed, Labels
<1>5. /\ Form(d) /\ Owns(d) /\ Owns(c) /\ (Finalizes(d) => Finalizes(c))
      /\ d.at \notin Fields \cup {"done"}
  BY <1>2, <1>3, <1>4 DEF Form, Owns, Fields, Finalizes
<1>6. r # <<>> => Within(Head(r), d)
  BY <1>2, <1>3, <1>4 DEF Within
<1>7. /\ q \in Seq(Calls) /\ q # <<>> /\ Head(q) = d
      /\ CallsIn(q) = {d} \cup CallsIn(r)
      /\ Shape(q)
  <2>1. Shape(q) <=> Shape(r) /\ Form(d) /\ (r # <<>> => Within(Head(r), d))
    BY <1>1, <1>3, <1>4, OnStack, ZenonT(40)
  <2>2. Shape(q)
    BY <1>3, <1>5, <1>6, <2>1
  <2>3. q \in Seq(Calls) /\ q # <<>> /\ Head(q) = d
    BY <1>1, <1>3, <1>4, OnStack
  <2>4. CallsIn(q) = {d} \cup CallsIn(r)
    BY <1>1, <1>3, <1>4, CallsOf
  <2> QED
    BY <2>2, <2>3, <2>4
<1>8. Owned(q) = Owned(stack[t])
  <2>1. Adds(q, r, d)
    BY <1>1, <1>3, <1>4, OwnedBy DEF Adds
  <2> QED
    BY <1>3, <1>4, <1>5, <2>1 DEF Adds
<1>9. CloseSocket(t, q)
  BY <1>1, <1>3, MovedPlaces DEF CleanupClose
<1>10. Connects
  BY <1>2, SameConns
<1>11. Onward
  <2>1. made' \in [Threads -> Nat]
    BY <1>0, <1>9, CloseSteps DEF TypeOK
  <2> QED
    BY <1>0, <2>1 DEF Onward, CleanupClose, TypeOK
<1>12. \A b \in CallsIn(q) : /\ b.conn \in Conns \cup {NoConn}
                             /\ Finalizes(b) => voyeur_close_finalized[Home[t]]
  BY <1>3, <1>4, <1>5, <1>7, Calling
<1>13. PICK n : Restacks(t, n) /\ Owned(n) = Owned(q)
  BY <1>4, <1>5, <1>7, <1>9, <1>10, <1>11, <1>12, Closing
<1> QED
  BY <1>2, <1>8, <1>10, <1>11, <1>13, QuietStep

\* What a report is inside of, if anything.
LEMMA ReportUnder ==
  ASSUME CallInv, NEW t \in Threads, stack[t] # <<>>, NEW c, c = Top(t), c.op = "report",
         NEW r, r = Tail(stack[t])
  PROVE  /\ Owned(r) = Owned(stack[t])
         /\ r # <<>> => /\ Head(r).at \notin Fields \cup {"done"}
                        /\ Head(r).op \in {"exit", "exec"}
         /\ r \in Seq(Calls) /\ Shape(r) /\ Home[t] \in Procs
         /\ \A b \in CallsIn(r) : /\ b.conn \in Conns \cup {NoConn}
                                  /\ Finalizes(b) => voyeur_close_finalized[Home[t]]
<1>0. TypeOK /\ StackInv
  BY DEF CallInv
<1>1. /\ Form(c) /\ Owned(stack[t]) = Owned(r) \cup (IF Owns(c) THEN {c.hook} ELSE {})
      /\ r \in Seq(Calls) /\ Shape(r)
      /\ r # <<>> => Within(Head(r), c)
      /\ CallsIn(stack[t]) = {c} \cup CallsIn(r) /\ Home[t] \in Procs
  BY <1>0, TopOf
<1>2. Owned(r) = Owned(stack[t])
  BY <1>1 DEF Owns
<1>3. ASSUME r # <<>>
      PROVE  Head(r).at \notin Fields \cup {"done"} /\ Head(r).op \in {"exit", "exec"}
  <2>1. PICK b : b = Head(r) /\ Form(b)
    <3>1. Head(r) = r[1] /\ 1 \in DOMAIN r
      BY <1>1, <1>3
    <3> QED
      BY <1>1, <3>1 DEF Shape
  <2>2. Within(b, c)
    BY <1>1, <1>3, <2>1
  <2>3. b.op \in {"exit", "exec"}
    BY <2>2 DEF Within
  <2>4. b.at \in {"fini", "end", "real"}
    BY <2>1, <2>3 DEF Form
  <2> QED
    BY <2>1, <2>3, <2>4 DEF Fields
<1>4. \A b \in CallsIn(r) : /\ b.conn \in Conns \cup {NoConn}
                            /\ Finalizes(b) => voyeur_close_finalized[Home[t]]
  BY <1>1, Calling
<1> QED
  BY <1>1, <1>2, <1>3, <1>4

LEMMA ReportCloseStep ==
  ASSUME CallInv, NEW t \in Threads, ReportClose(t)
  PROVE  CallInv'
<1>0. TypeOK
  BY DEF CallInv
<1>1. PICK c, r : c = Top(t) /\ r = Tail(stack[t])
  OBVIOUS
<1>2. /\ stack[t] # <<>> /\ c.op = "report" /\ Runs(t) /\ CloseSocket(t, r)
      /\ lib' = lib /\ wire' = wire
  BY <1>1 DEF ReportClose, In
<1>3. /\ Owned(r) = Owned(stack[t])
      /\ r # <<>> => /\ Head(r).at \notin Fields \cup {"done"}
                     /\ Head(r).op \in {"exit", "exec"}
      /\ r \in Seq(Calls) /\ Shape(r)
      /\ \A b \in CallsIn(r) : /\ b.conn \in Conns \cup {NoConn}
                               /\ Finalizes(b) => voyeur_close_finalized[Home[t]]
  BY <1>1, <1>2, ReportUnder
<1>4. Connects
  BY <1>2, SameConns
<1>5. Onward
  <2>1. made' \in [Threads -> Nat]
    BY <1>0, <1>2, CloseSteps DEF TypeOK
  <2> QED
    BY <1>0, <2>1 DEF Onward, ReportClose, TypeOK
<1>6. PICK n : Restacks(t, n) /\ Owned(n) = Owned(r)
  BY <1>2, <1>3, <1>4, <1>5, Closing
<1> QED
  BY <1>2, <1>3, <1>4, <1>5, <1>6, QuietStep

LEMMA ExitReportTestStep ==
  ASSUME CallInv, NEW t \in Threads, ExitReportTest(t)
  PROVE  CallInv'
<1>0. TypeOK /\ StackInv
  BY DEF CallInv
<1>1. PICK c, r, d : c = Top(t) /\ r = Tail(stack[t]) /\ d = Placed(c, "connect")
  OBVIOUS
<1>2. /\ stack[t] # <<>> /\ c.op = "report" /\ c.at = "test" /\ Runs(t)
      /\ lib' = lib /\ wire' = wire /\ (Return(t) \/ Goto(t, "connect"))
  BY <1>1 DEF ExitReportTest, In
<1>3. Owned(r) = Owned(stack[t])
  BY <1>1, <1>2, ReportUnder
<1>4. Connects
  BY <1>2, SameConns
<1>5. Onward
  <2>1. made' = made
    BY <1>2 DEF Return, Goto
  <2> QED
    BY <1>0, <2>1 DEF Onward, ExitReportTest, TypeOK
<1>6. CASE Return(t)
  BY <1>1, <1>2, <1>3, <1>4, <1>5, <1>6, Returning, QuietStep
<1>7. CASE Goto(t, "connect")
  <2>1. Form(c)
    BY <1>0, <1>1, <1>2, TopOf
  <2>2. Form(d) /\ ~Owns(d) /\ ~Finalizes(d)
    BY <1>1, <1>2, <2>1 DEF Form, Owns, Placed, Finalizes
  <2>3. "connect" \in Labels /\ "connect" \notin Fields \cup {"done"}
    BY DEF Labels, Fields
  <2>4. PICK n : Restacks(t, n) /\ Adds(n, r, d)
    BY <1>1, <1>2, <1>4, <1>5, <1>7, <2>2, <2>3, Going
  <2>5. Owned(n) = Owned(stack[t])
    BY <1>3, <2>2, <2>4 DEF Adds
  <2> QED
    BY <1>2, <1>4, <1>5, <2>4, <2>5, QuietStep
<1> QED
  BY <1>2, <1>6, <1>7

LEMMA ReportConnectStep ==
  ASSUME CallInv, NEW t \in Threads, ReportConnect(t)
  PROVE  CallInv'
<1>0. TypeOK /\ StackInv
  BY DEF CallInv
<1>1. PICK c, r : c = Top(t) /\ r = Tail(stack[t])
  OBVIOUS
<1>2. /\ stack[t] # <<>> /\ c.op = "report" /\ c.at = "connect" /\ Runs(t)
      /\ lib' = lib
  BY <1>1 DEF ReportConnect, In
<1>3. /\ Owned(r) = Owned(stack[t]) /\ r \in Seq(Calls) /\ Shape(r)
      /\ \A b \in CallsIn(r) : /\ b.conn \in Conns \cup {NoConn}
                               /\ Finalizes(b) => voyeur_close_finalized[Home[t]]
  BY <1>1, <1>2, ReportUnder
<1>4. /\ c \in Calls /\ Form(c) /\ Home[t] \in Procs
      /\ r # <<>> => Within(Head(r), c)
  BY <1>0, <1>1, <1>2, TopOf
<1>5. Onward
  <2>1. did_exit_already' \in [Procs -> BOOLEAN]
    BY <1>0, <1>4 DEF ReportConnect, TypeOK
  <2> QED
    BY <1>0, <2>1 DEF Onward, ReportConnect, TypeOK
<1>6. PICK e \in Sockets(Home[t], c.hook), at \in {"EVENT", "done"} :
         /\ IF e = NoConn THEN UNCHANGED wire ELSE Connect(e)
         /\ stack' = [stack EXCEPT ![t] =
                        IF e = NoConn THEN r
                        ELSE <<[c EXCEPT !.at = at, !.conn = e]>> \o r]
  BY <1>1 DEF ReportConnect
<1>7. CASE e = NoConn
  <2>1. Connects /\ Return(t)
    BY <1>1, <1>6, <1>7, SameConns DEF Return, ReportConnect
  <2> QED
    BY <1>1, <1>2, <1>3, <1>5, <2>1, Returning, QuietStep
<1>8. CASE e # NoConn
  <2>1. e = NewConn(Home[t], c.hook) /\ Connect(e) /\ c.hook \in Names
    BY <1>4, <1>6, <1>8 DEF Sockets, Calls
  <2>2. Connects /\ e \in Conns' /\ e \in ConnNames
    BY <1>4, <2>1, Connecting
  <2>3. PICK d : d = [c EXCEPT !.at = at, !.conn = e]
    OBVIOUS
  <2>4. /\ d \in Calls /\ d.op = "report" /\ d.hook = c.hook /\ d.at = at /\ d.conn = e
    BY <1>2, <1>4, <1>6, <2>2, <2>3 DEF Calls, Labels, Fields
  <2>5. Form(d) /\ ~Owns(d) /\ ~Finalizes(d)
    BY <1>2, <1>4, <1>8, <2>4 DEF Form, Owns, Finalizes, Fields
  <2>6. r # <<>> => Within(Head(r), d)
    BY <1>2, <1>4, <2>4 DEF Within
  <2>7. PICK n : n = <<d>> \o r
    OBVIOUS
  <2>8. stack' = [stack EXCEPT ![t] = n]
    BY <1>6, <1>8, <2>3, <2>7
  <2>9. \A b \in CallsIn(r) : /\ b.conn \in Conns' \cup {NoConn}
                              /\ Finalizes(b) => voyeur_close_finalized'[Home[t]]
    BY <1>3, <1>4, <1>5, <2>2 DEF Connects, Onward
  <2>10. d.at \in Fields \cup {"done"} =>
            IF d.op = "report" THEN d.conn # NoConn
            ELSE lib'[Home[t]][d.hook].sock # NoConn
    BY <1>8, <2>4
  <2>11. d.conn \in Conns' \cup {NoConn}
    BY <2>2, <2>4
  <2>12. Restacks(t, n)
    BY <1>3, <2>4, <2>5, <2>6, <2>7, <2>8, <2>9, <2>10, <2>11, Stacks
  <2>13. Owned(n) = Owned(stack[t])
    <3>1. Adds(n, r, d)
      BY <1>3, <2>4, <2>7, OwnedBy DEF Adds
    <3> QED
      BY <1>3, <2>5, <3>1 DEF Adds
  <2> QED
    BY <1>2, <1>5, <2>2, <2>12, <2>13, QuietStep
<1> QED
  BY <1>7, <1>8

\* ReportField and ReportDone send on the report's own connection.
LEMMA ReportSends ==
  ASSUME CallInv, NEW t \in Threads, NEW k \in Fields \cup {"DONE"}, NEW at \in Labels,
         In(t, "report", IF k = "DONE" THEN "done" ELSE k), Write(Top(t).conn, Item(Top(t).ev, k)),
         at \in Fields \cup {"done", "close"}, Goto(t, at),
         UNCHANGED <<processVars, lib, effects>>
  PROVE  CallInv'
<1>0. TypeOK /\ StackInv
  BY DEF CallInv
<1>1. PICK c, r, d : c = Top(t) /\ r = Tail(stack[t]) /\ d = Placed(c, at)
  OBVIOUS
<1>2. /\ stack[t] # <<>> /\ c.op = "report" /\ Runs(t)
      /\ c.at = IF k = "DONE" THEN "done" ELSE k
  BY <1>1 DEF In
<1>3. Owned(r) = Owned(stack[t])
  BY <1>1, <1>2, ReportUnder
<1>4. c \in Calls /\ Form(c)
  BY <1>0, <1>1, <1>2, TopOf
<1>5. c.conn # NoConn
  BY <1>2, <1>4 DEF Form, Fields
<1>6. c.conn \in Conns
  <2>1. CallsIn(stack[t]) = {c} \cup CallsIn(r)
    BY <1>0, <1>1, <1>2, TopOf
  <2>2. c \in CallsIn(stack[t])
    BY <2>1
  <2> QED
    BY <1>5, <2>2, Calling
<1>7. Connects
  <2>1. PICK s \in Conns, e \in Events : s = c.conn /\ e = c.ev
    BY <1>4, <1>6 DEF Calls
  <2> QED
    BY <1>1, <2>1, Writing
<1>8. Onward
  BY <1>0 DEF Onward, Goto, TypeOK
<1>9. Form(d) /\ ~Owns(d) /\ ~Finalizes(d)
  BY <1>1, <1>2, <1>4, <1>5 DEF Form, Owns, Placed, Finalizes, Fields
<1>10. PICK n : Restacks(t, n) /\ Adds(n, r, d)
  <2>1. c.at # "check"
    BY <1>2 DEF Fields
  <2> QED
    BY <1>1, <1>2, <1>5, <1>7, <1>8, <1>9, <2>1, Going
<1>11. Owned(n) = Owned(stack[t])
  BY <1>3, <1>9, <1>10 DEF Adds
<1> QED
  BY <1>2, <1>7, <1>8, <1>10, <1>11, QuietStep

LEMMA ReportFieldStep ==
  ASSUME CallInv, NEW t \in Threads, NEW k \in Fields, ReportField(t, k)
  PROVE  CallInv'
<1>1. PICK at : at = IF k = "BODY" THEN "done" ELSE After(k)
  OBVIOUS
<1>2. at \in Labels /\ at \in Fields \cup {"done", "close"}
  BY <1>1 DEF After, Fields, Labels
<1>3. Goto(t, at) /\ k # "DONE"
  BY <1>1 DEF ReportField, Fields
<1> QED
  BY <1>2, <1>3, ReportSends DEF ReportField

LEMMA ReportDoneStep ==
  ASSUME CallInv, NEW t \in Threads, ReportDone(t)
  PROVE  CallInv'
<1>1. PICK k : k = "DONE"
  OBVIOUS
<1>2. "close" \in Labels
  BY DEF Labels
<1> QED
  BY <1>1, <1>2, ReportSends DEF ReportDone

LEMMA OneCallStack ==
  ASSUME NEW d \in Calls, Form(d), ~Owns(d)
  PROVE  /\ <<d>> \in Seq(Calls) /\ <<d>> # <<>> /\ Head(<<d>>) = d
         /\ CallsIn(<<d>>) = {d} /\ Owned(<<d>>) = {} /\ Shape(<<d>>)
<1>1. /\ <<>> \in Seq(Calls) /\ <<d>> = <<d>> \o <<>>
      /\ CallsIn(<<>>) = {} /\ Owned(<<>>) = {} /\ Shape(<<>>)
  BY DEF CallsIn, Owned, Shape
<1>2. PICK r \in Seq(Calls) : r = <<>>
  BY <1>1
<1>3. PICK s : s = <<d>> \o r
  OBVIOUS
<1>4. /\ s \in Seq(Calls) /\ s # <<>> /\ Head(s) = d
      /\ Shape(s) <=> Shape(r) /\ Form(d) /\ (r # <<>> => Within(Head(r), d))
  BY <1>3, OnStack
<1>5. CallsIn(s) = {d} \cup CallsIn(r)
  BY <1>3, CallsOf
<1>6. Adds(s, r, d)
  BY <1>3, OwnedBy DEF Adds
<1>7. CallsIn(s) = {d} /\ Owned(s) = {} /\ Shape(s)
  BY <1>1, <1>2, <1>4, <1>5, <1>6 DEF Adds
<1> QED
  BY <1>1, <1>2, <1>3, <1>4, <1>7

LEMMA IdleStack ==
  ASSUME NEW t \in Threads, Idle(t)
  PROVE  Runs(t) /\ stack[t] = <<>> /\ Owned(stack[t]) = {}
BY DEF Idle, Owned, CallsIn

\* A report and what goes on after it.
LEMMA EnterReport ==
  ASSUME CallInv, NEW t \in Threads, Idle(t), NEW d \in Calls, NEW e \in Calls,
         Enter(t, d, <<e>>), UNCHANGED <<processVars, lib, wire, effects>>,
         d.op = "report", Form(d), d.at \in {"test", "connect"}, d.conn = NoConn,
         e.op \in {"exit", "exec"}, Form(e), e.conn = NoConn
  PROVE  CallInv'
<1>0. TypeOK /\ Runs(t) /\ Owned(stack[t]) = {}
  BY IdleStack DEF CallInv
<1>1. ~Owns(d) /\ ~Owns(e) /\ d.at \notin Fields \cup {"done"} /\ ~Finalizes(e)
  BY DEF Owns, Fields, Finalizes
<1>2. PICK q : q = <<e>>
  OBVIOUS
<1>3. /\ q \in Seq(Calls) /\ q # <<>> /\ Head(q) = e
      /\ CallsIn(q) = {e} /\ Owned(q) = {} /\ Shape(q)
  BY <1>1, <1>2, OneCallStack
<1>4. Within(Head(q), d)
  BY <1>3 DEF Within
<1>5. Connects
  BY SameConns
<1>6. Onward
  <2>1. made' \in [Threads -> Nat]
    BY <1>0 DEF Enter, TypeOK
  <2> QED
    BY <1>0, <2>1 DEF Onward, TypeOK
<1>7. PICK n : Restacks(t, n) /\ Owned(n) = Owned(q)
  BY <1>1, <1>2, <1>3, <1>4, <1>5, <1>6, Entering
<1> QED
  BY <1>0, <1>3, <1>5, <1>6, <1>7, QuietStep

LEMMA ExitStep ==
  ASSUME CallInv, NEW t \in Threads, NEW how \in {"exit", "_exit", "return"}, Exit(t, how)
  PROVE  CallInv'
<1>0. TypeOK
  BY DEF CallInv
<1>1. PICK end, report :
        /\ end = Call("exit", how, IF how = "_exit" THEN "end" ELSE "fini", NewEvent(t))
        /\ report = Call("report", "exit", "test", NewEvent(t))
  OBVIOUS
<1>2. /\ end \in Calls /\ end.op = "exit" /\ end.hook = how /\ end.conn = NoConn
      /\ end.at = IF how = "_exit" THEN "end" ELSE "fini"
  <2>1. PICK at \in {"end", "fini"} : at = IF how = "_exit" THEN "end" ELSE "fini"
    OBVIOUS
  <2>2. "exit" \in Ops /\ how \in Names /\ at \in Labels
    BY DEF Ops, Names, Labels
  <2>3. end = Call("exit", how, at, NewEvent(t))
    BY <1>1, <2>1
  <2> QED
    BY <2>1, <2>2, <2>3, NewCall
<1>3. /\ report \in Calls /\ report.op = "report" /\ report.hook = "exit"
      /\ report.conn = NoConn /\ report.at = "test"
  BY <1>1, NewCall DEF Ops, Names, Labels
<1>4. Form(end) /\ Form(report)
  BY <1>2, <1>3 DEF Form
<1>5. Idle(t) /\ UNCHANGED <<processVars, lib, wire, effects>>
      /\ (Enter(t, end, <<>>) \/ Enter(t, report, <<end>>))
  BY <1>1 DEF Exit
<1>6. CASE Enter(t, end, <<>>)
  <2>1. ~Owns(end) /\ end.at \notin Fields \cup {"done"}
    BY <1>2 DEF Owns, Fields
  <2>2. PICK q : q = <<>>
    OBVIOUS
  <2>3. q \in Seq(Calls) /\ CallsIn(q) = {} /\ Owned(q) = {} /\ Shape(q)
    BY <2>2 DEF CallsIn, Owned, Shape
  <2>4. Runs(t) /\ Owned(stack[t]) = {} /\ Connects
    BY <1>5, IdleStack, SameConns
  <2>5. Onward
    <3>1. made' \in [Threads -> Nat]
      BY <1>0, <1>6 DEF Enter, TypeOK
    <3> QED
      BY <1>0, <1>5, <3>1 DEF Onward, TypeOK
  <2>6. PICK n : Restacks(t, n) /\ Owned(n) = Owned(q)
    BY <1>2, <1>4, <1>6, <2>1, <2>2, <2>3, <2>4, <2>5, Entering
  <2> QED
    BY <1>5, <2>3, <2>4, <2>5, <2>6, QuietStep
<1>7. CASE Enter(t, report, <<end>>)
  BY <1>2, <1>3, <1>4, <1>5, <1>7, EnterReport
<1> QED
  BY <1>5, <1>6, <1>7

LEMMA ExecveStep ==
  ASSUME CallInv, NEW t \in Threads, Execve(t)
  PROVE  CallInv'
<1>1. PICK image, report :
        /\ image = Call("exec", "exec", "real", NewEvent(t))
        /\ report = Call("report", "exec", "connect", NewEvent(t))
  OBVIOUS
<1>2. /\ image \in Calls /\ image.op = "exec" /\ image.hook = "exec" /\ image.conn = NoConn
      /\ image.at = "real"
  <2>1. PICK op \in Ops, hook \in Names, at \in Labels : op = "exec" /\ hook = "exec" /\ at = "real"
    BY DEF Ops, Names, Labels
  <2> QED
    BY <1>1, <2>1, NewCall
<1>3. /\ report \in Calls /\ report.op = "report" /\ report.hook = "exec"
      /\ report.conn = NoConn /\ report.at = "connect"
  <2>1. PICK op \in Ops, hook \in Names, at \in Labels : op = "report" /\ hook = "exec" /\ at = "connect"
    BY DEF Ops, Names, Labels
  <2> QED
    BY <1>1, <2>1, NewCall
<1>4. Form(image) /\ Form(report)
  BY <1>2, <1>3 DEF Form
<1> QED
  BY <1>1, <1>2, <1>3, <1>4, EnterReport DEF Execve

\* What the end of a process is inside of: nothing.
LEMMA Ending ==
  ASSUME CallInv, NEW t \in Threads, stack[t] # <<>>, Top(t).op \in {"exit", "exec"}
  PROVE  Tail(stack[t]) = <<>> /\ CallsIn(stack[t]) = {Top(t)} /\ Owned(stack[t]) = {}
<1>1. stack[t] \in Seq(Calls) /\ Shape(stack[t])
  BY DEF CallInv, TypeOK, StackInv
<1>2. PICK s \in Seq(Calls) : s = stack[t]
  BY <1>1
<1>3. Tail(s) = <<>> /\ CallsIn(s) = {Head(s)} /\ Owned(s) = {}
  BY <1>1, <1>2, Bottom DEF Top
<1> QED
  BY <1>2, <1>3 DEF Top

LEMMA FiniStep ==
  ASSUME CallInv, NEW t \in Threads, NEW h \in Hooks, Fini(t, h)
  PROVE  CallInv'
<1>0. TypeOK /\ StackInv
  BY DEF CallInv
<1>1. PICK d, q : d = Call("cleanup", h, "lock", NewEvent(t)) /\ q = stack[t]
  OBVIOUS
<1>2. /\ d \in Calls /\ d.op = "cleanup" /\ d.hook = h /\ d.at = "lock" /\ d.conn = NoConn
  BY <1>1, NewCall DEF Ops, Names, Labels
<1>3. Form(d) /\ ~Owns(d) /\ d.at \notin Fields \cup {"done"}
  BY <1>2 DEF Form, Owns, Fields
<1>4. /\ Runs(t) /\ q \in Seq(Calls) /\ Shape(q) /\ q # <<>> /\ Head(q).op = "exit"
      /\ lib' = lib /\ wire' = wire /\ Enter(t, d, q)
  BY <1>0, <1>1 DEF Fini, In, Top, TypeOK, StackInv
<1>5. Within(Head(q), d)
  BY <1>2, <1>4 DEF Within
<1>6. Connects
  BY <1>4, SameConns
<1>7. Onward
  <2>1. made' \in [Threads -> Nat]
    BY <1>0, <1>4 DEF Enter, TypeOK
  <2>2. fini' \in [Procs -> SUBSET Hooks]
    BY <1>0, InterposerAssumption DEF Fini, TypeOK
  <2> QED
    BY <1>0, <2>1, <2>2 DEF Onward, Fini, TypeOK
<1>8. \A c \in CallsIn(q) : /\ c.conn \in Conns \cup {NoConn}
                            /\ Finalizes(c) => voyeur_close_finalized[Home[t]]
  BY <1>1, Calling
<1>9. PICK n : Restacks(t, n) /\ Owned(n) = Owned(q)
  BY <1>2, <1>3, <1>4, <1>5, <1>6, <1>7, <1>8, Entering
<1> QED
  BY <1>1, <1>4, <1>6, <1>7, <1>9, QuietStep

LEMMA ExitHandlerStep ==
  ASSUME CallInv, NEW t \in Threads, ExitHandler(t)
  PROVE  CallInv'
<1>0. TypeOK /\ StackInv
  BY DEF CallInv
<1>1. PICK c, e, q, d : /\ c = Top(t) /\ e = Placed(c, "end") /\ q = <<e>>
                        /\ d = Call("report", "exit", "test", NewEvent(t))
  OBVIOUS
<1>2. /\ Runs(t) /\ stack[t] # <<>> /\ c.op = "exit" /\ lib' = lib /\ wire' = wire
      /\ Enter(t, d, Moved(t, "end"))
  BY <1>1 DEF ExitHandler, In
<1>3. /\ d \in Calls /\ d.op = "report" /\ d.hook = "exit" /\ d.at = "test" /\ d.conn = NoConn
  BY <1>1, NewCall DEF Ops, Names, Labels
<1>4. Form(d) /\ ~Owns(d) /\ d.at \notin Fields \cup {"done"}
  BY <1>3 DEF Form, Owns, Fields
<1>5. /\ Tail(stack[t]) = <<>> /\ CallsIn(stack[t]) = {c} /\ Owned(stack[t]) = {}
  BY <1>1, <1>2, Ending
<1>6. c \in Calls /\ Form(c)
  <2>1. PICK r : r = Tail(stack[t])
    OBVIOUS
  <2> QED
    BY <1>0, <1>1, <1>2, <2>1, TopOf
<1>7. /\ e \in Calls /\ e.op = "exit" /\ Form(e) /\ ~Owns(e) /\ ~Finalizes(e) /\ e.conn = c.conn
  BY <1>1, <1>2, <1>6 DEF Calls, Placed, Labels, Form, Owns, Finalizes
<1>8. /\ q \in Seq(Calls) /\ q # <<>> /\ Head(q) = e
      /\ CallsIn(q) = {e} /\ Owned(q) = {} /\ Shape(q)
  BY <1>1, <1>7, OneCallStack
<1>9. Enter(t, d, q)
  <2>1. Moved(t, "end") = <<e>> \o <<>>
    BY <1>1, <1>5, <1>6, MovedPlaces
  <2>2. <<e>> \o <<>> = q
    BY <1>1, <1>7
  <2> QED
    BY <1>2, <2>1, <2>2
<1>10. Within(Head(q), d)
  BY <1>3, <1>7, <1>8 DEF Within
<1>11. Connects
  BY <1>2, SameConns
<1>12. Onward
  <2>1. made' \in [Threads -> Nat]
    BY <1>0, <1>9 DEF Enter, TypeOK
  <2> QED
    BY <1>0, <2>1 DEF Onward, ExitHandler, TypeOK
<1>13. \A b \in CallsIn(q) : /\ b.conn \in Conns \cup {NoConn}
                             /\ Finalizes(b) => voyeur_close_finalized[Home[t]]
  BY <1>5, <1>7, <1>8, Calling
<1>14. PICK n : Restacks(t, n) /\ Owned(n) = Owned(q)
  BY <1>3, <1>4, <1>8, <1>9, <1>10, <1>11, <1>12, <1>13, Entering
<1> QED
  BY <1>2, <1>5, <1>8, <1>11, <1>12, <1>14, QuietStep

LEMMA EndStep ==
  ASSUME CallInv, NEW t \in Threads, End(t)
  PROVE  CallInv'
<1>0. TypeOK /\ Runs(t)
  BY DEF CallInv, End, In
<1>1. Onward
  BY <1>0, InterposerAssumption DEF Onward, End, TypeOK, Runs
<1> QED
  BY <1>0, <1>1, Staying DEF End

LEMMA RealExecveStep ==
  ASSUME CallInv, NEW t \in Threads, RealExecve(t)
  PROVE  CallInv'
<1>0. TypeOK /\ Runs(t) /\ stack[t] # <<>> /\ Top(t).op = "exec"
  BY DEF CallInv, RealExecve, In
<1>1. Onward
  <2>1. made' = made
    BY DEF RealExecve, Return
  <2>2. proc' = proc \/ proc' = [proc EXCEPT ![Home[t]] = "replaced"]
    BY DEF RealExecve
  <2> QED
    BY <1>0, <2>1, <2>2, InterposerAssumption, ZenonT(40) DEF Onward, RealExecve, TypeOK, Runs
<1>2. CASE UNCHANGED stack
  BY <1>0, <1>1, <1>2, Staying DEF RealExecve
<1>3. CASE Return(t)
  <2>1. Connects /\ lib' = lib
    BY SameConns DEF RealExecve
  <2>2. PICK r : r = Tail(stack[t])
    OBVIOUS
  <2>3. Restacks(t, r)
    BY <1>0, <1>1, <1>3, <2>1, <2>2, Returning
  <2>4. Owned(r) = Owned(stack[t])
    <3>1. r = <<>> /\ Owned(stack[t]) = {}
      BY <1>0, <2>2, Ending
    <3>2. Owned(r) = {}
      BY <3>1 DEF Owned, CallsIn
    <3> QED
      BY <3>1, <3>2
  <2> QED
    BY <1>0, <1>1, <2>1, <2>3, <2>4, QuietStep
<1> QED
  BY <1>2, <1>3 DEF RealExecve

LEMMA ForkStep ==
  ASSUME CallInv, NEW t \in Threads, NEW u \in Threads, Fork(t, u)
  PROVE  CallInv'
<1>0. TypeOK /\ Numbered /\ StackInv /\ Locked /\ LibInv
  BY DEF CallInv
<1>1. PICK p \in Procs, q \in Procs : p = Home[t] /\ q = Home[u]
  BY InterposerAssumption
<1>2. /\ Runs(t) /\ proc[p] = "alive" /\ proc[q] = "unborn" /\ p # q
      /\ proc' = [proc EXCEPT ![q] = "alive"]
      /\ lib' = [lib EXCEPT ![q] = lib[p]]
      /\ voyeur_close_finalized' = [voyeur_close_finalized EXCEPT ![q] = voyeur_close_finalized[p]]
      /\ did_exit_already' = [did_exit_already EXCEPT ![q] = did_exit_already[p]]
      /\ fini' = [fini EXCEPT ![q] = fini[p]]
      /\ UNCHANGED <<stack, made, wire, effects>>
  BY <1>1 DEF Fork, Idle, Runs
<1>3. /\ proc \in [Procs -> {"unborn", "alive", "exited", "replaced", "crashed"}]
      /\ lib \in [Procs -> [Hooks -> Library]]
      /\ Home \in [Threads -> Procs]
  BY <1>0, InterposerAssumption DEF TypeOK
<1>4. /\ proc'[q] = "alive" /\ lib'[q] = lib[p]
      /\ \A r \in Procs \ {q} : /\ proc'[r] = proc[r] /\ lib'[r] = lib[r]
                                /\ voyeur_close_finalized'[r] = voyeur_close_finalized[r]
  BY <1>0, <1>2, <1>3 DEF TypeOK
<1>5. \A v \in Threads : Home[v] = q => stack[v] = <<>>
  BY <1>0, <1>2 DEF StackInv
<1>6. Conns' = Conns
  BY <1>2 DEF Conns
<1>7. TypeOK'
  <2>1. /\ proc' \in [Procs -> {"unborn", "alive", "exited", "replaced", "crashed"}]
        /\ lib' \in [Procs -> [Hooks -> Library]]
        /\ voyeur_close_finalized' \in [Procs -> BOOLEAN]
        /\ did_exit_already' \in [Procs -> BOOLEAN]
        /\ fini' \in [Procs -> SUBSET Hooks]
    BY <1>0, <1>2, <1>3 DEF TypeOK
  <2>2. shared' \subseteq Conns'
    BY <1>0, <1>1, <1>6 DEF Fork, TypeOK
  <2>3. \A r \in Procs : \A h \in Hooks : lib'[r][h].sock \in Conns' \cup {NoConn}
    BY <1>0, <1>4, <1>6 DEF TypeOK
  <2>4. ASSUME NEW v \in Threads, stack'[v] # <<>>, Top(v)'.at \in Fields \cup {"done"}
        PROVE  IF Top(v)'.op = "report" THEN Top(v)'.conn # NoConn ELSE Lib(v)'.sock # NoConn
    <3>1. Home[v] \in Procs \ {q} /\ Top(v)' = Top(v) /\ stack[v] # <<>>
      BY <1>2, <1>3, <1>5, <2>4 DEF Top
    <3>2. Lib(v)' = Lib(v)
      BY <1>4, <3>1 DEF Lib
    <3> QED
      BY <1>0, <2>4, <3>1, <3>2 DEF TypeOK
  <2> QED
    BY <1>0, <1>2, <1>6, <2>1, <2>2, <2>3, <2>4 DEF TypeOK
<1>8. StackInv'
  BY <1>0, <1>2, <1>3, <1>4, <1>5 DEF StackInv
<1>9. Numbered'
  BY <1>0, <1>6 DEF Numbered, Made
<1>10. Locked'
  <2> SUFFICES ASSUME NEW v \in Threads
               PROVE  /\ \A h \in Hooks : lib'[Home[v]][h].mutex = v <=> h \in Owned(stack[v])
                      /\ \A c \in CallsIn(stack[v]) : Finalizes(c) => voyeur_close_finalized'[Home[v]]
    BY <1>2 DEF Locked
  <2>1. CASE Home[v] = q
    <3>1. CallsIn(stack[v]) = {} /\ Owned(stack[v]) = {}
      BY <1>5, <2>1 DEF CallsIn, Owned
    <3>2. ASSUME NEW h \in Hooks PROVE lib'[q][h].mutex # v
      <4>1. LibState(p, h)
        BY <1>0 DEF LibInv
      <4> QED
        BY <1>2, <1>4, <2>1, <4>1, InterposerAssumption DEF LibState
    <3> QED
      BY <2>1, <3>1, <3>2
  <2>2. CASE Home[v] # q
    <3>1. Home[v] \in Procs \ {q}
      BY <1>3, <2>2
    <3> QED
      BY <1>0, <1>4, <3>1 DEF Locked
  <2> QED
    BY <2>1, <2>2
<1>11. LibInv'
  <2> SUFFICES ASSUME NEW r \in Procs, NEW h \in Hooks PROVE LibState(r, h)'
    BY DEF LibInv
  <2>1. /\ LibState(r, h) /\ LibState(p, h)
        /\ lib[r][h].mutex \in Threads \cup {None} /\ lib[p][h].mutex \in Threads \cup {None}
    BY <1>0, <1>3 DEF LibInv, Library
  <2>2. \A s \in Procs : proc[s] # "unborn" => proc'[s] # "unborn"
    BY <1>2, <1>3, <1>4
  <2>3. CASE r = q
    BY <1>2, <1>3, <1>4, <2>1, <2>2, <2>3 DEF LibState
  <2>4. CASE r # q
    BY <1>2, <1>3, <1>4, <2>1, <2>2, <2>4 DEF LibState
  <2> QED
    BY <2>3, <2>4
<1> QED
  BY <1>7, <1>8, <1>9, <1>10, <1>11 DEF CallInv

-----------------------------------------------------------------------------
(* The invariant. *)

LEMMA CallInit == Init => CallInv
<1> SUFFICES ASSUME Init PROVE CallInv
  OBVIOUS
<1>1. Conns = {}
  BY DEF Init, Conns
<1>2. Unloaded \in Library /\ Unloaded.mutex = None /\ Unloaded.sock = NoConn
  BY DEF Unloaded, Library, ConnNames
<1>3. TypeOK
  BY <1>1, <1>2 DEF Init, TypeOK
<1>4. Numbered
  BY <1>1, FS_EmptySet DEF Numbered
<1>5. StackInv
  BY DEF Init, StackInv, Shape
<1>6. Locked
  BY <1>2, InterposerAssumption DEF Init, Locked, Owned, CallsIn
<1>7. LibInv
  BY <1>2 DEF Init, LibInv, LibState
<1> QED
  BY <1>3, <1>4, <1>5, <1>6, <1>7 DEF CallInv

LEMMA CallStuttering ==
  ASSUME CallInv, UNCHANGED vars
  PROVE  CallInv'
<1>1. TypeOK'
  <2>1. Conns' = Conns
    BY DEF vars, Conns
  <2>2. \A t \in Threads : Top(t)' = Top(t) /\ Lib(t)' = Lib(t)
    BY DEF vars, Top, Lib
  <2>3. TypeOK
    BY DEF CallInv
  <2> QED
    BY <2>1, <2>2, <2>3 DEF vars, TypeOK
<1>2. Numbered'
  BY DEF CallInv, vars, Numbered, Conns, Made
<1>3. StackInv'
  BY DEF CallInv, vars, StackInv
<1>4. Locked'
  BY DEF CallInv, vars, Locked
<1>5. LibInv'
  BY DEF CallInv, vars, LibInv, LibState, Top
<1> QED
  BY <1>1, <1>2, <1>3, <1>4, <1>5 DEF CallInv

LEMMA CallNext ==
  ASSUME CallInv, Next
  PROVE  CallInv'
<1>1. PICK t \in Threads : Proceed(t) \/ Begin(t)
  BY DEF Next
<1>2. CASE HookStep(t)
  BY <1>2, CheckFinalizedStep, ForwardStep, LockStep, RealCallStep, WriteFieldStep,
     UnlockStep DEF HookStep
<1>3. CASE CleanupStep(t)
  BY <1>3, CleanupLockStep, CleanupDoneStep, CleanupCloseStep, CleanupResetStep
     DEF CleanupStep
<1>4. CASE ReportStep(t)
  BY <1>4, ExitReportTestStep, ReportConnectStep, ReportFieldStep, ReportDoneStep,
     ReportCloseStep DEF ReportStep
<1>5. CASE (\E h \in Hooks : Fini(t, h)) \/ ExitHandler(t) \/ End(t) \/ RealExecve(t)
  BY <1>5, FiniStep, ExitHandlerStep, EndStep, RealExecveStep
<1>6. CASE Begin(t)
  BY <1>6, CallHookStep, ExitStep, ExecveStep, ForkStep DEF Begin
<1> QED
  BY <1>1, <1>2, <1>3, <1>4, <1>5, <1>6 DEF Proceed

\* Every thread is inside of the calls the code nests, it has the mutexes of those
\* that are past their lock and no other, and whatever is about to be sent has a
\* socket to be sent on.
THEOREM CallsNestAndLock == Spec => []CallInv
<1>1. Init => CallInv
  BY CallInit
<1>2. CallInv /\ [Next]_vars => CallInv'
  BY CallNext, CallStuttering
<1> QED
  BY <1>1, <1>2, PTL DEF Spec

\* The types of all variables: no step of a hook, a destructor, a report or fork() leaves
\* a call at a place that the code does not have.
THEOREM InterposerTypes == Spec => []TypeOK
<1>1. CallInv => TypeOK
  BY DEF CallInv
<1> QED
  BY <1>1, CallsNestAndLock, PTL

-----------------------------------------------------------------------------
(* No thread waits for itself. *)

\* Only a fork() copies a mutex.
LEMMA MutexSteps ==
  ASSUME CallInv, NEW t \in Threads, Proceed(t) \/ Begin(t), ~ \E u \in Threads : Fork(t, u),
         NEW p \in Procs, NEW h \in Hooks
  PROVE  lib'[p][h].mutex \in {lib[p][h].mutex, None} \/ (p = Home[t] /\ lib'[p][h].mutex = t)
<1>1. lib \in [Procs -> [Hooks -> Library]]
  BY DEF CallInv, TypeOK
<1>2. CASE lib' = lib
  BY <1>2
<1>3. ASSUME NEW m, SetLib(t, m), m.mutex \in {None, t}
      PROVE  lib'[p][h].mutex \in {lib[p][h].mutex, None} \/ (p = Home[t] /\ lib'[p][h].mutex = t)
  BY <1>1, <1>3 DEF SetLib
<1>4. CASE Lock(t) \/ Unlock(t) \/ CleanupLock(t) \/ CleanupReset(t)
  <2>1. TypeOK /\ StackInv
    BY DEF CallInv
  <2>2. stack[t] # <<>>
    BY <1>4 DEF Lock, Unlock, CleanupLock, CleanupReset, In
  <2>3. PICK c, r : c = Top(t) /\ r = Tail(stack[t])
    OBVIOUS
  <2>4. Form(c) /\ Home[t] \in Procs
    BY <2>1, <2>2, <2>3, TopOf
  <2>5. c.hook \in Hooks
    BY <1>4, <2>3, <2>4 DEF Lock, Unlock, CleanupLock, CleanupReset, In, Form
  <2>6. PICK l \in Library : l = Lib(t)
    BY <1>1, <2>3, <2>4, <2>5 DEF Lib
  <2>7. /\ [l EXCEPT !.mutex = t].mutex = t
        /\ [l EXCEPT !.mutex = None].mutex = None
        /\ [l EXCEPT !.mutex = None, !.initialized = FALSE, !.sock = NoConn].mutex = None
    BY DEF Library
  <2>8. \E m : SetLib(t, m) /\ m.mutex \in {None, t}
    <3>1. CASE Lock(t)
      <4>1. \A e : [mutex |-> t, initialized |-> TRUE, next |-> TRUE, sock |-> e].mutex = t
        OBVIOUS
      <4> QED
        BY <2>6, <2>7, <3>1, <4>1 DEF Lock
    <3>2. CASE Unlock(t)
      BY <2>6, <2>7, <3>2 DEF Unlock
    <3>3. CASE CleanupLock(t)
      BY <2>6, <2>7, <3>3 DEF CleanupLock
    <3>4. CASE CleanupReset(t)
      BY <2>6, <2>7, <3>4 DEF CleanupReset
    <3> QED
      BY <1>4, <3>1, <3>2, <3>3, <3>4
  <2> QED
    BY <1>3, <2>8
<1> QED
  BY <1>2, <1>4 DEF Proceed, Begin, HookStep, CleanupStep, ReportStep, CheckFinalized, Forward,
     RealCall, WriteField, CleanupDone, CleanupClose, ExitReportTest, ReportConnect,
     ReportField, ReportDone, ReportClose, Fini, ExitHandler, End, RealExecve, CallHook, Exit,
     Execve

LEMMA NoRingInit == Init => NoRing
<1>1. Init => \A p \in Procs : \A h \in Hooks : lib[p][h].mutex = None
  BY DEF Init, Unloaded
<1>2. Init => \A p \in Procs : \A P : ~CopiesFrom(p, P)
  BY <1>1 DEF CopiesFrom
<1> QED
  BY <1>2 DEF NoRing

LEMMA NoRingNext ==
  ASSUME CallInv, NoRing, Next
  PROVE  NoRing'
<1> SUFFICES ASSUME NEW P \in SUBSET Procs, P # {}
             PROVE  \E p \in P : ~CopiesFrom(p, P)'
  BY DEF NoRing
<1>1. PICK t \in Threads : Proceed(t) \/ Begin(t)
  BY DEF Next
<1>2. Home \in [Threads -> Procs] /\ None \notin Threads
  BY InterposerAssumption
<1>3. CASE ~ \E u \in Threads : Fork(t, u)
  <2>1. PICK p \in P : ~CopiesFrom(p, P)
    BY DEF NoRing
  <2>2. ASSUME NEW h \in Hooks, lib'[p][h].mutex # None
        PROVE  Home[lib'[p][h].mutex] \notin P \ {p}
    <3>1. \/ lib'[p][h].mutex = lib[p][h].mutex
          \/ p = Home[t] /\ lib'[p][h].mutex = t
      BY <1>1, <1>3, <2>2, MutexSteps
    <3> QED
      BY <2>1, <2>2, <3>1 DEF CopiesFrom
  <2> QED
    BY <2>2 DEF CopiesFrom
<1>4. CASE \E u \in Threads : Fork(t, u)
  <2>1. PICK u \in Threads : Fork(t, u)
    BY <1>4
  <2>2. PICK p \in Procs, q \in Procs : p = Home[t] /\ q = Home[u]
    BY <1>2
  <2>3. /\ proc[p] = "alive" /\ proc[q] = "unborn" /\ p # q
        /\ lib' = [lib EXCEPT ![q] = lib[p]]
    BY <2>1, <2>2 DEF Fork, Idle, Runs
  <2>4. /\ \A r \in Procs \ {q} : lib'[r] = lib[r]
        /\ lib \in [Procs -> [Hooks -> Library]]
    BY <2>3 DEF CallInv, TypeOK
  <2>5. CASE P = {q}
    BY <2>5 DEF CopiesFrom
  <2>6. CASE P # {q}
    <3>1. PICK r \in P \ {q} : ~CopiesFrom(r, P \ {q})
      BY <2>6 DEF NoRing
    <3>2. ASSUME NEW h \in Hooks, lib[r][h].mutex # None
          PROVE  Home[lib[r][h].mutex] # q
      <4>1. LibState(r, h)
        BY <3>1 DEF CallInv, LibInv
      <4> QED
        BY <2>3, <3>2, <4>1 DEF LibState
    <3>3. ~CopiesFrom(r, P)
      BY <3>1, <3>2 DEF CopiesFrom
    <3>4. ~CopiesFrom(r, P)'
      BY <2>4, <3>1, <3>3 DEF CopiesFrom
    <3> QED
      BY <3>1, <3>4
  <2> QED
    BY <2>5, <2>6
<1> QED
  BY <1>3, <1>4

\* A thread that waits while it has a mutex is a destructor's that closes a socket
\* through the close() of a library that is not its own.
LEMMA WaitsForClose ==
  ASSUME CallInv, NEW u \in Threads, stack[u] # <<>>, Top(u).at = "lock",
         NEW h \in Hooks, lib[Home[u]][h].mutex = u
  PROVE  h # "close" /\ Top(u).hook = "close"
<1>1. h \in Owned(stack[u])
  BY DEF CallInv, Locked
<1>2. stack[u] \in Seq(Calls) /\ Shape(stack[u])
  BY DEF CallInv, TypeOK, StackInv
<1>3. PICK s \in Seq(Calls) : s = stack[u]
  BY <1>2
<1>4. PICK c, r : c = Head(s) /\ r = Tail(s)
  OBVIOUS
<1>5. s # <<>> /\ Shape(s) /\ c = Top(u)
  BY <1>2, <1>3, <1>4 DEF Top
<1>6. Under(c, r)
  BY <1>4, <1>5, Beneath
<1>7. c \in Calls /\ r \in Seq(Calls) /\ s = <<c>> \o r
  BY <1>4, <1>5, Split
<1>8. Adds(s, r, c)
  BY <1>7, OwnedBy DEF Adds
<1>9. ~Owns(c) /\ c.at = "lock"
  BY <1>5 DEF Owns, Fields
<1>10. h \in Owned(r)
  BY <1>1, <1>3, <1>8, <1>9 DEF Adds
<1> QED
  BY <1>5, <1>6, <1>9, <1>10 DEF Under

LEMMA WaitsForNoOne ==
  ASSUME CallInv, NoRing
  PROVE  NoWaitCycle
<1> SUFFICES ASSUME NEW S \in SUBSET Threads, S # {}, \A t \in S : Awaits(t) \in S
             PROVE  FALSE
  BY DEF NoWaitCycle
<1>0. Home \in [Threads -> Procs] /\ None \notin Threads
  BY InterposerAssumption
<1>1. ASSUME NEW t \in S
      PROVE  /\ stack[t] # <<>> /\ Top(t).at = "lock" /\ Top(t).hook \in Hooks
             /\ lib[Home[t]][Top(t).hook].mutex \in S
  <2>1. Awaits(t) \in S /\ Awaits(t) # None
    BY <1>0
  <2>2. PICK op \in {"call", "cleanup"} : In(t, op, "lock")
    BY <2>1 DEF Awaits
  <2>3. Lib(t).mutex \in S
    BY <2>1, <2>2 DEF Awaits
  <2>4. TypeOK /\ StackInv
    BY DEF CallInv
  <2>5. stack[t] # <<>> /\ Top(t).at = "lock" /\ Top(t).op = op
    BY <2>2 DEF In
  <2>6. PICK c, r : c = Top(t) /\ r = Tail(stack[t])
    OBVIOUS
  <2>7. Form(c)
    BY <2>4, <2>5, <2>6, TopOf
  <2>8. c.hook \in Hooks
    BY <2>5, <2>6, <2>7 DEF Form
  <2> QED
    BY <2>3, <2>5, <2>6, <2>8 DEF Lib
<1>2. PICK P \in SUBSET Procs : P = {Home[t] : t \in S} /\ P # {}
  <2>1. {Home[t] : t \in S} \in SUBSET Procs
    BY <1>0
  <2>2. {Home[t] : t \in S} # {}
    OBVIOUS
  <2> QED
    BY <2>1, <2>2
<1>3. PICK q \in P : ~CopiesFrom(q, P)
  BY <1>2 DEF NoRing
<1>4. ASSUME NEW t \in S, Home[t] = q
      PROVE  \E u \in S : Home[u] = q /\ lib[q][Top(t).hook].mutex = u
  <2>1. PICK u \in S : lib[q][Top(t).hook].mutex = u
    BY <1>1, <1>4
  <2>2. Home[u] \in P /\ u # None
    BY <1>0, <1>2
  <2>3. Home[u] = q
    BY <1>1, <1>3, <2>1, <2>2 DEF CopiesFrom
  <2> QED
    BY <2>1, <2>3
<1>5. PICK t \in S : Home[t] = q
  BY <1>2, <1>3
<1>6. PICK u \in S : Home[u] = q /\ lib[q][Top(t).hook].mutex = u
  BY <1>4, <1>5
<1>7. Top(u).hook = "close"
  BY <1>1, <1>6, WaitsForClose
<1>8. PICK v \in S : Home[v] = q /\ lib[q]["close"].mutex = v
  BY <1>4, <1>6, <1>7
<1>9. "close" \in Hooks
  BY <1>1, <1>7
<1> QED
  BY <1>1, <1>8, <1>9, WaitsForClose

\* No thread ever waits for itself, directly or through others, in one process or
\* across those that were forked from each other.
THEOREM ThreadsWaitForOthers == Spec => []NoWaitCycle
<1>1. Init => NoRing
  BY NoRingInit
<1>2. CallInv /\ NoRing /\ [Next]_vars => NoRing'
  <2>1. CallInv /\ NoRing /\ UNCHANGED vars => NoRing'
    BY DEF NoRing, CopiesFrom, vars
  <2> QED
    BY <2>1, NoRingNext
<1>3. CallInv /\ NoRing => NoWaitCycle
  BY WaitsForNoOne
<1> QED
  BY <1>1, <1>2, <1>3, CallsNestAndLock, PTL DEF Spec
=============================================================================
