------------------------------ MODULE TreeProofs ------------------------------
(***************************************************************************)
(* Proofs about ProcessTree, for every number of processes, connections    *)
(* and lost connections.                                                   *)
(***************************************************************************)
EXTENDS TreeProperties, FiniteSetTheorems, TLAPS

USE DEF historyVars, procVars, chanVars

-----------------------------------------------------------------------------
(* Connections and the log. *)

\* None is not a connection.
LEMMA NoneIsNoConn == None \notin Conns
  BY ProcessTreeAssumption DEF Conns

\* The latest connection of a process that has made one.
LEMMA LatestIsConn ==
  ASSUME TypeOK, NEW p \in Procs, made[p] > 0
  PROVE  Latest(p) \in Conns
<1>1. made[p] \in 1..MaxConns
  BY DEF TypeOK
<1> QED
  BY <1>1 DEF Latest, Conns

\* What has been delivered of a connection is counted by a natural number, which
\* is zero when the log has nothing of it.
LEMMA DeliveredCounts ==
  ASSUME TypeOK, NEW c \in Conns
  PROVE  /\ Channel!Delivered(c) \in Nat
         /\ (\A i \in DOMAIN log : log[i][1] # c) => Channel!Delivered(c) = 0
<1> DEFINE S == {i \in DOMAIN log : log[i][1] = c}
<1>1. IsFiniteSet(S)
  <2>1. DOMAIN log = 1..Len(log) /\ Len(log) \in Nat
    BY DEF TypeOK
  <2>2. IsFiniteSet(1..Len(log))
    BY <2>1, FS_Interval
  <2> QED
    BY <2>1, <2>2, FS_Subset
<1>2. Cardinality(S) \in Nat
  BY <1>1, FS_CardinalityType
<1>3. ASSUME \A i \in DOMAIN log : log[i][1] # c
      PROVE  Cardinality(S) = 0
  BY <1>3, FS_EmptySet
<1>4. Channel!Delivered(c) = Cardinality(S)
  BY DEF Channel!Delivered, Channel!Cardinality, Cardinality
<1> QED
  BY <1>2, <1>3, <1>4

\* Once something of a connection was called back its first event was.
LEMMA FirstWasDelivered ==
  ASSUME TypeOK, Ordered, NEW c \in Conns, Channel!Delivered(c) > 0
  PROVE  \E j \in 1..Len(log) : log[j] = <<c, 1>>
<1>1. PICK i \in DOMAIN log : log[i][1] = c
  BY DeliveredCounts
<1>2. PICK j \in 1..i : log[j] = <<c, 1>>
  BY <1>1 DEF Ordered
<1>3. DOMAIN log = 1..Len(log) /\ Len(log) \in Nat
  BY DEF TypeOK
<1> QED
  BY <1>2, <1>3

-----------------------------------------------------------------------------
(* The invariant at the start. *)

\* Initially nothing is connected and nothing was called back.
LEMMA InitTreeInv == Init => TreeInv
<1> SUFFICES ASSUME Init PROVE TreeInv
  OBVIOUS
<1>1. TypeOK
  <2>1. /\ posted = [c \in Conns |-> 0]
        /\ seen = [c \in Conns |-> {}]
        /\ log = <<>> /\ lost = {} /\ over = FALSE
    BY DEF Init, Channel!Init
  <2>2. log \in Seq(Conns \X (Nat \ {0}))
    BY <2>1
  <2>3. state \in [Procs -> States] /\ call \in [Procs -> Names]
    BY DEF Init, States, Names, NoCall
  <2>4. made \in [Procs -> 0..MaxConns]
    BY ProcessTreeAssumption DEF Init
  <2> QED
    BY <2>1, <2>2, <2>3, <2>4 DEF Init, TypeOK
<1>2. OneShot
  BY ProcessTreeAssumption DEF Init, OneShot
<1>3. Lineages
  BY DEF Init, Lineages
<1>4. Ordered
  BY DEF Init, Channel!Init, Ordered
<1> QED
  BY <1>1, <1>2, <1>3, <1>4 DEF TreeInv

-----------------------------------------------------------------------------
(* The three ways in which a process uses the channel. *)

\* While no connection is made and nothing called back the log stays in order.
LEMMA StaysOrdered ==
  ASSUME TypeOK, Ordered, seen' = seen, log' = log, lost \subseteq lost',
         \A c \in Conns : posted'[c] >= posted[c] /\ posted'[c] \in Nat
  PROVE  Ordered'
<1>1. \A i \in DOMAIN log : log[i][1] \in Conns
  BY DEF TypeOK
<1>2. \A i \in DOMAIN log : posted'[log[i][1]] > 0
  <2> TAKE i \in DOMAIN log
  <2>1. posted[log[i][1]] > 0 /\ posted[log[i][1]] \in Nat
    BY <1>1 DEF Ordered, TypeOK
  <2> QED
    BY <1>1, <2>1
<1>3. \A i \in DOMAIN log : \E j \in 1..i : log[j] = <<log[i][1], 1>>
  BY DEF Ordered
<1>4. \A i \in DOMAIN log : \A d \in seen[log[i][1]] :
         d \in lost' \/ \E j \in 1..i - 1 : log[j] = <<d, 1>>
  BY DEF Ordered
<1>5. \A i \in DOMAIN log' : posted'[log'[i][1]] > 0
  BY <1>2
<1>6. \A i \in DOMAIN log' : \E j \in 1..i : log'[j] = <<log'[i][1], 1>>
  BY <1>3
<1>7. \A i \in DOMAIN log' : \A d \in seen'[log'[i][1]] :
         d \in lost' \/ \E j \in 1..i - 1 : log'[j] = <<d, 1>>
  BY <1>4
<1> QED
  BY <1>5, <1>6, <1>7 DEF Ordered

\* A new connection is the latest one of its process, carries nothing, and was
\* made after everything that its process knows of was sent.
LEMMA ConnectKeeps ==
  ASSUME TreeInv, NEW p \in Procs, Connect(p), UNCHANGED lineage
  PROVE  /\ made' \in [Procs -> 0..MaxConns]
         /\ made'[p] = made[p] + 1
         /\ \A q \in Procs \ {p} : made'[q] = made[q]
         /\ \A q \in Procs : made[q] \in Nat /\ made'[q] \in Nat /\ made[q] <= made'[q]
         /\ <<p, made[p] + 1>> \in Conns
         /\ posted[<<p, made[p] + 1>>] = 0
         /\ UNCHANGED <<posted, log, lost, over>>
         /\ before' \in [Conns -> SUBSET Reports]
         /\ seen' \in [Conns -> SUBSET Conns]
         /\ Lineages' /\ Ordered'
<1> DEFINE c == <<p, made[p] + 1>>
<1>1. made[p] \in Nat /\ made[p] < MaxConns /\ MaxConns \in Nat
  BY ProcessTreeAssumption DEF TreeInv, TypeOK, Connect
<1>2. c \in Conns
  BY <1>1 DEF Conns
<1>3. /\ made' \in [Procs -> 0..MaxConns]
      /\ made'[p] = made[p] + 1
      /\ \A q \in Procs \ {p} : made'[q] = made[q]
  BY <1>1 DEF TreeInv, TypeOK, Connect
<1>9. \A q \in Procs : made[q] \in Nat /\ made'[q] \in Nat /\ made[q] <= made'[q]
  <2> TAKE q \in Procs
  <2>1. made[q] \in Nat
    BY ProcessTreeAssumption DEF TreeInv, TypeOK
  <2> QED
    BY <1>1, <1>3, <2>1
<1>4. /\ posted[c] = 0
      /\ UNCHANGED <<posted, log, lost, over>>
      /\ seen' = [seen EXCEPT ![c] = {d \in Conns : posted[d] > 0}]
  BY DEF Connect, Channel!Connect
<1>5. before' = [before EXCEPT ![c] = lineage[p]]
  BY DEF Connect
<1>6. /\ before' \in [Conns -> SUBSET Reports]
      /\ seen' \in [Conns -> SUBSET Conns]
  BY <1>4, <1>5 DEF TreeInv, TypeOK
<1>7. Lineages'
  <2>1. \A q \in Procs : \A r \in lineage[q] : r[2] = 1 /\ posted[r[1]] > 0
    BY DEF TreeInv, Lineages
  <2>2. ASSUME NEW d \in Conns, NEW r \in before'[d]
        PROVE  r[2] = 1 /\ r[1] \in seen'[d]
    <3>1. CASE d = c
      <4>1. r \in lineage[p] /\ seen'[c] = {e \in Conns : posted[e] > 0}
        BY <1>2, <1>4, <1>5, <2>2, <3>1 DEF TreeInv, TypeOK
      <4>2. r[1] \in Conns
        BY <4>1 DEF TreeInv, TypeOK, Reports
      <4> QED
        BY <2>1, <3>1, <4>1, <4>2
    <3>2. CASE d # c
      <4>1. r \in before[d] /\ seen'[d] = seen[d]
        BY <1>4, <1>5, <2>2, <3>2 DEF TreeInv, TypeOK
      <4> QED
        BY <4>1 DEF TreeInv, Lineages
    <3> QED
      BY <3>1, <3>2
  <2> QED
    BY <1>4, <2>1, <2>2 DEF Lineages
<1>8. Ordered'
  <2>1. \A i \in DOMAIN log : posted[log[i][1]] > 0 /\ log[i][1] # c
    BY <1>4 DEF TreeInv, Ordered
  <2>2. \A i \in DOMAIN log : seen'[log[i][1]] = seen[log[i][1]]
    BY <1>4, <2>1 DEF TreeInv, TypeOK
  <2>3. \A i \in DOMAIN log : \E j \in 1..i : log[j] = <<log[i][1], 1>>
    BY DEF TreeInv, Ordered
  <2>4. \A i \in DOMAIN log : \A d \in seen'[log[i][1]] :
           d \in lost \/ \E j \in 1..i - 1 : log[j] = <<d, 1>>
    BY <2>2 DEF TreeInv, Ordered
  <2> QED
    BY <1>4, <2>1, <2>3, <2>4, ZenonT(40) DEF Ordered
<1> QED
  BY <1>2, <1>3, <1>4, <1>6, <1>7, <1>8, <1>9

\* A report, or none, changes only how much was sent on its connection.
LEMMA ReportKeeps ==
  ASSUME TreeInv, NEW c \in Conns, Report(c) \/ UNCHANGED chanVars,
         UNCHANGED <<lineage, before>>
  PROVE  /\ posted' \in [Conns -> Nat]
         /\ \A d \in Conns \ {c} : posted'[d] = posted[d]
         /\ posted'[c] <= posted[c] + 1
         /\ UNCHANGED <<seen, log, lost, over>>
         /\ Lineages' /\ Ordered'
<1>1. posted \in [Conns -> Nat]
  BY DEF TreeInv, TypeOK
<1>2. /\ UNCHANGED <<seen, log, lost, over>>
      /\ posted' = posted \/ posted' = [posted EXCEPT ![c] = @ + 1]
  BY DEF Report, Channel!Post
<1>3. /\ posted' \in [Conns -> Nat]
      /\ \A d \in Conns \ {c} : posted'[d] = posted[d]
      /\ posted'[c] <= posted[c] + 1
      /\ \A d \in Conns : posted'[d] >= posted[d] /\ posted'[d] \in Nat
  BY <1>1, <1>2
<1>4. Lineages'
  <2>1. ASSUME NEW p \in Procs, NEW r \in lineage[p]
        PROVE  r[2] = 1 /\ posted'[r[1]] > 0
    <3>1. r[1] \in Conns
      BY DEF TreeInv, TypeOK, Reports
    <3>2. r[2] = 1 /\ posted[r[1]] > 0
      BY DEF TreeInv, Lineages
    <3>3. posted[r[1]] \in Nat
      BY <1>1, <3>1
    <3> QED
      BY <1>3, <3>1, <3>2, <3>3
  <2> QED
    BY <1>2, <2>1 DEF TreeInv, Lineages
<1>5. Ordered'
  BY <1>2, <1>3, StaysOrdered DEF TreeInv
<1> QED
  BY <1>2, <1>3, <1>4, <1>5

-----------------------------------------------------------------------------
(* Each step keeps the invariant. *)

\* A process that begins an exec() or its exit.
LEMMA BeginReportInv ==
  ASSUME TreeInv, NEW p \in Procs, NEW at \in {"reports", "exits"}, Goto(p, at), Connect(p),
         call' \in [Procs -> Names], UNCHANGED <<cached, lineage, unreported>>
  PROVE  TreeInv'
<1> USE DEF TreeInv
<1>1. /\ state' \in [Procs -> States]
      /\ state'[p] = at
      /\ \A q \in Procs \ {p} : state'[q] = state[q]
  BY DEF Goto, TypeOK, States
<1>2. TypeOK'
  <2>1. \A q \in Procs : made[q] \in Nat /\ made'[q] \in Nat /\ made[q] <= made'[q]
    BY ConnectKeeps
  <2>2. ASSUME NEW q \in Procs, cached'[q] # None
        PROVE  cached'[q][2] <= made'[cached'[q][1]]
    <3>1. cached[q] \in Conns /\ cached[q][2] <= made[cached[q][1]]
      BY <2>2 DEF TypeOK
    <3>2. cached[q][1] \in Procs /\ cached[q][2] \in Nat
      BY <3>1 DEF Conns
    <3> QED
      BY <2>1, <3>1, <3>2
  <2> QED
    BY <1>1, <2>2, ConnectKeeps DEF TypeOK
<1>3. OneShot'
  <2> SUFFICES ASSUME NEW q \in Procs
               PROVE  /\ state'[q] \in {"reports", "execs", "exits"} => made'[q] > 0
                      /\ state'[q] = "reports" => posted'[<<q, made'[q]>>] = 0
                      /\ state'[q] = "execs" => posted'[<<q, made'[q]>>] <= 1
                      /\ state'[q] = "spawned" => cached'[q] # None /\ cached'[q][1] = q
    BY DEF OneShot, Latest
  <2>1. CASE q = p
    <3>1. made[p] \in Nat /\ made'[p] = made[p] + 1
      BY ConnectKeeps
    <3>2. posted'[<<p, made'[p]>>] = 0
      BY <3>1, ConnectKeeps
    <3> QED
      BY <1>1, <2>1, <3>1, <3>2
  <2>2. CASE q # p
    <3>1. state'[q] = state[q] /\ made'[q] = made[q] /\ posted' = posted
      BY <1>1, <2>2, ConnectKeeps
    <3> QED
      BY <3>1 DEF OneShot, Latest
  <2> QED
    BY <2>1, <2>2
<1> QED
  BY <1>2, <1>3, ConnectKeeps

\* The first posix_spawn() of an image.
LEMMA InitSpawnInv ==
  ASSUME TreeInv, NEW p \in Procs, InitSpawn(p)
  PROVE  TreeInv'
<1> USE DEF TreeInv
<1> DEFINE c == <<p, made[p] + 1>>
<1>1. /\ state[p] = "runs"
      /\ Connect(p)
      /\ cached' = [cached EXCEPT ![p] = c]
      /\ UNCHANGED <<state, call, lineage, unreported>>
  BY DEF InitSpawn
<1>2. \A q \in Procs : made[q] \in Nat /\ made'[q] \in Nat /\ made[q] <= made'[q]
  BY <1>1, ConnectKeeps
<1>3. TypeOK'
  <2>1. ASSUME NEW q \in Procs, cached'[q] # None
        PROVE  cached'[q][2] <= made'[cached'[q][1]]
    <3>1. CASE q = p
      <4>1. cached'[q] = c
        BY <1>1, <3>1 DEF TypeOK
      <4>2. made'[p] = made[p] + 1
        BY <1>1, ConnectKeeps
      <4> QED
        BY <1>2, <4>1, <4>2
    <3>2. CASE q # p
      <4>1. cached'[q] = cached[q]
        BY <1>1, <3>2 DEF TypeOK
      <4>2. cached[q] \in Conns /\ cached[q][2] <= made[cached[q][1]]
        BY <2>1, <4>1 DEF TypeOK
      <4>3. cached[q][1] \in Procs /\ cached[q][2] \in Nat
        BY <4>2 DEF Conns
      <4> QED
        BY <1>2, <4>1, <4>2, <4>3
    <3> QED
      BY <3>1, <3>2
  <2>2. cached' \in [Procs -> Conns \cup {None}]
    BY <1>1, ConnectKeeps DEF TypeOK
  <2> QED
    BY <1>1, <2>1, <2>2, ConnectKeeps DEF TypeOK
<1>4. OneShot'
  <2> SUFFICES ASSUME NEW q \in Procs
               PROVE  /\ state[q] \in {"reports", "execs", "exits"} => made'[q] > 0
                      /\ state[q] = "reports" => posted[<<q, made'[q]>>] = 0
                      /\ state[q] = "execs" => posted[<<q, made'[q]>>] <= 1
                      /\ state[q] = "spawned" => cached'[q] # None /\ cached'[q][1] = q
    BY <1>1, ConnectKeeps DEF OneShot, Latest
  <2>1. CASE q = p
    BY <1>1, <2>1
  <2>2. CASE q # p
    <3>1. cached'[q] = cached[q] /\ made'[q] = made[q]
      BY <1>1, <2>2, ConnectKeeps DEF TypeOK
    <3> QED
      BY <3>1 DEF OneShot, Latest
  <2> QED
    BY <2>1, <2>2
<1> QED
  BY <1>1, <1>3, <1>4, ConnectKeeps

\* The log stays in order when the channel is not used.
LEMMA QuietlyOrdered ==
  ASSUME Ordered, UNCHANGED chanVars
  PROVE  Ordered'
<1>1. posted' = posted /\ seen' = seen /\ log' = log /\ lost' = lost
  OBVIOUS
<1>2. \A i \in DOMAIN log' : posted'[log'[i][1]] > 0
  BY <1>1 DEF Ordered
<1>3. \A i \in DOMAIN log' : \E j \in 1..i : log'[j] = <<log'[i][1], 1>>
  BY <1>1 DEF Ordered
<1>4. \A i \in DOMAIN log' : \A d \in seen'[log'[i][1]] :
         d \in lost' \/ \E j \in 1..i - 1 : log'[j] = <<d, 1>>
  BY <1>1 DEF Ordered
<1> QED
  BY <1>2, <1>3, <1>4 DEF Ordered

\* A report on a connection of its process, which no other process is about to
\* use for an exec().
LEMMA ReportInv ==
  ASSUME TreeInv, NEW p \in Procs, NEW c \in Conns, NEW at \in {"runs", "execs", "ended"},
         state[p] \in {"reports", "spawned", "exits"}, Goto(p, at),
         c[1] = p, Report(c) \/ UNCHANGED chanVars,
         at = "execs" => made[p] > 0 /\ posted[Latest(p)] = 0,
         call' \in [Procs -> Names], UNCHANGED <<made, cached, historyVars>>
  PROVE  TreeInv'
<1> USE DEF TreeInv
<1>1. /\ state' \in [Procs -> States]
      /\ state'[p] = at
      /\ \A q \in Procs \ {p} : state'[q] = state[q]
  BY DEF Goto, TypeOK, States
<1>2. TypeOK'
  BY <1>1, ReportKeeps DEF TypeOK
<1>3. OneShot'
  <2> SUFFICES ASSUME NEW q \in Procs
               PROVE  /\ state'[q] \in {"reports", "execs", "exits"} => made[q] > 0
                      /\ state'[q] = "reports" => posted'[Latest(q)] = 0
                      /\ state'[q] = "execs" => posted'[Latest(q)] <= 1
                      /\ state'[q] = "spawned" => cached[q] # None /\ cached[q][1] = q
    BY DEF OneShot, Latest
  <2>1. CASE q = p
    <3>1. CASE at = "execs"
      <4>1. Latest(p) \in Conns
        BY <3>1, LatestIsConn
      <4>2. posted'[Latest(p)] <= 1
        BY <3>1, <4>1, ReportKeeps
      <4> QED
        BY <1>1, <2>1, <3>1, <4>2
    <3> QED
      BY <1>1, <2>1, <3>1
  <2>2. CASE q # p
    <3>1. state'[q] = state[q]
      BY <1>1, <2>2
    <3>2. made[q] > 0 => posted'[Latest(q)] = posted[Latest(q)]
      <4> HAVE made[q] > 0
      <4>1. Latest(q) \in Conns /\ Latest(q)[1] = q
        BY LatestIsConn DEF Latest
      <4> QED
        BY <2>2, <4>1, ReportKeeps
    <3>3. /\ state[q] \in {"reports", "execs", "exits"} => made[q] > 0
          /\ state[q] = "reports" => posted[Latest(q)] = 0
          /\ state[q] = "execs" => posted[Latest(q)] <= 1
          /\ state[q] = "spawned" => cached[q] # None /\ cached[q][1] = q
      BY DEF OneShot
    <3> QED
      BY <3>1, <3>2, <3>3
  <2> QED
    BY <2>1, <2>2
<1> QED
  BY <1>2, <1>3, ReportKeeps

\* The end of an exec(): its report joins what led to the image.
LEMMA RealExecInv ==
  ASSUME TreeInv, NEW p \in Procs, RealExec(p)
  PROVE  TreeInv'
<1> USE DEF TreeInv
<1> DEFINE report == {<<c, posted[c]>> : c \in {d \in {Latest(p)} : posted[d] > 0}}
<1>1. /\ state[p] = "execs"
      /\ Goto(p, "runs")
      /\ cached' = [cached EXCEPT ![p] = None] \/ cached' = cached
      /\ lineage' = [lineage EXCEPT ![p] = @ \cup report] \/ lineage' = lineage
      /\ unreported' \subseteq unreported \cup {p}
      /\ call' = [call EXCEPT ![p] = NoCall]
      /\ UNCHANGED <<made, before, chanVars>>
  BY DEF RealExec
<1>2. /\ state' \in [Procs -> States]
      /\ state'[p] = "runs"
      /\ \A q \in Procs \ {p} : state'[q] = state[q]
  BY <1>1 DEF Goto, TypeOK, States
<1>3. Latest(p) \in Conns /\ posted[Latest(p)] \in Nat /\ posted[Latest(p)] <= 1
  BY <1>1, LatestIsConn DEF OneShot, TypeOK
<1>4. /\ report \subseteq Reports
      /\ \A r \in report : r[2] = 1 /\ posted[r[1]] > 0
  BY <1>3 DEF Reports
<1>5. TypeOK'
  <2>1. cached' \in [Procs -> Conns \cup {None}]
    BY <1>1 DEF TypeOK
  <2>2. \A q \in Procs : cached'[q] # None => cached'[q] = cached[q]
    BY <1>1 DEF TypeOK
  <2>3. lineage' \in [Procs -> SUBSET Reports]
    BY <1>1, <1>4, ZenonT(40) DEF TypeOK
  <2>4. call' \in [Procs -> Names]
    BY <1>1 DEF TypeOK, Names, NoCall
  <2> QED
    BY <1>1, <1>2, <2>1, <2>2, <2>3, <2>4 DEF TypeOK
<1>6. OneShot'
  <2>1. \A q \in Procs \ {p} : cached'[q] = cached[q]
    BY <1>1 DEF TypeOK
  <2> QED
    BY <1>1, <1>2, <2>1 DEF OneShot, Latest
<1>7. Lineages'
  <2>1. \A q \in Procs : \A r \in lineage'[q] : r \in lineage[q] \/ r \in report
    BY <1>1 DEF TypeOK
  <2> QED
    BY <1>1, <1>4, <2>1 DEF Lineages
<1>8. Ordered'
  BY <1>1, QuietlyOrdered
<1> QED
  BY <1>5, <1>6, <1>7, <1>8

\* posix_spawn() itself.
LEMMA SpawnInv ==
  ASSUME TreeInv, NEW p \in Procs, NEW q \in Procs, NEW n \in Names, Spawn(p, q, n)
  PROVE  TreeInv'
<1> USE DEF TreeInv
<1>1. /\ cached[p] # None /\ cached[p][1] = p
      /\ call' = [call EXCEPT ![p] = n]
      /\ \/ /\ state' = [state EXCEPT ![p] = "spawned", ![q] = "runs"]
            /\ lineage' = [lineage EXCEPT ![q] = lineage[p]]
         \/ /\ state' = [state EXCEPT ![p] = "spawned"]
            /\ lineage' = lineage
      /\ unreported' \subseteq unreported \cup {q}
      /\ UNCHANGED <<made, cached, before, chanVars>>
  BY DEF Spawn, Goto
<1>2. TypeOK'
  <2>1. state' \in [Procs -> States]
    BY <1>1 DEF TypeOK, States
  <2>2. lineage' \in [Procs -> SUBSET Reports]
    BY <1>1 DEF TypeOK
  <2> QED
    BY <1>1, <2>1, <2>2 DEF TypeOK
<1>3. OneShot'
  <2>1. \A r \in Procs : \/ state'[r] = state[r]
                         \/ state'[r] = "runs"
                         \/ r = p /\ state'[r] = "spawned"
    BY <1>1 DEF TypeOK
  <2> QED
    BY <1>1, <2>1 DEF OneShot, Latest
<1>4. Lineages'
  <2>1. \A r \in Procs : lineage'[r] = lineage[r] \/ lineage'[r] = lineage[p]
    BY <1>1 DEF TypeOK
  <2> QED
    BY <1>1, <2>1 DEF Lineages
<1>5. Ordered'
  BY <1>1, QuietlyOrdered
<1> QED
  BY <1>2, <1>3, <1>4, <1>5

\* fork()
LEMMA ForkInv ==
  ASSUME TreeInv, NEW p \in Procs, NEW q \in Procs, Fork(p, q)
  PROVE  TreeInv'
<1> USE DEF TreeInv
<1>1. /\ state' = [state EXCEPT ![q] = "runs"]
      /\ cached' = [cached EXCEPT ![q] = cached[p]]
      /\ lineage' = [lineage EXCEPT ![q] = lineage[p]]
      /\ unreported' \subseteq unreported \cup {q}
      /\ UNCHANGED <<call, made, before, chanVars>>
  BY DEF Fork, Goto
<1>2. /\ \A r \in Procs : state'[r] = "runs" \/ (state'[r] = state[r] /\ cached'[r] = cached[r])
      /\ \A r \in Procs : cached'[r] = cached[r] \/ cached'[r] = cached[p]
      /\ \A r \in Procs : lineage'[r] = lineage[r] \/ lineage'[r] = lineage[p]
  <2>1. /\ state'[q] = "runs" /\ cached'[q] = cached[p] /\ lineage'[q] = lineage[p]
        /\ \A r \in Procs \ {q} : /\ state'[r] = state[r]
                                  /\ cached'[r] = cached[r]
                                  /\ lineage'[r] = lineage[r]
    BY <1>1 DEF TypeOK
  <2>2. ASSUME NEW r \in Procs
        PROVE  /\ state'[r] = "runs" \/ (state'[r] = state[r] /\ cached'[r] = cached[r])
               /\ cached'[r] = cached[r] \/ cached'[r] = cached[p]
               /\ lineage'[r] = lineage[r] \/ lineage'[r] = lineage[p]
    <3>1. CASE r = q
      BY <2>1, <3>1
    <3>2. CASE r # q
      BY <2>1, <3>2
    <3> QED
      BY <3>1, <3>2
  <2> QED
    BY <2>2
<1>3. TypeOK'
  <2>1. state' \in [Procs -> States]
    BY <1>1 DEF TypeOK, States
  <2>2. /\ cached' \in [Procs -> Conns \cup {None}]
        /\ lineage' \in [Procs -> SUBSET Reports]
    BY <1>1 DEF TypeOK
  <2>3. \A r \in Procs : cached'[r] # None => cached'[r][2] <= made'[cached'[r][1]]
    BY <1>1, <1>2 DEF TypeOK
  <2> QED
    BY <1>1, <2>1, <2>2, <2>3 DEF TypeOK
<1>4. OneShot'
  BY <1>1, <1>2 DEF OneShot, Latest
<1>5. Lineages'
  BY <1>1, <1>2 DEF Lineages
<1>6. Ordered'
  BY <1>1, QuietlyOrdered
<1> QED
  BY <1>3, <1>4, <1>5, <1>6

\* The end of a process by a signal.
LEMMA DieInv ==
  ASSUME TreeInv, NEW p \in Procs, Die(p)
  PROVE  TreeInv'
<1> USE DEF TreeInv
<1>1. /\ state' = [state EXCEPT ![p] = "ended"]
      /\ call' = [call EXCEPT ![p] = NoCall]
      /\ UNCHANGED <<made, cached, historyVars, chanVars>>
  BY DEF Die, Goto
<1>2. TypeOK'
  <2>1. state' \in [Procs -> States]
    BY <1>1 DEF TypeOK, States
  <2>2. call' \in [Procs -> Names]
    BY <1>1 DEF TypeOK, Names, NoCall
  <2> QED
    BY <1>1, <2>1, <2>2 DEF TypeOK
<1>3. OneShot'
  <2>1. \A r \in Procs : state'[r] = "ended" \/ state'[r] = state[r]
    BY <1>1 DEF TypeOK
  <2> QED
    BY <1>1, <2>1 DEF OneShot, Latest
<1>4. Lineages'
  BY <1>1 DEF Lineages
<1>5. Ordered'
  BY <1>1, QuietlyOrdered
<1> QED
  BY <1>2, <1>3, <1>4, <1>5

\* A callback: the first one on a connection comes after those it waits for.
LEMMA CallbackInv ==
  ASSUME TreeInv, NEW c \in Conns, Callback(c)
  PROVE  TreeInv'
<1> USE DEF TreeInv
<1> DEFINE n == Channel!Delivered(c)
<1>1. /\ n < posted[c]
      /\ \A d \in seen[c] : Channel!Delivered(d) > 0 \/ d \in lost
      /\ log' = Append(log, <<c, n + 1>>)
      /\ UNCHANGED <<posted, seen, lost, over, procVars>>
  BY DEF Callback, Channel!Deliver
<1>2. n \in Nat
  BY DeliveredCounts
<1>3. TypeOK'
  <2>1. log' \in Seq(Conns \X (Nat \ {0}))
    BY <1>1, <1>2 DEF TypeOK
  <2> QED
    BY <1>1, <2>1 DEF TypeOK
<1>4. OneShot'
  BY <1>1 DEF OneShot, Latest
<1>5. Lineages'
  BY <1>1 DEF Lineages
<1>6. Ordered'
  <2> DEFINE m == Len(log) + 1
  <2>1. /\ DOMAIN log = 1..Len(log) /\ Len(log) \in Nat
        /\ DOMAIN log' = 1..m
        /\ \A i \in 1..Len(log) : log'[i] = log[i]
        /\ log'[m] = <<c, n + 1>>
    BY <1>1 DEF TypeOK
  <2>2. \A i \in 1..m : posted[log'[i][1]] > 0
    <3>1. posted[c] > 0
      BY <1>1, <1>2 DEF TypeOK
    <3>2. \A i \in 1..Len(log) : posted[log[i][1]] > 0
      BY <2>1 DEF Ordered
    <3> QED
      BY <2>1, <3>1, <3>2
  <2>3. \A i \in 1..m : \E j \in 1..i : log'[j] = <<log'[i][1], 1>>
    <3>1. ASSUME NEW i \in 1..Len(log)
          PROVE  \E j \in 1..i : log'[j] = <<log'[i][1], 1>>
      <4>1. PICK j \in 1..i : log[j] = <<log[i][1], 1>>
        BY <2>1 DEF Ordered
      <4> QED
        BY <2>1, <4>1
    <3>2. \E j \in 1..m : log'[j] = <<c, 1>>
      <4>1. CASE n = 0
        BY <2>1, <4>1
      <4>2. CASE n > 0
        <5>1. PICK j \in 1..Len(log) : log[j] = <<c, 1>>
          BY <4>2, FirstWasDelivered
        <5> QED
          BY <2>1, <5>1
      <4> QED
        BY <1>2, <4>1, <4>2
    <3> TAKE i \in 1..m
    <3>3. CASE i = m
      BY <2>1, <3>2, <3>3
    <3>4. CASE i # m
      <4>1. i \in 1..Len(log)
        BY <2>1, <3>4
      <4> QED
        BY <3>1, <4>1
    <3> QED
      BY <3>3, <3>4
  <2>4. \A i \in 1..m : \A d \in seen[log'[i][1]] :
           d \in lost \/ \E j \in 1..i - 1 : log'[j] = <<d, 1>>
    <3>1. ASSUME NEW i \in 1..Len(log), NEW d \in seen[log[i][1]], d \notin lost
          PROVE  \E j \in 1..i - 1 : log'[j] = <<d, 1>>
      <4>1. PICK j \in 1..i - 1 : log[j] = <<d, 1>>
        BY <2>1, <3>1 DEF Ordered
      <4> QED
        BY <2>1, <4>1
    <3>2. ASSUME NEW d \in seen[c], d \notin lost
          PROVE  \E j \in 1..m - 1 : log'[j] = <<d, 1>>
      <4>1. d \in Conns /\ Channel!Delivered(d) > 0
        BY <1>1, <3>2 DEF TypeOK
      <4>2. PICK j \in 1..Len(log) : log[j] = <<d, 1>>
        BY <4>1, FirstWasDelivered
      <4> QED
        BY <2>1, <4>2
    <3> TAKE i \in 1..m
    <3> TAKE d \in seen[log'[i][1]]
    <3>3. CASE i = m
      <4>1. d \in seen[c]
        BY <2>1, <3>3
      <4> QED
        BY <3>2, <3>3, <4>1
    <3>4. CASE i # m
      <4>1. i \in 1..Len(log) /\ log'[i] = log[i]
        BY <2>1, <3>4
      <4> QED
        BY <3>1, <4>1
    <3> QED
      BY <3>3, <3>4
  <2> QED
    BY <1>1, <2>1, <2>2, <2>3, <2>4, ZenonT(40) DEF Ordered
<1> QED
  BY <1>3, <1>4, <1>5, <1>6

\* The server giving up connections, or stopping.
LEMMA ServerEndsInv ==
  ASSUME TreeInv, Lose \/ Stop
  PROVE  TreeInv'
<1> USE DEF TreeInv
<1>1. /\ lost \subseteq lost' /\ lost' \subseteq Conns /\ over' \in BOOLEAN
      /\ UNCHANGED <<posted, seen, log, procVars>>
  BY DEF Lose, Stop, Channel!Lose, Channel!Stop, TypeOK
<1>2. TypeOK'
  BY <1>1 DEF TypeOK
<1>3. OneShot' /\ Lineages'
  BY <1>1 DEF OneShot, Latest, Lineages
<1>4. Ordered'
  <2>1. \A c \in Conns : posted'[c] >= posted[c] /\ posted'[c] \in Nat
    BY <1>1 DEF TypeOK
  <2> QED
    BY <1>1, <2>1, StaysOrdered
<1> QED
  BY <1>2, <1>3, <1>4

-----------------------------------------------------------------------------
(* The theorems. *)

\* Every step keeps the invariant.
LEMMA StepTreeInv == TreeInv /\ [Next]_vars => TreeInv'
<1> SUFFICES ASSUME TreeInv, [Next]_vars
             PROVE  TreeInv'
  OBVIOUS
<1> USE DEF TreeInv
<1>1. ASSUME NEW p \in Procs, NEW n \in Names, Exec(p, n)
      PROVE  TreeInv'
  BY <1>1, BeginReportInv DEF Exec, TypeOK
<1>2. ASSUME NEW p \in Procs, Exit(p)
      PROVE  TreeInv'
  BY <1>2, BeginReportInv DEF Exit, TypeOK
<1>3. ASSUME NEW p \in Procs, ReportExec(p)
      PROVE  TreeInv'
  <2>1. made[p] > 0 /\ posted[Latest(p)] = 0
    BY <1>3 DEF ReportExec, OneShot
  <2>2. Latest(p) \in Conns /\ Latest(p)[1] = p
    BY <2>1, LatestIsConn DEF Latest
  <2> QED
    BY <1>3, <2>1, <2>2, ReportInv DEF ReportExec, TypeOK
<1>4. ASSUME NEW p \in Procs, ReportExit(p)
      PROVE  TreeInv'
  <2>1. made[p] > 0
    BY <1>4 DEF ReportExit, OneShot
  <2>2. Latest(p) \in Conns /\ Latest(p)[1] = p
    BY <2>1, LatestIsConn DEF Latest
  <2> QED
    BY <1>4, <2>2, ReportInv DEF ReportExit, TypeOK
<1>5. ASSUME NEW p \in Procs, ReportSpawn(p)
      PROVE  TreeInv'
  <2>1. cached[p] \in Conns /\ cached[p][1] = p
    BY <1>5 DEF ReportSpawn, OneShot, TypeOK
  <2>2. call' \in [Procs -> Names]
    BY <1>5 DEF ReportSpawn, TypeOK, Names, NoCall
  <2> QED
    BY <1>5, <2>1, <2>2, ReportInv DEF ReportSpawn
<1>6. CASE UNCHANGED vars
  <2>1. TypeOK'
    BY <1>6 DEF vars, TypeOK
  <2>2. OneShot' /\ Lineages'
    BY <1>6 DEF vars, OneShot, Latest, Lineages
  <2>3. Ordered'
    BY <1>6, QuietlyOrdered DEF vars
  <2> QED
    BY <2>1, <2>2, <2>3
<1>7. ASSUME NEW p \in Procs, ProcStep(p)
      PROVE  TreeInv'
  BY <1>1, <1>2, <1>3, <1>4, <1>5, <1>7, RealExecInv, InitSpawnInv, SpawnInv, ForkInv, DieInv
     DEF ProcStep
<1> QED
  BY <1>6, <1>7, CallbackInv, ServerEndsInv DEF Next

\* The inductive invariant holds in every reachable state.
THEOREM LineagesInOrder == Spec => []TreeInv
<1> QED
  BY InitTreeInv, StepTreeInv, PTL DEF Spec

\* Every variable keeps its type, and posix_spawn() never writes on a connection
\* that was not made.
THEOREM TreeTypeCorrect == Spec => []TypeOK
<1>1. TreeInv => TypeOK
  BY DEF TreeInv
<1> QED
  BY <1>1, LineagesInOrder, PTL

\* No program is heard of before every reported exec() that led to it, over any
\* number of processes and generations.
THEOREM HeardAfterItsLineage == Spec => []LineageFirst
<1>1. ASSUME TreeInv
      PROVE  LineageFirst
  <2> SUFFICES ASSUME NEW i \in DOMAIN log, NEW r \in before[log[i][1]], r[1] \notin lost
               PROVE  \E j \in 1..i - 1 : log[j] = r
    BY DEF LineageFirst
  <2>1. log[i][1] \in Conns
    BY <1>1 DEF TreeInv, TypeOK
  <2>2. r \in Reports
    BY <1>1, <2>1 DEF TreeInv, TypeOK
  <2>3. r[2] = 1 /\ r[1] \in seen[log[i][1]]
    BY <1>1, <2>1 DEF TreeInv, Lineages
  <2>4. r = <<r[1], 1>>
    BY <2>2, <2>3 DEF Reports
  <2>5. PICK j \in 1..i - 1 : log[j] = <<r[1], 1>>
    BY <1>1, <2>3 DEF TreeInv, Ordered
  <2> QED
    BY <2>4, <2>5
<1> QED
  BY <1>1, LineagesInOrder, PTL
===============================================================================
