----------------------------- MODULE LaunchProofs -----------------------------
(***************************************************************************)
(* Proofs about Launch, for any number of processes, contexts and          *)
(* environments.                                                           *)
(***************************************************************************)
EXTENDS LaunchInvariants, FiniteSetTheorems, SequenceTheorems, TLAPS

-----------------------------------------------------------------------------
(* What getenv() finds. *)

\* A set of places has a first one.
LEMMA FirstOf ==
  ASSUME NEW S \in SUBSET Nat, S # {}
  PROVE  First(S) \in S /\ \A j \in S : First(S) <= j
<1> DEFINE T == {0 .. x : x \in S}
<1>1. \A x \in S : 0 .. x \in FiniteSubsetsOf(Nat)
  <2> SUFFICES ASSUME NEW x \in S PROVE 0 .. x \in FiniteSubsetsOf(Nat)
    OBVIOUS
  <2>1. IsFiniteSet(0 .. x)
    BY FS_Interval
  <2> QED
    BY <2>1 DEF FiniteSubsetsOf
<1>2. T \subseteq FiniteSubsetsOf(Nat) /\ T # {}
  BY <1>1
<1>3. PICK t \in T : \A u \in T : ~(<<u, t>> \in StrictSubsetOrdering(Nat))
  <2> HIDE DEF T
  <2> QED
    BY <1>2, FS_StrictSubsetOrderingWellFounded, WFMin
<1>4. PICK x \in S : t = 0 .. x
  OBVIOUS
<1>5. ASSUME NEW y \in S, y < x PROVE FALSE
  <2>1. 0 .. y \in T
    OBVIOUS
  <2>2. 0 .. y \subseteq 0 .. x /\ x \in 0 .. x /\ x \notin 0 .. y
    BY <1>5
  <2>3. <<0 .. y, 0 .. x>> \in StrictSubsetOrdering(Nat)
    BY <2>2 DEF StrictSubsetOrdering
  <2> QED
    BY <1>3, <1>4, <2>1, <2>3
<1>6. \A y \in S : x <= y
  BY <1>5
<1> QED
  BY <1>6 DEF First

\* And only one.
LEMMA FirstIs ==
  ASSUME NEW S \in SUBSET Nat, NEW x \in S, \A j \in S : x <= j
  PROVE  First(S) = x
<1>1. First(S) \in S /\ \A j \in S : First(S) <= j
  BY FirstOf
<1>2. First(S) \in Nat /\ x \in Nat /\ First(S) <= x /\ x <= First(S)
  BY <1>1
<1> QED
  BY <1>2

\* Where a variable is in an environment, and which of its places getenv() takes.
LEMMA NamedIn ==
  ASSUME NEW V, NEW e \in Seq(V), NEW name
  PROVE  /\ Named(e, name) \in SUBSET (1 .. Len(e)) /\ Named(e, name) \in SUBSET Nat
         /\ \A i \in Named(e, name) : i \in 1 .. Len(e) /\ e[i] \in V /\ e[i].name = name
         /\ Named(e, name) # {} => First(Named(e, name)) \in Named(e, name)
<1>1. DOMAIN e = 1 .. Len(e) /\ Len(e) \in Nat /\ \A i \in 1 .. Len(e) : e[i] \in V
  BY LenProperties, ElementOfSeq
<1>2. Named(e, name) \in SUBSET Nat
  BY <1>1 DEF Named
<1> QED
  BY <1>1, <1>2, FirstOf DEF Named

\* A program that is given more variables finds the old ones first.
LEMMA Appended ==
  ASSUME NEW V, NEW e \in Seq(V), NEW n \in Seq(V), NEW name
  PROVE  /\ e \o n \in Seq(V)
         /\ Named(e, name) \subseteq Named(e \o n, name)
         /\ \A i \in Named(n, name) : Len(e) + i \in Named(e \o n, name) \ Named(e, name)
         /\ \A i \in Named(e \o n, name) : i \in Named(e, name) \/ (i > Len(e) /\ i - Len(e) \in Named(n, name))
         /\ Named(e, name) # {} => Getenv(e \o n, name) = Getenv(e, name)
         /\ Named(e, name) = {} /\ Named(n, name) # {} => Getenv(e \o n, name) = Getenv(n, name)
<1>1. /\ e \o n \in Seq(V) /\ Len(e \o n) = Len(e) + Len(n)
      /\ \A i \in 1 .. Len(e) + Len(n) : (e \o n)[i] = IF i <= Len(e) THEN e[i] ELSE n[i - Len(e)]
  BY ConcatProperties
<1>2. /\ DOMAIN (e \o n) = 1 .. Len(e) + Len(n) /\ DOMAIN e = 1 .. Len(e) /\ DOMAIN n = 1 .. Len(n)
      /\ Len(e) \in Nat /\ Len(n) \in Nat
  BY <1>1, LenProperties
<1>3. \A i \in 1 .. Len(e) : (e \o n)[i] = e[i]
  BY <1>1, <1>2
<1>4. \A i \in 1 .. Len(n) : (e \o n)[Len(e) + i] = n[i] /\ Len(e) + i \in 1 .. Len(e) + Len(n)
  BY <1>1, <1>2
<1>5. Named(e, name) \subseteq Named(e \o n, name)
  BY <1>2, <1>3 DEF Named
<1>6. \A i \in Named(n, name) : Len(e) + i \in Named(e \o n, name) \ Named(e, name)
  BY <1>2, <1>4 DEF Named
<1>7. \A i \in Named(e \o n, name) : i \in Named(e, name) \/ (i > Len(e) /\ i - Len(e) \in Named(n, name))
  <2> SUFFICES ASSUME NEW i \in Named(e \o n, name), i \notin Named(e, name)
               PROVE  i > Len(e) /\ i - Len(e) \in Named(n, name)
    OBVIOUS
  <2> QED
    BY <1>1, <1>2, <1>3 DEF Named
<1>8. /\ \A i \in Named(e, name) : (e \o n)[i] = e[i]
      /\ \A i \in Named(n, name) : (e \o n)[Len(e) + i] = n[i]
  BY <1>2, <1>3, <1>4 DEF Named
<1>9. /\ Named(e, name) \in SUBSET (1 .. Len(e)) /\ Named(e, name) \in SUBSET Nat
      /\ Named(n, name) \in SUBSET Nat /\ Named(e \o n, name) \in SUBSET Nat
  <2>1. Named(e, name) \in SUBSET (1 .. Len(e)) /\ Named(e, name) \in SUBSET Nat
    BY NamedIn
  <2>2. Named(n, name) \in SUBSET Nat
    BY NamedIn
  <2>3. Named(e \o n, name) \in SUBSET Nat
    BY <1>1, NamedIn
  <2> QED
    BY <2>1, <2>2, <2>3
<1>10. ASSUME Named(e, name) # {}
       PROVE  Getenv(e \o n, name) = Getenv(e, name)
  <2>1. PICK i \in Named(e, name) : i = First(Named(e, name)) /\ \A j \in Named(e, name) : i <= j
    BY <1>9, <1>10, FirstOf
  <2>2. i \in Named(e \o n, name) /\ \A j \in Named(e \o n, name) : i <= j
    BY <1>2, <1>5, <1>7, <1>9, <2>1
  <2>3. First(Named(e \o n, name)) = i
    BY <1>9, <2>2, FirstIs
  <2> QED
    BY <1>8, <1>10, <2>1, <2>2, <2>3 DEF Getenv
<1>11. ASSUME Named(e, name) = {}, Named(n, name) # {}
       PROVE  Getenv(e \o n, name) = Getenv(n, name)
  <2>1. PICK i \in Named(n, name) : i = First(Named(n, name)) /\ \A j \in Named(n, name) : i <= j
    BY <1>9, <1>11, FirstOf
  <2>2. Len(e) + i \in Named(e \o n, name) /\ \A j \in Named(e \o n, name) : Len(e) + i <= j
    BY <1>2, <1>6, <1>7, <1>9, <1>11, <2>1
  <2>3. First(Named(e \o n, name)) = Len(e) + i
    BY <1>9, <2>2, FirstIs
  <2> QED
    BY <1>8, <1>11, <2>1, <2>2, <2>3 DEF Getenv
<1> QED
  BY <1>1, <1>5, <1>6, <1>7, <1>10, <1>11

\* One variable gets another value.
LEMMA Replaced ==
  ASSUME NEW V, NEW e \in Seq(V), NEW k \in 1 .. Len(e), NEW v \in V, v.name = e[k].name, NEW name
  PROVE  /\ Named([e EXCEPT ![k] = v], name) = Named(e, name)
         /\ name # v.name => Getenv([e EXCEPT ![k] = v], name) = Getenv(e, name)
<1> DEFINE x == [e EXCEPT ![k] = v]
<1>1. /\ x \in Seq(V) /\ Len(x) = Len(e)
      /\ \A j \in 1 .. Len(e) : x[j] = IF j = k THEN v ELSE e[j]
  BY ExceptSeq
<1>2. DOMAIN x = 1 .. Len(e) /\ DOMAIN e = 1 .. Len(e)
  BY <1>1, LenProperties
<1>3. Named(x, name) = Named(e, name)
  BY <1>1, <1>2 DEF Named
<1>4. ASSUME name # v.name
      PROVE  Getenv(x, name) = Getenv(e, name)
  <2>1. CASE Named(e, name) = {}
    BY <1>3, <2>1 DEF Getenv
  <2>2. CASE Named(e, name) # {}
    <3>1. PICK i \in Named(e, name) : i = First(Named(e, name))
      BY <2>2, NamedIn
    <3>2. i \in 1 .. Len(e) /\ e[i].name = name
      BY NamedIn
    <3>3. x[i] = e[i]
      BY <1>1, <1>4, <3>2
    <3>4. Getenv(e, name) = e[i].value
      BY <2>2, <3>1 DEF Getenv
    <3>5. Getenv(x, name) = x[i].value
      BY <1>3, <2>2, <3>1 DEF Getenv
    <3> QED
      BY <3>3, <3>4, <3>5
  <2> QED
    BY <2>1, <2>2
<1> QED
  BY <1>3, <1>4

\* An only LD_PRELOAD is the first and the last.
LEMMA OnePreloaded ==
  ASSUME NEW V, NEW e \in Seq(V), AtMostOne(Named(e, "LD_PRELOAD")), NEW k \in Named(e, "LD_PRELOAD")
  PROVE  /\ Preloaded(e) = e[k].value /\ k \in 1 .. Len(e)
         /\ First(Named(e, "LD_PRELOAD")) = k /\ Last(Named(e, "LD_PRELOAD")) = k
<1>1. Named(e, "LD_PRELOAD") \in SUBSET Nat /\ k \in 1 .. Len(e) /\ Named(e, "LD_PRELOAD") = {k}
  BY NamedIn DEF AtMostOne
<1>2. First({k}) = k
  BY <1>1 DEF First
<1>3. Last({k}) = k
  BY <1>1 DEF Last
<1> QED
  BY <1>1, <1>2, <1>3 DEF Preloaded, Getenv
-----------------------------------------------------------------------------
(* The variables, and sequences of libraries. *)

\* What each variable may hold.
LEMMA Kinds ==
  /\ \A v \in Variables :
        /\ v.name = "LD_PRELOAD" => v.value \in Seq(LibNames)
        /\ v.name = "LIBVOYEUR_LIBS" => v.value \in LibSeqs
        /\ v.name = "LIBVOYEUR_OPTS" => v.value \in OptStrings
        /\ v.name = "LIBVOYEUR_SOCKET" => v.value \in Contexts
  /\ \A s \in Seq(LibNames) : Variable("LD_PRELOAD", s) \in Variables
  /\ \A s \in LibSeqs : Variable("LIBVOYEUR_LIBS", s) \in Variables
  /\ \A s \in OptStrings : Variable("LIBVOYEUR_OPTS", s) \in Variables
  /\ \A c \in Contexts : Variable("LIBVOYEUR_SOCKET", c) \in Variables
<1> DEFINE L == Seq(LibNames)
<1> HIDE DEF L
<1>1. Variables = [name : {"LD_PRELOAD"}, value : L]
                    \cup [name : {"LIBVOYEUR_LIBS"}, value : LibSeqs]
                    \cup [name : {"LIBVOYEUR_OPTS"}, value : OptStrings]
                    \cup [name : {"LIBVOYEUR_SOCKET"}, value : Contexts]
  BY DEF Variables, L
<1>2. \A v \in Variables :
         /\ v.name = "LD_PRELOAD" => v.value \in L
         /\ v.name = "LIBVOYEUR_LIBS" => v.value \in LibSeqs
         /\ v.name = "LIBVOYEUR_OPTS" => v.value \in OptStrings
         /\ v.name = "LIBVOYEUR_SOCKET" => v.value \in Contexts
  BY <1>1
<1>3. /\ \A s \in L : Variable("LD_PRELOAD", s) \in Variables
      /\ \A s \in LibSeqs : Variable("LIBVOYEUR_LIBS", s) \in Variables
      /\ \A s \in OptStrings : Variable("LIBVOYEUR_OPTS", s) \in Variables
      /\ \A c \in Contexts : Variable("LIBVOYEUR_SOCKET", c) \in Variables
  BY <1>1 DEF Variable
<1> QED
  BY <1>2, <1>3 DEF L

\* What getenv() finds is of the kind its name says.
LEMMA FoundTypes ==
  ASSUME NEW e \in Seq(Variables)
  PROVE  /\ Preloaded(e) \in Seq(LibNames)
         /\ Named(e, "LIBVOYEUR_LIBS") # {} => Getenv(e, "LIBVOYEUR_LIBS") \in LibSeqs
         /\ Named(e, "LIBVOYEUR_OPTS") # {} => Getenv(e, "LIBVOYEUR_OPTS") \in OptStrings
         /\ Named(e, "LIBVOYEUR_SOCKET") # {} => Getenv(e, "LIBVOYEUR_SOCKET") \in Contexts
<1>1. ASSUME NEW n, Named(e, n) # {}
      PROVE  \E v \in Variables : v.name = n /\ Getenv(e, n) = v.value
  <2>1. PICK i \in Named(e, n) : i = First(Named(e, n)) /\ e[i] \in Variables /\ e[i].name = n
    BY <1>1, NamedIn
  <2> QED
    BY <1>1, <2>1 DEF Getenv
<1>2. <<>> \in Seq(LibNames)
  BY EmptySeq
<1>3. Preloaded(e) \in Seq(LibNames)
  <2>1. CASE Named(e, "LD_PRELOAD") = {}
    BY <1>2, <2>1 DEF Preloaded
  <2>2. CASE Named(e, "LD_PRELOAD") # {}
    <3>1. PICK v \in Variables : v.name = "LD_PRELOAD" /\ Getenv(e, "LD_PRELOAD") = v.value
      BY <1>1, <2>2
    <3>2. v.value \in Seq(LibNames)
      BY <3>1, Kinds
    <3> QED
      BY <2>2, <3>1, <3>2 DEF Preloaded
  <2> QED
    BY <2>1, <2>2
<1>4. Named(e, "LIBVOYEUR_LIBS") # {} => Getenv(e, "LIBVOYEUR_LIBS") \in LibSeqs
  BY <1>1, Kinds
<1>5. Named(e, "LIBVOYEUR_OPTS") # {} => Getenv(e, "LIBVOYEUR_OPTS") \in OptStrings
  BY <1>1, Kinds
<1>6. Named(e, "LIBVOYEUR_SOCKET") # {} => Getenv(e, "LIBVOYEUR_SOCKET") \in Contexts
  BY <1>1, Kinds
<1> QED
  BY <1>3, <1>4, <1>5, <1>6

\* The members of a concatenation.
LEMMA ItemsOfConcat ==
  ASSUME NEW V, NEW s \in Seq(V), NEW t \in Seq(V)
  PROVE  ItemsOf(s \o t) = ItemsOf(s) \cup ItemsOf(t)
<1>1. Range(s \o t) = Range(s) \cup Range(t)
  BY RangeConcatenation
<1> QED
  BY <1>1, Zenon DEF Range, ItemsOf

\* strnstr(): a sequence that is found in another has its members there.
LEMMA WithinItems ==
  ASSUME NEW V, NEW s \in Seq(V), NEW t \in Seq(V), Within(s, t)
  PROVE  ItemsOf(s) \subseteq ItemsOf(t)
<1>1. /\ Len(s) \in Nat /\ DOMAIN s = 1 .. Len(s)
      /\ Len(t) \in Nat /\ DOMAIN t = 1 .. Len(t) /\ \A j \in 1 .. Len(t) : t[j] \in V
  BY LenProperties, ElementOfSeq
<1>2. PICK i \in 0 .. (Len(t) - Len(s)) : SubSeq(t, i + 1, i + Len(s)) = s
  BY DEF Within
<1>3. \A j \in (i + 1) .. (i + Len(s)) : t[j] \in V
  BY <1>1, <1>2
<1>4. \A j \in 1 .. (i + Len(s)) - (i + 1) + 1 : SubSeq(t, i + 1, i + Len(s))[j] = t[(i + 1) + j - 1]
  BY <1>1, <1>2, <1>3, SubSeqProperties
<1>5. \A j \in 1 .. Len(s) : s[j] = t[i + j] /\ i + j \in 1 .. Len(t)
  BY <1>1, <1>2, <1>4
<1> QED
  BY <1>1, <1>5 DEF ItemsOf

\* The copy of a value that fits is the value; otherwise it is a prefix.
LEMMA CopiedOf ==
  ASSUME NEW V, NEW s \in Seq(V)
  PROVE  /\ Copied(s) \in Seq(V)
         /\ ItemsOf(Copied(s)) \subseteq ItemsOf(s)
         /\ Len(s) <= CopyRoom \/ Len(Copied(s)) < CopyRoom => Copied(s) = s
<1>1. /\ Len(s) \in Nat /\ DOMAIN s = 1 .. Len(s) /\ \A j \in 1 .. Len(s) : s[j] \in V
      /\ CopyRoom \in Nat
  BY LenProperties, ElementOfSeq, LaunchAssumption
<1>2. CASE Len(s) <= CopyRoom
  BY <1>2, Zenon DEF Copied
<1>3. CASE ~(Len(s) <= CopyRoom)
  <2>1. \A i \in 1 .. CopyRoom : s[i] \in V
    BY <1>1, <1>3
  <2>2. /\ SubSeq(s, 1, CopyRoom) \in Seq(V)
        /\ Len(SubSeq(s, 1, CopyRoom)) = (IF 1 <= CopyRoom THEN CopyRoom - 1 + 1 ELSE 0)
        /\ \A i \in 1 .. CopyRoom - 1 + 1 : SubSeq(s, 1, CopyRoom)[i] = s[1 + i - 1]
    BY <1>1, <2>1, SubSeqProperties
  <2>3. PICK t \in Seq(V) : t = SubSeq(s, 1, CopyRoom)
    BY <2>2
  <2>4. Len(t) = CopyRoom /\ (\A i \in 1 .. CopyRoom : t[i] = s[i]) /\ DOMAIN t = 1 .. CopyRoom
    BY <1>1, <2>2, <2>3, LenProperties
  <2>5. ItemsOf(t) \subseteq ItemsOf(s)
    BY <1>1, <1>3, <2>4 DEF ItemsOf
  <2>6. Copied(s) = t
    BY <1>3, <2>3, Zenon DEF Copied
  <2> QED
    BY <1>1, <1>3, <2>4, <2>5, <2>6
<1> QED
  BY <1>2, <1>3

-----------------------------------------------------------------------------
(* voyeur_augment_environment() *)

\* An environment of one variable.
LEMMA OneVariable ==
  ASSUME NEW v
  PROVE  /\ Named(<<v>>, v.name) = {1} /\ Getenv(<<v>>, v.name) = v.value
         /\ \A name : name # v.name => Named(<<v>>, name) = {}
<1>1. Named(<<v>>, v.name) = {1} /\ \A name : name # v.name => Named(<<v>>, name) = {}
  BY DEF Named
<1>2. First({1}) = 1
  BY DEF First
<1> QED
  BY <1>1, <1>2 DEF Getenv

\* The variables that are appended.
LEMMA ThreeVariables ==
  ASSUME NEW g \in Groups
  PROVE  /\ Three(g) \in Seq(Variables)
         /\ Named(Three(g), "LD_PRELOAD") = {}
         /\ Named(Three(g), "LIBVOYEUR_LIBS") = {1} /\ Getenv(Three(g), "LIBVOYEUR_LIBS") = g.libs
         /\ Named(Three(g), "LIBVOYEUR_OPTS") = {2} /\ Getenv(Three(g), "LIBVOYEUR_OPTS") = g.os
         /\ Named(Three(g), "LIBVOYEUR_SOCKET") = {3} /\ Getenv(Three(g), "LIBVOYEUR_SOCKET") = g.sock
<1>1. g.libs \in LibSeqs /\ g.os \in OptStrings /\ g.sock \in Contexts
  BY DEF Groups
<1>2. /\ Variable("LIBVOYEUR_LIBS", g.libs) \in Variables
      /\ Variable("LIBVOYEUR_OPTS", g.os) \in Variables
      /\ Variable("LIBVOYEUR_SOCKET", g.sock) \in Variables
  BY <1>1, Kinds
<1>3. PICK a \in Variables, b \in Variables, c \in Variables :
         /\ a = Variable("LIBVOYEUR_LIBS", g.libs) /\ b = Variable("LIBVOYEUR_OPTS", g.os)
         /\ c = Variable("LIBVOYEUR_SOCKET", g.sock)
  BY <1>2
<1>4. Three(g) = <<a, b, c>>
  BY <1>3 DEF Three
<1>5. /\ a.name = "LIBVOYEUR_LIBS" /\ a.value = g.libs /\ b.name = "LIBVOYEUR_OPTS" /\ b.value = g.os
      /\ c.name = "LIBVOYEUR_SOCKET" /\ c.value = g.sock
  BY <1>3 DEF Variable
<1>6. Three(g) \in Seq(Variables)
  BY <1>4
<1>7. /\ Named(Three(g), "LD_PRELOAD") = {}
      /\ Named(Three(g), "LIBVOYEUR_LIBS") = {1}
      /\ Named(Three(g), "LIBVOYEUR_OPTS") = {2}
      /\ Named(Three(g), "LIBVOYEUR_SOCKET") = {3}
  BY <1>4, <1>5 DEF Named
<1>8. First({1}) = 1 /\ First({2}) = 2 /\ First({3}) = 3
  BY DEF First
<1>9. Three(g)[1].value = g.libs /\ Three(g)[2].value = g.os /\ Three(g)[3].value = g.sock
  BY <1>4, <1>5
<1>10. \A n : Named(Three(g), n) # {} => Getenv(Three(g), n) = Three(g)[First(Named(Three(g), n))].value
  BY DEF Getenv
<1> QED
  BY <1>6, <1>7, <1>8, <1>9, <1>10, ZenonT(40)

\* LD_PRELOAD keeps its libraries and gets those of the group, if there is room.
LEMMA Prefixing ==
  ASSUME NEW libs \in Seq(LibNames), NEW old \in Seq(LibNames)
  PROVE  /\ Prefixed(libs, old) \in Seq(LibNames)
         /\ ItemsOf(old) \subseteq ItemsOf(Prefixed(libs, old))
         /\ ItemsOf(Prefixed(libs, old)) \subseteq ItemsOf(libs) \cup ItemsOf(old)
         /\ \/ ItemsOf(libs) \subseteq ItemsOf(Prefixed(libs, old))
            \/ Prefixed(libs, old) = old /\ Len(libs) + Len(old) > CheckRoom
         /\ Len(Prefixed(libs, old)) <= Len(libs) + Len(old)
<1>1. /\ libs \o old \in Seq(LibNames) /\ ItemsOf(libs \o old) = ItemsOf(libs) \cup ItemsOf(old)
      /\ Len(libs \o old) = Len(libs) + Len(old)
  BY ConcatProperties, ItemsOfConcat
<1>2. Within(libs, old) => ItemsOf(libs) \subseteq ItemsOf(old)
  BY WithinItems
<1>3. Prefixed(libs, old) = libs \o old \/
      (Prefixed(libs, old) = old /\ (Within(libs, old) \/ ~(Len(libs) + Len(old) <= CheckRoom)))
  BY Zenon DEF Prefixed
<1>4. Len(libs) \in Nat /\ Len(old) \in Nat /\ CheckRoom \in Nat
  BY LenProperties, LaunchAssumption
<1>5. CASE Prefixed(libs, old) = libs \o old
  <2>1. Len(libs \o old) <= Len(libs) + Len(old)
    BY <1>1, <1>4
  <2> QED
    BY <1>1, <1>5, <2>1, Zenon
<1>6. Len(old) <= Len(libs) + Len(old)
  BY <1>4
<1>7. CASE Prefixed(libs, old) = old /\ Within(libs, old)
  BY <1>2, <1>6, <1>7, Zenon
<1>8. CASE Prefixed(libs, old) = old /\ ~(Len(libs) + Len(old) <= CheckRoom)
  <2>1. Len(libs) + Len(old) > CheckRoom
    BY <1>4, <1>8
  <2> QED
    BY <1>6, <1>8, <2>1, Zenon
<1> QED
  BY <1>3, <1>5, <1>7, <1>8, Zenon

\* voyeur_augment_environment(): what getenv() finds afterwards.
LEMMA Extending ==
  ASSUME NEW e \in Seq(Variables), AtMostOne(Named(e, "LD_PRELOAD")), NEW g \in Groups,
         NEW x, x = voyeur_augment_environment(e, g.libs, g.os, g.sock)
  PROVE  /\ x \in Seq(Variables)
         /\ AtMostOne(Named(x, "LD_PRELOAD"))
         /\ Preloaded(x) = Copied(Prefixed(g.libs, Preloaded(e)))
         /\ \A n \in {"LIBVOYEUR_LIBS", "LIBVOYEUR_OPTS", "LIBVOYEUR_SOCKET"} :
               /\ Named(x, n) # {}
               /\ Getenv(x, n) = IF Named(e, n) = {} THEN Getenv(Three(g), n) ELSE Getenv(e, n)
         /\ AtMostOne(Named(x, "LIBVOYEUR_SOCKET")) => Named(e, "LIBVOYEUR_SOCKET") = {}
<1> DEFINE new == Three(g)
           pre == Variable("LD_PRELOAD", Copied(Prefixed(g.libs, Preloaded(e))))
<1>1. new \in Seq(Variables) /\ Named(new, "LD_PRELOAD") = {}
      /\ \A n \in {"LIBVOYEUR_LIBS", "LIBVOYEUR_OPTS", "LIBVOYEUR_SOCKET"} : Named(new, n) # {}
      /\ 3 \in Named(new, "LIBVOYEUR_SOCKET")
  BY ThreeVariables
<1>2. pre \in Variables
  <2>1. g.libs \in Seq(LibNames)
    <3>1. g.libs \in Seq(Events) /\ Events \subseteq LibNames
      BY DEF Groups, LibSeqs, LibNames
    <3> QED
      BY <3>1, SeqMonotonic
  <2>2. Prefixed(g.libs, Preloaded(e)) \in Seq(LibNames)
    BY <2>1, FoundTypes, Prefixing
  <2>3. Copied(Prefixed(g.libs, Preloaded(e))) \in Seq(LibNames)
    BY <2>2, CopiedOf
  <2> QED
    BY <2>3, Kinds
<1>3. pre.name = "LD_PRELOAD" /\ pre.value = Copied(Prefixed(g.libs, Preloaded(e)))
  BY DEF Variable
<1>4. Len(e) \in Nat
  BY LenProperties
<1> HIDE DEF new, pre
<1>5. CASE Named(e, "LD_PRELOAD") = {}
  <2>1. x = e \o new \o <<pre>>
    BY <1>5 DEF voyeur_augment_environment, Extended, Three, Prefixed, Preloaded, new, pre
  <2>2. PICK y \in Seq(Variables) : y = e \o new
    BY <1>1, Appended
  <2>3. <<pre>> \in Seq(Variables)
    BY <1>2
  <2>4. PICK p \in Seq(Variables) : p = <<pre>>
    BY <2>3
  <2>5. /\ Named(p, "LD_PRELOAD") = {1} /\ Getenv(p, "LD_PRELOAD") = pre.value
        /\ \A n : n # "LD_PRELOAD" => Named(p, n) = {}
    BY <1>3, <2>4, OneVariable
  <2>6. x = y \o p
    BY <2>1, <2>2, <2>4
  <2>7. Named(y, "LD_PRELOAD") = {}
    BY <1>1, <1>5, <2>2, Appended
  <2>8. x \in Seq(Variables)
    BY <2>6, Appended
  <2>9. /\ \A i \in Named(x, "LD_PRELOAD") : i > Len(y) /\ i - Len(y) \in {1}
        /\ Named(x, "LD_PRELOAD") # {}
        /\ Getenv(x, "LD_PRELOAD") = pre.value
    <3>1. /\ \A i \in Named(p, "LD_PRELOAD") : Len(y) + i \in Named(x, "LD_PRELOAD") \ Named(y, "LD_PRELOAD")
          /\ \A i \in Named(x, "LD_PRELOAD") :
                i \in Named(y, "LD_PRELOAD") \/ (i > Len(y) /\ i - Len(y) \in Named(p, "LD_PRELOAD"))
          /\ Named(y, "LD_PRELOAD") = {} /\ Named(p, "LD_PRELOAD") # {} =>
                Getenv(x, "LD_PRELOAD") = Getenv(p, "LD_PRELOAD")
      BY <2>6, Appended
    <3> QED
      BY <2>5, <2>7, <3>1
  <2>10. AtMostOne(Named(x, "LD_PRELOAD"))
    <3>1. Len(y) \in Nat /\ Named(x, "LD_PRELOAD") \in SUBSET Nat
      BY <2>8, NamedIn, LenProperties
    <3> QED
      BY <2>9, <3>1 DEF AtMostOne
  <2>11. Preloaded(x) = pre.value
    BY <2>9 DEF Preloaded
  <2>12. ASSUME NEW n \in {"LIBVOYEUR_LIBS", "LIBVOYEUR_OPTS", "LIBVOYEUR_SOCKET"}
         PROVE  /\ Named(x, n) # {}
                /\ Getenv(x, n) = IF Named(e, n) = {} THEN Getenv(Three(g), n) ELSE Getenv(e, n)
    <3>1. Named(y, n) # {} /\ Getenv(y, n) = IF Named(e, n) = {} THEN Getenv(new, n) ELSE Getenv(e, n)
      BY <1>1, <2>2, Appended, ZenonT(40)
    <3>2. Named(y, n) \subseteq Named(x, n) /\ Getenv(x, n) = Getenv(y, n)
      BY <2>6, <3>1, Appended
    <3> QED
      BY <3>1, <3>2 DEF new
  <2>13. AtMostOne(Named(x, "LIBVOYEUR_SOCKET")) => Named(e, "LIBVOYEUR_SOCKET") = {}
    <3>1. /\ Named(e, "LIBVOYEUR_SOCKET") \subseteq Named(y, "LIBVOYEUR_SOCKET")
          /\ \A i \in Named(new, "LIBVOYEUR_SOCKET") :
                Len(e) + i \in Named(y, "LIBVOYEUR_SOCKET") \ Named(e, "LIBVOYEUR_SOCKET")
      BY <1>1, <2>2, Appended
    <3>2. Named(y, "LIBVOYEUR_SOCKET") \subseteq Named(x, "LIBVOYEUR_SOCKET")
      BY <2>6, Appended
    <3> QED
      BY <1>1, <3>1, <3>2 DEF AtMostOne
  <2> QED
    BY <1>3, <2>8, <2>10, <2>11, <2>12, <2>13
<1>6. CASE Named(e, "LD_PRELOAD") # {}
  <2>1. PICK k \in 1 .. Len(e) : /\ k \in Named(e, "LD_PRELOAD") /\ Preloaded(e) = e[k].value
                                 /\ Last(Named(e, "LD_PRELOAD")) = k
    BY <1>6, OnePreloaded
  <2>2. x = [e EXCEPT ![k] = pre] \o new
    BY <1>6, <2>1 DEF voyeur_augment_environment, Extended, Three, Prefixed, new, pre
  <2>3. PICK z \in Seq(Variables) : z = [e EXCEPT ![k] = pre]
    BY <1>2, ExceptSeq
  <2>4. pre.name = e[k].name
    BY <1>3, <2>1, NamedIn
  <2>5. ASSUME NEW n
        PROVE  /\ Named(z, n) = Named(e, n) /\ z[k] = pre
               /\ n # "LD_PRELOAD" => Getenv(z, n) = Getenv(e, n)
    <3>1. /\ Named([e EXCEPT ![k] = pre], n) = Named(e, n)
          /\ n # pre.name => Getenv([e EXCEPT ![k] = pre], n) = Getenv(e, n)
      BY <1>2, <2>4, Replaced
    <3>2. z[k] = pre
      BY <2>3, LenProperties
    <3> QED
      BY <1>3, <2>3, <3>1, <3>2, Zenon
  <2>6. Preloaded(z) = pre.value
    BY <2>1, <2>5, OnePreloaded
  <2>7. x = z \o new
    BY <2>2, <2>3
  <2>8. /\ x \in Seq(Variables)
        /\ \A i \in Named(x, "LD_PRELOAD") : i \in Named(z, "LD_PRELOAD")
        /\ Named(z, "LD_PRELOAD") \subseteq Named(x, "LD_PRELOAD")
        /\ Named(z, "LD_PRELOAD") # {} => Getenv(x, "LD_PRELOAD") = Getenv(z, "LD_PRELOAD")
    BY <1>1, <2>7, Appended
  <2>9. AtMostOne(Named(x, "LD_PRELOAD"))
    BY <2>5, <2>8 DEF AtMostOne
  <2>10. Preloaded(x) = pre.value
    BY <2>1, <2>5, <2>6, <2>8 DEF Preloaded
  <2>11. ASSUME NEW n \in {"LIBVOYEUR_LIBS", "LIBVOYEUR_OPTS", "LIBVOYEUR_SOCKET"}
         PROVE  /\ Named(x, n) # {}
                /\ Getenv(x, n) = IF Named(e, n) = {} THEN Getenv(Three(g), n) ELSE Getenv(e, n)
    <3>1. Named(x, n) # {} /\ Getenv(x, n) = IF Named(z, n) = {} THEN Getenv(new, n) ELSE Getenv(z, n)
      <4>1. \A i \in Named(new, n) : Len(z) + i \in Named(x, n) \ Named(z, n)
        BY <1>1, <2>7, Appended
      <4>2. /\ Named(z, n) # {} => Getenv(x, n) = Getenv(z, n)
            /\ Named(z, n) = {} /\ Named(new, n) # {} => Getenv(x, n) = Getenv(new, n)
        <5>1. /\ Named(z, n) # {} => Getenv(z \o new, n) = Getenv(z, n)
              /\ Named(z, n) = {} /\ Named(new, n) # {} => Getenv(z \o new, n) = Getenv(new, n)
          BY <1>1, Appended
        <5> QED
          BY <2>7, <5>1
      <4> QED
        BY <1>1, <4>1, <4>2
    <3>2. Named(z, n) = Named(e, n) /\ Getenv(z, n) = Getenv(e, n)
      BY <2>5
    <3> QED
      BY <3>1, <3>2 DEF new
  <2>12. AtMostOne(Named(x, "LIBVOYEUR_SOCKET")) => Named(e, "LIBVOYEUR_SOCKET") = {}
    <3>1. /\ Named(z, "LIBVOYEUR_SOCKET") \subseteq Named(x, "LIBVOYEUR_SOCKET")
          /\ \A i \in Named(new, "LIBVOYEUR_SOCKET") :
                Len(z) + i \in Named(x, "LIBVOYEUR_SOCKET") \ Named(z, "LIBVOYEUR_SOCKET")
      BY <1>1, <2>7, Appended
    <3> QED
      BY <1>1, <2>5, <3>1 DEF AtMostOne
  <2> QED
    BY <1>3, <2>8, <2>9, <2>10, <2>11, <2>12
<1> QED
  BY <1>5, <1>6

-----------------------------------------------------------------------------
(* Environments stay sound. *)

\* The variables that a sound environment has are a group.
LEMMA FoundIn ==
  ASSUME NEW G, NEW e, Sound(e, G), Named(e, "LIBVOYEUR_SOCKET") # {}
  PROVE  Found(e) \in Groups /\ Found(e) \in G
<1>1. /\ e \in Seq(Variables) /\ Named(e, "LIBVOYEUR_LIBS") # {} /\ Named(e, "LIBVOYEUR_OPTS") # {}
      /\ Found(e) \in G
  BY DEF Sound
<1>2. /\ Getenv(e, "LIBVOYEUR_LIBS") \in LibSeqs /\ Getenv(e, "LIBVOYEUR_OPTS") \in OptStrings
      /\ Getenv(e, "LIBVOYEUR_SOCKET") \in Contexts
  BY <1>1, FoundTypes
<1> QED
  BY <1>1, <1>2 DEF Found, Groups

\* More groups do no harm.
LEMMA SoundMonotone ==
  ASSUME NEW G, NEW H, G \subseteq H, NEW e, Sound(e, G)
  PROVE  Sound(e, H)
BY DEF Sound

\* The empty environment is sound.
LEMMA EmptySound ==
  ASSUME NEW G
  PROVE  /\ Sound(<<>>, G) /\ Preloaded(<<>>) = <<>>
         /\ Named(<<>>, "LIBVOYEUR_SOCKET") = {}
<1>1. \A name : Named(<<>>, name) = {}
  BY DEF Named
<1>2. Preloaded(<<>>) = <<>>
  BY <1>1 DEF Preloaded
<1>3. ItemsOf(<<>>) = {}
  BY DEF ItemsOf
<1>4. <<>> \in Seq(Variables)
  BY EmptySeq
<1> QED
  BY <1>1, <1>2, <1>3, <1>4 DEF Sound, AtMostOne, Instruments

\* One that instruments nothing is sound if the variables of libvoyeur are.
LEMMA PlainSound ==
  ASSUME NEW G, NEW e, Sound(e, G), NEW x \in Seq(Variables),
         AtMostOne(Named(x, "LD_PRELOAD")), ~Instruments(x),
         \A n \in {"LIBVOYEUR_LIBS", "LIBVOYEUR_OPTS", "LIBVOYEUR_SOCKET"} :
            /\ Named(x, n) = {} <=> Named(e, n) = {}
            /\ Named(e, n) # {} => Getenv(x, n) = Getenv(e, n)
  PROVE  /\ Sound(x, G)
         /\ Named(x, "LIBVOYEUR_SOCKET") = {} <=> Named(e, "LIBVOYEUR_SOCKET") = {}
         /\ Named(x, "LIBVOYEUR_SOCKET") # {} => Found(x) = Found(e)
<1>1. \A n \in {"LIBVOYEUR_LIBS", "LIBVOYEUR_OPTS"} :
         Named(e, n) = {} <=> Named(e, "LIBVOYEUR_SOCKET") = {}
  BY DEF Sound
<1>2. Named(x, "LIBVOYEUR_SOCKET") # {} => Found(x) = Found(e)
  BY <1>1 DEF Found
<1>3. Named(x, "LIBVOYEUR_SOCKET") # {} => Found(x) \in G
  BY <1>2 DEF Sound
<1> QED
  BY <1>1, <1>2, <1>3 DEF Sound

\* A program that sets LD_PRELOAD to libraries of its own leaves the group.
LEMMA setenvSound ==
  ASSUME NEW G, NEW e, Sound(e, G), NEW s \in Preloads,
         NEW x, x = setenv(e, Variable("LD_PRELOAD", s))
  PROVE  /\ Sound(x, G)
         /\ Named(x, "LIBVOYEUR_SOCKET") = {} <=> Named(e, "LIBVOYEUR_SOCKET") = {}
         /\ Named(x, "LIBVOYEUR_SOCKET") # {} => Found(x) = Found(e)
<1>1. e \in Seq(Variables) /\ AtMostOne(Named(e, "LD_PRELOAD"))
  BY DEF Sound
<1>2. s \in Seq(LibNames) /\ ItemsOf(s) \cap Events = {}
  <2>1. s \in Seq(STRING \ Events)
    BY LaunchAssumption
  <2>2. DOMAIN s = 1 .. Len(s) /\ \A i \in 1 .. Len(s) : s[i] \in STRING \ Events
    BY <2>1, LenProperties, ElementOfSeq
  <2>3. ItemsOf(s) \cap Events = {}
    BY <2>2 DEF ItemsOf
  <2>4. ItemsOf(s) \subseteq LibNames
    BY DEF LibNames
  <2>5. s \in Seq(Range(s)) /\ Range(s) = ItemsOf(s)
    BY <2>1, SeqOfRange DEF Range, ItemsOf
  <2>6. s \in Seq(LibNames)
    BY <2>4, <2>5, SeqMonotonic
  <2> QED
    BY <2>3, <2>6
<1>3. PICK v \in Variables : /\ v = Variable("LD_PRELOAD", s)
                             /\ v.name = "LD_PRELOAD" /\ v.value = s
  BY <1>2, Kinds DEF Variable
<1>4. x = IF Named(e, "LD_PRELOAD") = {} THEN e \o <<v>>
          ELSE [e EXCEPT ![First(Named(e, "LD_PRELOAD"))] = v]
  BY <1>3 DEF setenv
<1>5. /\ x \in Seq(Variables) /\ AtMostOne(Named(x, "LD_PRELOAD")) /\ Preloaded(x) = s
      /\ \A n \in {"LIBVOYEUR_LIBS", "LIBVOYEUR_OPTS", "LIBVOYEUR_SOCKET"} :
            /\ Named(x, n) = {} <=> Named(e, n) = {}
            /\ Named(e, n) # {} => Getenv(x, n) = Getenv(e, n)
  <2>1. CASE Named(e, "LD_PRELOAD") = {}
    <3>1. <<v>> \in Seq(Variables)
      OBVIOUS
    <3>2. PICK p \in Seq(Variables) : p = <<v>>
      BY <3>1
    <3>3. /\ Named(p, "LD_PRELOAD") = {1} /\ Getenv(p, "LD_PRELOAD") = s
          /\ \A n : n # "LD_PRELOAD" => Named(p, n) = {}
      BY <1>3, <3>2, OneVariable
    <3>4. /\ e \o p \in Seq(Variables)
          /\ \A i \in Named(p, "LD_PRELOAD") : Len(e) + i \in Named(e \o p, "LD_PRELOAD") \ Named(e, "LD_PRELOAD")
          /\ \A i \in Named(e \o p, "LD_PRELOAD") :
                i \in Named(e, "LD_PRELOAD") \/ (i > Len(e) /\ i - Len(e) \in Named(p, "LD_PRELOAD"))
      BY <1>1, Appended
    <3>5. Named(e, "LD_PRELOAD") = {} /\ Named(p, "LD_PRELOAD") # {} =>
             Getenv(e \o p, "LD_PRELOAD") = Getenv(p, "LD_PRELOAD")
      BY <1>1, Appended
    <3>6. Named(e \o p, "LD_PRELOAD") \in SUBSET Nat /\ Len(e) \in Nat
      BY <1>1, <3>4, NamedIn, LenProperties
    <3>7. AtMostOne(Named(e \o p, "LD_PRELOAD")) /\ Named(e \o p, "LD_PRELOAD") # {}
      <4>1. \A i \in Named(e \o p, "LD_PRELOAD") : i > Len(e) /\ i - Len(e) \in {1}
        BY <2>1, <3>3, <3>4
      <4>2. Named(e \o p, "LD_PRELOAD") # {}
        BY <3>3, <3>4
      <4> QED
        BY <3>6, <4>1, <4>2 DEF AtMostOne
    <3>8. Preloaded(e \o p) = s
      BY <2>1, <3>3, <3>5, <3>7 DEF Preloaded
    <3>9. ASSUME NEW n \in {"LIBVOYEUR_LIBS", "LIBVOYEUR_OPTS", "LIBVOYEUR_SOCKET"}
          PROVE  /\ Named(e \o p, n) = {} <=> Named(e, n) = {}
                 /\ Named(e, n) # {} => Getenv(e \o p, n) = Getenv(e, n)
      <4>1. /\ Named(e, n) \subseteq Named(e \o p, n)
            /\ \A i \in Named(e \o p, n) : i \in Named(e, n) \/ (i > Len(e) /\ i - Len(e) \in Named(p, n))
        BY <1>1, Appended
      <4>2. Named(e, n) # {} => Getenv(e \o p, n) = Getenv(e, n)
        BY <1>1, Appended
      <4> QED
        BY <3>3, <4>1, <4>2
    <3>10. x = e \o p
      BY <1>4, <2>1, <3>2
    <3> QED
      BY <3>4, <3>7, <3>8, <3>9, <3>10
  <2>2. CASE Named(e, "LD_PRELOAD") # {}
    <3>1. PICK k \in Named(e, "LD_PRELOAD") : k = First(Named(e, "LD_PRELOAD")) /\ k \in 1 .. Len(e)
      BY <1>1, <2>2, NamedIn
    <3>2. v.name = e[k].name
      BY <1>1, <1>3, <3>1, NamedIn
    <3>3. PICK z \in Seq(Variables) : z = [e EXCEPT ![k] = v]
      BY <1>1, <3>1, ExceptSeq
    <3>4. ASSUME NEW n
          PROVE  Named(z, n) = Named(e, n) /\ (n # "LD_PRELOAD" => Getenv(z, n) = Getenv(e, n))
      <4>1. /\ Named([e EXCEPT ![k] = v], n) = Named(e, n)
            /\ n # v.name => Getenv([e EXCEPT ![k] = v], n) = Getenv(e, n)
        BY <1>1, <3>1, <3>2, Replaced
      <4> QED
        BY <1>3, <3>3, <4>1, Zenon
    <3>5. z[k] = v
      BY <1>1, <3>1, <3>3, LenProperties
    <3>6. AtMostOne(Named(z, "LD_PRELOAD")) /\ k \in Named(z, "LD_PRELOAD")
      BY <1>1, <3>4
    <3>7. Preloaded(z) = s
      BY <1>3, <3>5, <3>6, OnePreloaded
    <3>8. x = z
      BY <1>4, <2>2, <3>1, <3>3, Zenon
    <3> QED
      BY <3>4, <3>6, <3>7, <3>8
  <2> QED
    BY <2>1, <2>2
<1>6. ~Instruments(x)
  BY <1>2, <1>5 DEF Instruments
<1> QED
  BY <1>5, <1>6, PlainSound

\* An environment that a program may pass on.
LEMMA TemplateSound ==
  ASSUME NEW p \in Procs, NEW G, Sound(env[p], G), NEW e \in Templates(p)
  PROVE  /\ Sound(e, G)
         /\ Named(e, "LIBVOYEUR_SOCKET") # {} =>
               Named(env[p], "LIBVOYEUR_SOCKET") # {} /\ Found(e) = Found(env[p])
<1>1. CASE e = env[p]
  BY <1>1
<1>2. CASE e = <<>>
  BY <1>2, EmptySound
<1>3. CASE \E b \in {env[p], <<>>}, s \in Preloads : e = setenv(b, Variable("LD_PRELOAD", s))
  <2>1. PICK b \in {env[p], <<>>}, s \in Preloads : e = setenv(b, Variable("LD_PRELOAD", s))
    BY <1>3
  <2>2. CASE b = env[p]
    BY <2>1, <2>2, setenvSound
  <2>3. CASE b = <<>>
    <3>1. Sound(b, G) /\ Named(b, "LIBVOYEUR_SOCKET") = {}
      BY <2>3, EmptySound
    <3> QED
      BY <2>1, <3>1, setenvSound
  <2> QED
    BY <2>2, <2>3
<1> QED
  BY <1>1, <1>2, <1>3 DEF Templates

\* voyeur_augment_environment() keeps an environment sound: the group that was found
\* first stays, or else it is the one that was added.
LEMMA AugmentedSound ==
  ASSUME NEW G, NEW H, G \subseteq H, NEW g \in Groups, g \in H, NEW e, Sound(e, G),
         NEW x, x = voyeur_augment_environment(e, g.libs, g.os, g.sock)
  PROVE  /\ Sound(x, H)
         /\ Named(x, "LIBVOYEUR_SOCKET") # {}
         /\ Found(x) = IF Named(e, "LIBVOYEUR_SOCKET") = {} THEN g ELSE Found(e)
         /\ Preloaded(x) = Copied(Prefixed(g.libs, Preloaded(e)))
<1>1. e \in Seq(Variables) /\ AtMostOne(Named(e, "LD_PRELOAD"))
  BY DEF Sound
<1>2. /\ x \in Seq(Variables)
      /\ AtMostOne(Named(x, "LD_PRELOAD"))
      /\ Preloaded(x) = Copied(Prefixed(g.libs, Preloaded(e)))
      /\ \A n \in {"LIBVOYEUR_LIBS", "LIBVOYEUR_OPTS", "LIBVOYEUR_SOCKET"} :
            /\ Named(x, n) # {}
            /\ Getenv(x, n) = IF Named(e, n) = {} THEN Getenv(Three(g), n) ELSE Getenv(e, n)
      /\ AtMostOne(Named(x, "LIBVOYEUR_SOCKET")) => Named(e, "LIBVOYEUR_SOCKET") = {}
  BY <1>1, Extending
<1>3. \A n \in {"LIBVOYEUR_LIBS", "LIBVOYEUR_OPTS"} :
         Named(e, n) = {} <=> Named(e, "LIBVOYEUR_SOCKET") = {}
  BY DEF Sound
<1>4. Found(Three(g)) = g
  <2>1. Found(Three(g)) = [libs |-> g.libs, os |-> g.os, sock |-> g.sock]
    BY ThreeVariables DEF Found
  <2> QED
    BY <2>1 DEF Groups
<1>5. Found(x) = IF Named(e, "LIBVOYEUR_SOCKET") = {} THEN g ELSE Found(e)
  <2>1. CASE Named(e, "LIBVOYEUR_SOCKET") = {}
    <3>1. Found(x) = Found(Three(g))
      BY <1>2, <1>3, <2>1 DEF Found
    <3> QED
      BY <1>4, <2>1, <3>1
  <2>2. CASE Named(e, "LIBVOYEUR_SOCKET") # {}
    BY <1>2, <1>3, <2>2 DEF Found
  <2> QED
    BY <2>1, <2>2
<1>6. Found(x) \in H
  BY <1>5, FoundIn
<1>7. /\ Instruments(x)
      /\ AtMostOne(Named(x, "LIBVOYEUR_SOCKET"))
      /\ Len(Preloaded(x)) < CopyRoom
      => ItemsOf(Getenv(x, "LIBVOYEUR_LIBS")) \subseteq ItemsOf(Preloaded(x))
  <2> SUFFICES ASSUME Instruments(x), AtMostOne(Named(x, "LIBVOYEUR_SOCKET")),
                      Len(Preloaded(x)) < CopyRoom
               PROVE  ItemsOf(Getenv(x, "LIBVOYEUR_LIBS")) \subseteq ItemsOf(Preloaded(x))
    OBVIOUS
  <2>1. Named(e, "LIBVOYEUR_SOCKET") = {}
    BY <1>2
  <2>2. ~Instruments(e)
    BY <2>1 DEF Sound
  <2>3. Getenv(x, "LIBVOYEUR_LIBS") = g.libs
    BY <1>5, <2>1 DEF Found
  <2>4. g.libs \in Seq(LibNames) /\ Preloaded(e) \in Seq(LibNames)
    <3>1. g.libs \in Seq(Events) /\ Events \subseteq LibNames
      BY DEF Groups, LibSeqs, LibNames
    <3> QED
      BY <1>1, <3>1, SeqMonotonic, FoundTypes
  <2>5. /\ Prefixed(g.libs, Preloaded(e)) \in Seq(LibNames)
        /\ \/ ItemsOf(g.libs) \subseteq ItemsOf(Prefixed(g.libs, Preloaded(e)))
           \/ Prefixed(g.libs, Preloaded(e)) = Preloaded(e)
    BY <2>4, Prefixing
  <2>6. Preloaded(x) = Prefixed(g.libs, Preloaded(e))
    BY <1>2, <2>5, CopiedOf
  <2>7. Preloaded(x) # Preloaded(e)
    BY <2>2 DEF Instruments
  <2> QED
    BY <2>3, <2>5, <2>6, <2>7
<1> QED
  BY <1>2, <1>3, <1>5, <1>6, <1>7 DEF Sound

-----------------------------------------------------------------------------
(* What an instrumented process passes on, and what a context publishes. *)

\* An instrumented process has the LD_PRELOAD it was started with, and a group.
LEMMA Instrumented ==
  ASSUME NEW p \in Procs, ProcInv(p), loaded[p] \cap Events # {}
  PROVE  /\ loaded[p] = ItemsOf(Preloaded(env[p])) /\ Instruments(env[p])
         /\ Sound(env[p], Published)
         /\ Named(env[p], "LIBVOYEUR_SOCKET") # {}
         /\ Found(env[p]) \in Groups /\ Found(env[p]) \in Published
<1>1. /\ loaded[p] = ItemsOf(Preloaded(env[p])) /\ Instruments(env[p])
      /\ Sound(env[p], Published)
  BY DEF ProcInv, Instruments
<1>2. Named(env[p], "LIBVOYEUR_SOCKET") # {}
  BY <1>1 DEF Sound
<1> QED
  BY <1>1, <1>2, FoundIn

\* What an interposed execve() or posix_spawn() hands on.
LEMMA GivenSound ==
  ASSUME NEW p \in Procs, ProcInv(p), NEW H, Published \subseteq H, NEW e, Sound(e, H),
         NEW x, x = Given(p, e)
  PROVE  /\ Sound(x, H)
         /\ "exec" \in loaded[p] =>
               /\ Named(env[p], "LIBVOYEUR_SOCKET") # {}
               /\ Found(x) = IF Named(e, "LIBVOYEUR_SOCKET") = {} THEN Found(env[p]) ELSE Found(e)
               /\ Preloaded(x) = Copied(Prefixed(Getenv(env[p], "LIBVOYEUR_LIBS"), Preloaded(e)))
<1>1. CASE "exec" \notin loaded[p]
  BY <1>1 DEF Given
<1>2. CASE "exec" \in loaded[p]
  <2>1. "exec" \in Events
    BY DEF Events, EventSeq
  <2>2. PICK g \in Groups : g = Found(env[p]) /\ g \in H /\ Named(env[p], "LIBVOYEUR_SOCKET") # {}
    BY <1>2, <2>1, Instrumented
  <2>3. /\ g.libs = Getenv(env[p], "LIBVOYEUR_LIBS") /\ g.os = Getenv(env[p], "LIBVOYEUR_OPTS")
        /\ g.sock = Getenv(env[p], "LIBVOYEUR_SOCKET")
    BY <2>2 DEF Found
  <2>4. x = voyeur_augment_environment(e, g.libs, g.os, g.sock)
    BY <1>2, <2>3 DEF Given
  <2>5. /\ Sound(x, H)
        /\ Found(x) = IF Named(e, "LIBVOYEUR_SOCKET") = {} THEN g ELSE Found(e)
        /\ Preloaded(x) = Copied(Prefixed(g.libs, Preloaded(e)))
    BY <2>2, <2>4, AugmentedSound
  <2> QED
    BY <2>2, <2>3, <2>5
<1> QED
  BY <1>1, <1>2

\* The four events and their numbers.
LEMMA EventsAre == Events = {"exec", "exit", "open", "close"} /\ DOMAIN EventSeq = 1 .. 4
                   /\ \A i \in 1 .. 4 : EventSeq[i] \in Events
<1>1. DOMAIN EventSeq = 1 .. 4 /\ EventSeq[1] = "exec" /\ EventSeq[2] = "exit"
      /\ EventSeq[3] = "open" /\ EventSeq[4] = "close"
  BY DEF EventSeq
<1>2. 1 .. 4 = {1, 2, 3, 4}
  OBVIOUS
<1> QED
  BY <1>1, <1>2 DEF Events

\* voyeur_requested_libs() names the events it is asked for.
LEMMA LibrariesOf ==
  ASSUME NEW S \in SUBSET Events
  PROVE  Libraries(S) \in Seq(Events) /\ ItemsOf(Libraries(S)) = S
<1> DEFINE L(e) == IF e \in S THEN <<e>> ELSE <<>>
<1>1. ASSUME NEW e \in Events
      PROVE  L(e) \in Seq(Events) /\ ItemsOf(L(e)) = S \cap {e}
  <2>1. CASE e \in S
    <3>1. ItemsOf(<<e>>) = {e} /\ <<e>> \in Seq(Events)
      BY DEF ItemsOf
    <3> QED
      BY <2>1, <3>1
  <2>2. CASE e \notin S
    <3>1. ItemsOf(<<>>) = {} /\ <<>> \in Seq(Events)
      BY DEF ItemsOf
    <3> QED
      BY <2>2, <3>1
  <2> QED
    BY <2>1, <2>2
<1>2. "exec" \in Events /\ "exit" \in Events /\ "open" \in Events /\ "close" \in Events
  BY EventsAre
<1>3. Libraries(S) = L("exec") \o L("exit") \o L("open") \o L("close")
  BY DEF Libraries
<1> HIDE DEF L
<1>a. PICK a \in Seq(Events) : a = L("exec") /\ ItemsOf(a) = S \cap {"exec"}
  BY <1>1, <1>2
<1>b. PICK b \in Seq(Events) : b = L("exit") /\ ItemsOf(b) = S \cap {"exit"}
  BY <1>1, <1>2
<1>c. PICK c \in Seq(Events) : c = L("open") /\ ItemsOf(c) = S \cap {"open"}
  BY <1>1, <1>2
<1>d. PICK d \in Seq(Events) : d = L("close") /\ ItemsOf(d) = S \cap {"close"}
  BY <1>1, <1>2
<1>4. a \o b \in Seq(Events) /\ ItemsOf(a \o b) = ItemsOf(a) \cup ItemsOf(b)
  BY ConcatProperties, ItemsOfConcat
<1>5. PICK ab \in Seq(Events) : ab = a \o b /\ ItemsOf(ab) = ItemsOf(a) \cup ItemsOf(b)
  BY <1>4
<1>6. ab \o c \in Seq(Events) /\ ItemsOf(ab \o c) = ItemsOf(ab) \cup ItemsOf(c)
  BY ConcatProperties, ItemsOfConcat
<1>7. PICK abc \in Seq(Events) : abc = ab \o c /\ ItemsOf(abc) = ItemsOf(ab) \cup ItemsOf(c)
  BY <1>6
<1>8. abc \o d \in Seq(Events) /\ ItemsOf(abc \o d) = ItemsOf(abc) \cup ItemsOf(d)
  BY ConcatProperties, ItemsOfConcat
<1>9. PICK all \in Seq(Events) : all = abc \o d /\ ItemsOf(all) = ItemsOf(abc) \cup ItemsOf(d)
  BY <1>8
<1>10. ItemsOf(all) = S
  <2>1. ItemsOf(all) = (((S \cap {"exec"}) \cup (S \cap {"exit"})) \cup (S \cap {"open"})) \cup (S \cap {"close"})
    BY <1>a, <1>b, <1>c, <1>d, <1>5, <1>7, <1>9, Zenon
  <2>2. \A e \in S : e \in {"exec", "exit", "open", "close"}
    BY EventsAre
  <2> QED
    BY <2>1, <2>2
<1> QED
  BY <1>3, <1>a, <1>b, <1>c, <1>d, <1>5, <1>7, <1>9, <1>10

\* What a context publishes is a group.
LEMMA GroupTypes ==
  ASSUME ContextTypes, NEW c \in Contexts
  PROVE  GroupOf(c) \in Groups /\ ExecOpts(c) \in 0 .. 255
<1>1. cb[c] \cup {"exec"} \in SUBSET Events /\ opts[c] \in [Events -> 0 .. 255]
  BY EventsAre DEF ContextTypes
<1>2. voyeur_requested_libs(c) \in LibSeqs
  <2>1. PICK s \in Seq(Events) : s = voyeur_requested_libs(c) /\ ItemsOf(s) = cb[c] \cup {"exec"}
    BY <1>1, LibrariesOf DEF voyeur_requested_libs
  <2>2. s # <<>>
    BY <2>1 DEF ItemsOf
  <2> QED
    BY <2>1, <2>2 DEF LibSeqs
<1>3. ExecOpts(c) \in 0 .. 255
  BY <1>1, EventsAre DEF ExecOpts, OBSERVE_EXEC_SILENT
<1>4. \A o \in 0 .. 255 : voyeur_encode_options(o) \in 64 .. 95
  BY DEF voyeur_encode_options
<1>5. voyeur_requested_opts(c) \in OptStrings
  BY <1>1, <1>3, <1>4, EventsAre, ZenonT(40) DEF voyeur_requested_opts, OptStrings
<1> QED
  BY <1>2, <1>3, <1>5 DEF GroupOf, Groups

-----------------------------------------------------------------------------
(* The invariant is inductive: what a step leaves alone. *)

\* What a context publishes depends on its callbacks and options.
LEMMA GroupStays ==
  ASSUME NEW c \in Contexts, cb'[c] = cb[c], opts'[c] = opts[c]
  PROVE  GroupOf(c)' = GroupOf(c) /\ ExecOpts(c)' = ExecOpts(c)
BY DEF GroupOf, voyeur_requested_libs, voyeur_requested_opts, ExecOpts

\* What is in an environment stays as it was.
LEMMA PublishedGrows ==
  ASSUME \A c \in Contexts : Started(c) => Started(c)' /\ GroupOf(c)' = GroupOf(c)
  PROVE  Published \subseteq Published'
<1> SUFFICES ASSUME NEW c \in Contexts, Started(c)
             PROVE  GroupOf(c) \in Published'
  BY DEF Published, Given_by
<1>1. GroupOf(c)' \in Published'
  BY DEF Published, Given_by
<1> QED
  BY <1>1

\* A context of which nothing changed.
LEMMA ContextStays ==
  ASSUME NEW c \in Contexts, ContextInv(c), Published \subseteq Published',
         phase'[c] = phase[c], opts'[c] = opts[c], cb'[c] = cb[c], envp'[c] = envp[c],
         child'[c] = child[c], held'[c] = held[c]
  PROVE  ContextInv(c)'
<1>1. GroupOf(c)' = GroupOf(c) /\ ExecOpts(c)' = ExecOpts(c) /\ Started(c)' = Started(c)
  BY GroupStays DEF Started
<1>2. phase[c] = "prepared" => Sound(envp[c], Published' \cup {GroupOf(c)'})
  BY <1>1, SoundMonotone DEF ContextInv
<1>3. phase'[c] = "prepared" => Sound(envp'[c], Published' \cup {GroupOf(c)'})
  BY <1>2
<1> QED
  BY <1>1, <1>3 DEF ContextInv

\* A process of which nothing changed.
LEMMA ProcStays ==
  ASSUME NEW p \in Procs, ProcInv(p), env'[p] = env[p], loaded'[p] = loaded[p],
         Published \subseteq Published'
  PROVE  ProcInv(p)'
<1>1. Sound(env'[p], Published')
  BY SoundMonotone DEF ProcInv
<1> QED
  BY <1>1 DEF ProcInv

\* A process that was started with a sound environment.
LEMMA Runs ==
  ASSUME LaunchInv, NEW q \in Procs, NEW e, NEW dynamic \in BOOLEAN, Run(q, e, dynamic),
         Published \subseteq Published', Sound(e, Published')
  PROVE  /\ starts' \in [Procs -> Nat] /\ env' \in [Procs -> Seq(Variables)]
         /\ loaded' \in [Procs -> SUBSET LibNames]
         /\ env'[q] = e /\ (dynamic => loaded'[q] = ItemsOf(Preloaded(e)))
         /\ \A p \in Procs : ProcInv(p)'
<1>1. /\ starts \in [Procs -> Nat] /\ env \in [Procs -> Seq(Variables)]
      /\ loaded \in [Procs -> SUBSET LibNames]
  BY DEF LaunchInv, ContextTypes
<1>2. e \in Seq(Variables) /\ Preloaded(e) \in Seq(LibNames)
  BY FoundTypes DEF Sound
<1>3. ItemsOf(Preloaded(e)) \in SUBSET LibNames
  <2>1. Range(Preloaded(e)) \in SUBSET LibNames
    BY <1>2, RangeOfSeq
  <2> QED
    BY <2>1, Zenon DEF Range, ItemsOf
<1>4. PICK l \in SUBSET LibNames : l \in {ItemsOf(Preloaded(e)), {}}
                                   /\ (dynamic => l = ItemsOf(Preloaded(e)))
                                   /\ loaded' = [loaded EXCEPT ![q] = l]
  BY <1>3 DEF Run, ItemsOf
<1>5. env' = [env EXCEPT ![q] = e] /\ starts' = [starts EXCEPT ![q] = @ + 1]
  BY DEF Run
<1>6. starts' \in [Procs -> Nat] /\ env' \in [Procs -> Seq(Variables)]
  BY <1>1, <1>2, <1>5
<1>7. loaded' \in [Procs -> SUBSET LibNames] /\ env'[q] = e /\ loaded'[q] = l
  BY <1>1, <1>4, <1>5
<1>8. ASSUME NEW p \in Procs
      PROVE  ProcInv(p)'
  <2>1. CASE p = q
    <3>1. Sound(env'[p], Published') /\ loaded'[p] \in {ItemsOf(Preloaded(env'[p])), {}}
      BY <1>4, <1>7, <2>1
    <3> QED
      BY <3>1 DEF ProcInv
  <2>2. CASE p # q
    <3>1. env'[p] = env[p] /\ loaded'[p] = loaded[p]
      BY <1>1, <1>4, <1>5, <2>2
    <3> QED
      BY <3>1, ProcStays DEF LaunchInv
  <2> QED
    BY <2>1, <2>2
<1> QED
  BY <1>4, <1>6, <1>7, <1>8

\* The other contexts, when one of them takes a step.
LEMMA Others ==
  ASSUME LaunchInv, NEW c \in Contexts,
         \A d \in Contexts \ {c} :
            /\ phase'[d] = phase[d] /\ opts'[d] = opts[d] /\ cb'[d] = cb[d]
            /\ envp'[d] = envp[d] /\ child'[d] = child[d] /\ held'[d] = held[d],
         Started(c) => Started(c)' /\ GroupOf(c)' = GroupOf(c)
  PROVE  Published \subseteq Published' /\ \A d \in Contexts \ {c} : ContextInv(d)'
<1>1. ASSUME NEW d \in Contexts
      PROVE  Started(d) => Started(d)' /\ GroupOf(d)' = GroupOf(d)
  <2>1. CASE d = c
    BY <2>1
  <2>2. CASE d # c
    BY <2>2, GroupStays DEF Started
  <2> QED
    BY <2>1, <2>2
<1>2. Published \subseteq Published'
  BY <1>1, PublishedGrows
<1> QED
  BY <1>2, ContextStays DEF LaunchInv

\* A step of a context that starts nothing.
LEMMA NothingRuns ==
  ASSUME LaunchInv, NEW c \in Contexts, UNCHANGED <<env, loaded>>, ContextTypes',
         Published \subseteq Published', \A d \in Contexts \ {c} : ContextInv(d)', ContextInv(c)'
  PROVE  LaunchInv'
<1>1. \A p \in Procs : ProcInv(p)'
  BY ProcStays DEF LaunchInv
<1> QED
  BY <1>1 DEF LaunchInv

\* voyeur_context_create() keeps the invariant.
LEMMA CreateStep ==
  ASSUME LaunchInv, NEW c \in Contexts, Create(c)
  PROVE  LaunchInv'
<1>1. ContextTypes /\ ContextInv(c)
  BY DEF LaunchInv
<1>2. ContextTypes'
  BY <1>1 DEF ContextTypes, Create
<1>3. ~Started(c) /\ ~Started(c)' /\ phase'[c] = "created"
  BY <1>1 DEF ContextInv, ContextTypes, Create, Started
<1>4. \A d \in Contexts \ {c} :
         /\ phase'[d] = phase[d] /\ opts'[d] = opts[d] /\ cb'[d] = cb[d]
         /\ envp'[d] = envp[d] /\ child'[d] = child[d] /\ held'[d] = held[d]
  BY <1>1 DEF ContextTypes, Create
<1>5. Published \subseteq Published' /\ \A d \in Contexts \ {c} : ContextInv(d)'
  BY <1>3, <1>4, Others
<1>6. ContextInv(c)'
  BY <1>3 DEF ContextInv
<1> QED
  BY <1>2, <1>5, <1>6, NothingRuns DEF Create

\* voyeur_observe_*() keeps it: no child has been started yet.
LEMMA ObserveStep ==
  ASSUME LaunchInv, NEW c \in Contexts, NEW r \in Requests, Observe(c, r)
  PROVE  LaunchInv'
<1>1. ContextTypes /\ ContextInv(c)
  BY DEF LaunchInv
<1>2. r.event \in Events /\ r.opts \in 0 .. 255 /\ r.cb \in BOOLEAN
  BY LaunchAssumption
<1>3. opts' \in [Contexts -> [Events -> 0 .. 255]] /\ cb' \in [Contexts -> SUBSET Events]
  BY <1>1, <1>2 DEF ContextTypes, Observe
<1>4. ContextTypes'
  BY <1>1, <1>3 DEF ContextTypes, Observe
<1>5. ~Started(c) /\ ~Started(c)' /\ phase'[c] = "created"
  BY <1>1 DEF ContextInv, ContextTypes, Observe, Started
<1>6. \A d \in Contexts \ {c} :
         /\ phase'[d] = phase[d] /\ opts'[d] = opts[d] /\ cb'[d] = cb[d]
         /\ envp'[d] = envp[d] /\ child'[d] = child[d] /\ held'[d] = held[d]
  BY <1>1 DEF ContextTypes, Observe
<1>7. Published \subseteq Published' /\ \A d \in Contexts \ {c} : ContextInv(d)'
  BY <1>5, <1>6, Others
<1>8. ContextInv(c)'
  BY <1>5 DEF ContextInv
<1> QED
  BY <1>4, <1>7, <1>8, NothingRuns DEF Observe

\* voyeur_prepare() keeps it: making exec() silent does not change what is published.
LEMMA PrepareStep ==
  ASSUME LaunchInv, NEW c \in Contexts, NEW e \in Templates(Owner[c]), Prepare(c, e)
  PROVE  LaunchInv'
<1>1. ContextTypes /\ ContextInv(c) /\ Owner[c] \in Procs /\ Sound(env[Owner[c]], Published)
  BY LaunchAssumption DEF LaunchInv, ProcInv
<1>2. ~Started(c) /\ ~Started(c)' /\ phase'[c] = "prepared"
  BY <1>1 DEF ContextInv, ContextTypes, Prepare, Started
<1>3. GroupOf(c) \in Groups /\ ExecOpts(c) \in 0 .. 255
  BY <1>1, GroupTypes
<1>4. /\ opts' = [opts EXCEPT ![c] = [opts[c] EXCEPT !["exec"] = ExecOpts(c)]]
      /\ opts'[c] = [opts[c] EXCEPT !["exec"] = ExecOpts(c)]
      /\ cb' = cb
  BY <1>1 DEF ContextTypes, Prepare
<1>5. opts' \in [Contexts -> [Events -> 0 .. 255]]
  BY <1>1, <1>3, <1>4, EventsAre, ZenonT(40) DEF ContextTypes
<1>6. /\ opts'[c]["exec"] = ExecOpts(c)
      /\ \A n \in Events \ {"exec"} : opts'[c][n] = opts[c][n]
  BY <1>1, <1>4, EventsAre DEF ContextTypes
<1>7. ExecOpts(c)' = ExecOpts(c)
  BY <1>4, <1>6 DEF ExecOpts
<1>8. GroupOf(c)' = GroupOf(c)
  <2>1. voyeur_requested_libs(c)' = voyeur_requested_libs(c)
    BY <1>4 DEF voyeur_requested_libs
  <2>2. voyeur_requested_opts(c)' = voyeur_requested_opts(c)
    BY <1>6, <1>7, EventsAre DEF voyeur_requested_opts
  <2> QED
    BY <2>1, <2>2 DEF GroupOf
<1>9. PICK x : x = voyeur_augment_environment(e, voyeur_requested_libs(c), voyeur_requested_opts(c), c)
  OBVIOUS
<1>10. Sound(x, Published \cup {GroupOf(c)})
  <2>1. Sound(e, Published)
    BY <1>1, TemplateSound
  <2>2. PICK g \in Groups : g = GroupOf(c)
    BY <1>3
  <2>3. x = voyeur_augment_environment(e, g.libs, g.os, g.sock)
    BY <1>9, <2>2 DEF GroupOf
  <2>4. PICK G : G = Published
    OBVIOUS
  <2>5. PICK H : H = Published \cup {g}
    OBVIOUS
  <2>6. G \subseteq H /\ g \in H /\ Sound(e, G)
    BY <2>1, <2>4, <2>5
  <2>7. Sound(x, H)
    BY <2>3, <2>6, AugmentedSound
  <2> QED
    BY <2>2, <2>5, <2>7
<1>11. envp' = [envp EXCEPT ![c] = x] /\ envp'[c] = x
  BY <1>1, <1>9 DEF ContextTypes, Prepare
<1>12. ContextTypes'
  <2>1. x \in Seq(Variables)
    BY <1>10 DEF Sound
  <2>2. envp' \in [Contexts -> Seq(Variables) \cup {None}]
    BY <1>1, <1>11, <2>1 DEF ContextTypes
  <2>3. phase' \in [Contexts -> {"none", "created", "prepared", "started", "returned",
                                 "failed", "destroyed"}]
    BY <1>1 DEF ContextTypes, Prepare
  <2>4. held' \in [Contexts -> SUBSET {"context", "state", "env_buf", "listener",
                                       "directory", "libs", "opts"}]
    BY <1>1 DEF ContextTypes, Prepare
  <2> QED
    BY <1>1, <1>5, <2>2, <2>3, <2>4 DEF ContextTypes, Prepare
<1>13. \A d \in Contexts \ {c} :
         /\ phase'[d] = phase[d] /\ opts'[d] = opts[d] /\ cb'[d] = cb[d]
         /\ envp'[d] = envp[d] /\ child'[d] = child[d] /\ held'[d] = held[d]
  BY <1>1 DEF ContextTypes, Prepare
<1>14. Published \subseteq Published' /\ \A d \in Contexts \ {c} : ContextInv(d)'
  BY <1>2, <1>13, Others
<1>15. ContextInv(c)'
  <2>1. Sound(envp'[c], Published' \cup {GroupOf(c)'})
    <3>1. Published \cup {GroupOf(c)} \subseteq Published' \cup {GroupOf(c)'}
      BY <1>8, <1>14
    <3> QED
      BY <1>10, <1>11, <3>1, SoundMonotone
  <2>2. opts'[c]["exec"] = ExecOpts(c)'
    BY <1>6, <1>7
  <2> QED
    BY <1>2, <2>1, <2>2 DEF ContextInv
<1> QED
  BY <1>12, <1>14, <1>15, NothingRuns DEF Prepare

\* voyeur_prepare() keeps it when it fails.
LEMMA PrepareFailsStep ==
  ASSUME LaunchInv, NEW c \in Contexts, PrepareFails(c)
  PROVE  LaunchInv'
<1>1. ContextTypes /\ ContextInv(c)
  BY DEF LaunchInv
<1>2. PICK left \in SUBSET {"listener", "directory"} :
         held' = [held EXCEPT ![c] = held[c] \cup {"state"} \cup left]
  BY DEF PrepareFails
<1>3. ContextTypes'
  <2>1. held' \in [Contexts -> SUBSET {"context", "state", "env_buf", "listener",
                                       "directory", "libs", "opts"}]
    BY <1>1, <1>2 DEF ContextTypes
  <2>2. phase' \in [Contexts -> {"none", "created", "prepared", "started", "returned",
                                 "failed", "destroyed"}]
    BY <1>1 DEF ContextTypes, PrepareFails
  <2> QED
    BY <1>1, <2>1, <2>2 DEF ContextTypes, PrepareFails
<1>4. ~Started(c) /\ ~Started(c)' /\ phase'[c] = "failed"
  BY <1>1 DEF ContextInv, ContextTypes, PrepareFails, Started
<1>5. \A d \in Contexts \ {c} :
         /\ phase'[d] = phase[d] /\ opts'[d] = opts[d] /\ cb'[d] = cb[d]
         /\ envp'[d] = envp[d] /\ child'[d] = child[d] /\ held'[d] = held[d]
  BY <1>1, <1>2 DEF ContextTypes, PrepareFails
<1>6. Published \subseteq Published' /\ \A d \in Contexts \ {c} : ContextInv(d)'
  BY <1>4, <1>5, Others
<1>7. ContextInv(c)'
  BY <1>4 DEF ContextInv
<1> QED
  BY <1>3, <1>6, <1>7, NothingRuns DEF PrepareFails

\* The caller keeps it when posix_spawn() fails.
LEMMA SpawnFailsStep ==
  ASSUME LaunchInv, NEW c \in Contexts, SpawnFails(c)
  PROVE  LaunchInv'
<1>1. ContextTypes /\ ContextInv(c)
  BY DEF LaunchInv
<1>2. ContextTypes'
  BY <1>1 DEF ContextTypes, SpawnFails
<1>3. ~Started(c) /\ ~Started(c)' /\ phase'[c] = "failed"
  BY <1>1 DEF ContextInv, ContextTypes, SpawnFails, Started
<1>4. \A d \in Contexts \ {c} :
         /\ phase'[d] = phase[d] /\ opts'[d] = opts[d] /\ cb'[d] = cb[d]
         /\ envp'[d] = envp[d] /\ child'[d] = child[d] /\ held'[d] = held[d]
  BY <1>1 DEF ContextTypes, SpawnFails
<1>5. Published \subseteq Published' /\ \A d \in Contexts \ {c} : ContextInv(d)'
  BY <1>3, <1>4, Others
<1>6. ContextInv(c)'
  BY <1>3 DEF ContextInv
<1> QED
  BY <1>2, <1>5, <1>6, NothingRuns DEF SpawnFails

\* The end of voyeur_start() keeps it.
LEMMA StartReturnsStep ==
  ASSUME LaunchInv, NEW c \in Contexts, StartReturns(c)
  PROVE  LaunchInv'
<1>1. ContextTypes /\ ContextInv(c)
  BY DEF LaunchInv
<1>2. held' = [held EXCEPT ![c] = held[c] \ ({"listener"} \cup (IF Debug THEN {"directory"} ELSE {}))]
  BY DEF StartReturns
<1>3. ContextTypes'
  <2>1. held' \in [Contexts -> SUBSET {"context", "state", "env_buf", "listener",
                                       "directory", "libs", "opts"}]
    BY <1>1, <1>2 DEF ContextTypes
  <2>2. phase' \in [Contexts -> {"none", "created", "prepared", "started", "returned",
                                 "failed", "destroyed"}]
    BY <1>1 DEF ContextTypes, StartReturns
  <2> QED
    BY <1>1, <2>1, <2>2 DEF ContextTypes, StartReturns
<1>4. GroupOf(c)' = GroupOf(c) /\ ExecOpts(c)' = ExecOpts(c)
  BY GroupStays DEF StartReturns
<1>5. Started(c) /\ Started(c)' /\ phase'[c] = "returned"
  BY <1>1 DEF ContextInv, ContextTypes, StartReturns, Started
<1>6. \A d \in Contexts \ {c} :
         /\ phase'[d] = phase[d] /\ opts'[d] = opts[d] /\ cb'[d] = cb[d]
         /\ envp'[d] = envp[d] /\ child'[d] = child[d] /\ held'[d] = held[d]
  BY <1>1, <1>2 DEF ContextTypes, StartReturns
<1>7. Published \subseteq Published' /\ \A d \in Contexts \ {c} : ContextInv(d)'
  BY <1>4, <1>5, <1>6, Others
<1>8. ContextInv(c)'
  <2>1. "listener" \notin held'[c] /\ (Debug => "directory" \notin held'[c])
    BY <1>1, <1>2 DEF ContextTypes
  <2>2. opts'[c]["exec"] = ExecOpts(c)'
    BY <1>1, <1>4, <1>5 DEF ContextInv, StartReturns
  <2> QED
    BY <1>5, <2>1, <2>2 DEF ContextInv
<1> QED
  BY <1>3, <1>7, <1>8, NothingRuns DEF StartReturns

\* voyeur_context_destroy() keeps it.
LEMMA DestroyStep ==
  ASSUME LaunchInv, NEW c \in Contexts, Destroy(c)
  PROVE  LaunchInv'
<1>1. ContextTypes /\ ContextInv(c)
  BY DEF LaunchInv
<1>2. held' = [held EXCEPT ![c] = held[c] \ {"context", "state", "env_buf"}]
  BY DEF Destroy
<1>3. ContextTypes'
  <2>1. held' \in [Contexts -> SUBSET {"context", "state", "env_buf", "listener",
                                       "directory", "libs", "opts"}]
    BY <1>1, <1>2 DEF ContextTypes
  <2>2. phase' \in [Contexts -> {"none", "created", "prepared", "started", "returned",
                                 "failed", "destroyed"}]
    BY <1>1 DEF ContextTypes, Destroy
  <2> QED
    BY <1>1, <2>1, <2>2 DEF ContextTypes, Destroy
<1>4. GroupOf(c)' = GroupOf(c) /\ ExecOpts(c)' = ExecOpts(c)
  BY GroupStays DEF Destroy
<1>5. Started(c)' = Started(c) /\ phase'[c] = "destroyed" /\ (Started(c) => phase[c] = "returned")
  BY <1>1 DEF ContextInv, ContextTypes, Destroy, Started
<1>6. \A d \in Contexts \ {c} :
         /\ phase'[d] = phase[d] /\ opts'[d] = opts[d] /\ cb'[d] = cb[d]
         /\ envp'[d] = envp[d] /\ child'[d] = child[d] /\ held'[d] = held[d]
  BY <1>1, <1>2 DEF ContextTypes, Destroy
<1>7. Published \subseteq Published' /\ \A d \in Contexts \ {c} : ContextInv(d)'
  BY <1>4, <1>5, <1>6, Others
<1>8. ContextInv(c)'
  <2>1. held'[c] \cap {"context", "state", "env_buf"} = {} /\ held'[c] \subseteq held[c]
    BY <1>1, <1>2 DEF ContextTypes
  <2>2. Started(c) => "listener" \notin held'[c] /\ (Debug => "directory" \notin held'[c])
    BY <1>1, <1>5, <2>1 DEF ContextInv
  <2>3. Started(c) => opts'[c]["exec"] = ExecOpts(c)'
    BY <1>1, <1>4 DEF ContextInv, Destroy
  <2> QED
    BY <1>5, <2>1, <2>2, <2>3 DEF ContextInv
<1> QED
  BY <1>3, <1>7, <1>8, NothingRuns DEF Destroy

\* The start of the observed child keeps it: the context's group is published.
LEMMA SpawnObservedStep ==
  ASSUME LaunchInv, NEW c \in Contexts, NEW q \in Procs, NEW dynamic \in BOOLEAN,
         SpawnObserved(c, q, dynamic)
  PROVE  LaunchInv'
<1>1. ContextTypes /\ ContextInv(c) /\ Owner[c] \in Procs /\ ProcInv(Owner[c])
  BY LaunchAssumption DEF LaunchInv
<1>2. PICK e : e = Given(Owner[c], envp[c])
  OBVIOUS
<1>3. /\ phase[c] = "prepared" /\ Run(q, e, dynamic) /\ opts' = opts /\ cb' = cb /\ held' = held
      /\ phase' = [phase EXCEPT ![c] = "started"] /\ envp' = [envp EXCEPT ![c] = e]
      /\ child' = [child EXCEPT ![c] = q]
  BY <1>2 DEF SpawnObserved
<1>4. ~Started(c) /\ Started(c)' /\ phase'[c] = "started"
  <2>1. child'[c] = q /\ q # None
    BY <1>1, <1>3, LaunchAssumption DEF ContextTypes
  <2> QED
    BY <1>1, <1>3, <2>1 DEF ContextInv, ContextTypes, Started
<1>5. GroupOf(c)' = GroupOf(c) /\ ExecOpts(c)' = ExecOpts(c)
  BY <1>3, GroupStays
<1>6. \A d \in Contexts \ {c} :
         /\ phase'[d] = phase[d] /\ opts'[d] = opts[d] /\ cb'[d] = cb[d]
         /\ envp'[d] = envp[d] /\ child'[d] = child[d] /\ held'[d] = held[d]
  BY <1>1, <1>3 DEF ContextTypes
<1>7. Published \subseteq Published' /\ \A d \in Contexts \ {c} : ContextInv(d)'
  BY <1>4, <1>6, Others
<1>8. Sound(e, Published')
  <2>1. GroupOf(c)' \in Published'
    BY <1>4 DEF Published, Given_by
  <2>2. Published \cup {GroupOf(c)} \subseteq Published'
    BY <1>5, <1>7, <2>1
  <2>3. Sound(envp[c], Published \cup {GroupOf(c)})
    BY <1>1, <1>3 DEF ContextInv
  <2>4. Sound(envp[c], Published')
    BY <2>2, <2>3, SoundMonotone
  <2> QED
    BY <1>1, <1>2, <1>7, <2>4, GivenSound
<1>9. /\ starts' \in [Procs -> Nat] /\ env' \in [Procs -> Seq(Variables)]
      /\ loaded' \in [Procs -> SUBSET LibNames]
      /\ \A p \in Procs : ProcInv(p)'
  BY <1>3, <1>7, <1>8, Runs
<1>10. ContextTypes'
  <2>1. envp' \in [Contexts -> Seq(Variables) \cup {None}]
    BY <1>1, <1>3, <1>8 DEF ContextTypes, Sound
  <2>2. phase' \in [Contexts -> {"none", "created", "prepared", "started", "returned",
                                 "failed", "destroyed"}]
    BY <1>1, <1>3 DEF ContextTypes
  <2>3. child' \in [Contexts -> Procs \cup {None}]
    BY <1>1, <1>3 DEF ContextTypes
  <2> QED
    BY <1>1, <1>3, <1>9, <2>1, <2>2, <2>3 DEF ContextTypes
<1>11. ContextInv(c)'
  <2>1. opts'[c]["exec"] = ExecOpts(c)'
    BY <1>1, <1>3, <1>5 DEF ContextInv
  <2> QED
    BY <1>4, <2>1 DEF ContextInv
<1> QED
  BY <1>7, <1>9, <1>10, <1>11 DEF LaunchInv

\* Exec() and Spawn(): a program hands on what it was given.
LEMMA ProgramRuns ==
  ASSUME LaunchInv, NEW p \in Procs, NEW q \in Procs, NEW e \in Templates(p),
         NEW dynamic \in BOOLEAN, Run(q, Given(p, e), dynamic), UNCHANGED contextVars
  PROVE  /\ LaunchInv'
         /\ env'[q] = Given(p, e)
         /\ dynamic => loaded'[q] = ItemsOf(Preloaded(Given(p, e)))
<1>1. ContextTypes /\ ProcInv(p) /\ Sound(env[p], Published)
  BY DEF LaunchInv, ProcInv
<1>2. UNCHANGED <<phase, opts, cb, envp, child, held>>
  BY DEF contextVars
<1>3. \A c \in Contexts : GroupOf(c)' = GroupOf(c) /\ Started(c)' = Started(c)
  BY <1>2, GroupStays DEF Started
<1>4. Published \subseteq Published'
  BY <1>3, PublishedGrows
<1>5. \A c \in Contexts : ContextInv(c)'
  BY <1>2, <1>4, ContextStays DEF LaunchInv
<1>6. PICK x : x = Given(p, e)
  OBVIOUS
<1>7. Sound(x, Published')
  <2>1. Sound(e, Published)
    BY <1>1, TemplateSound
  <2>2. Sound(e, Published')
    BY <1>4, <2>1, SoundMonotone
  <2> QED
    BY <1>1, <1>4, <1>6, <2>2, GivenSound
<1>8. /\ starts' \in [Procs -> Nat] /\ env' \in [Procs -> Seq(Variables)]
      /\ loaded' \in [Procs -> SUBSET LibNames]
      /\ env'[q] = x /\ (dynamic => loaded'[q] = ItemsOf(Preloaded(x)))
      /\ \A r \in Procs : ProcInv(r)'
  BY <1>4, <1>6, <1>7, Runs
<1>9. ContextTypes'
  BY <1>1, <1>2, <1>8 DEF ContextTypes
<1> QED
  BY <1>5, <1>6, <1>8, <1>9 DEF LaunchInv

\* The invariant holds initially.
LEMMA LaunchInit ==
  ASSUME Init
  PROVE  LaunchInv
<1>1. \A c \in Contexts : ~Started(c) /\ phase[c] = "none"
  BY DEF Init, Started
<1>2. \A p \in Procs : env[p] = <<>> /\ loaded[p] = {}
  BY DEF Init
<1>3. \A p \in Procs : ProcInv(p)
  BY <1>2, EmptySound DEF ProcInv
<1>4. <<>> \in Seq(Variables)
  BY EmptySeq
<1>5. ContextTypes
  BY <1>4 DEF Init, ContextTypes
<1>6. \A c \in Contexts : ContextInv(c)
  BY <1>1 DEF ContextInv
<1> QED
  BY <1>3, <1>5, <1>6 DEF LaunchInv

\* And through every step.
LEMMA LaunchStep ==
  ASSUME LaunchInv, [Next]_vars
  PROVE  LaunchInv'
<1>1. ASSUME NEW c \in Contexts, ContextStep(c)
      PROVE  LaunchInv'
  <2>1. CASE Create(c)
    BY <2>1, CreateStep
  <2>2. CASE \E r \in Requests : Observe(c, r)
    BY <2>2, ObserveStep
  <2>3. CASE \E e \in Templates(Owner[c]) : Prepare(c, e)
    BY <2>3, PrepareStep
  <2>4. CASE PrepareFails(c)
    BY <2>4, PrepareFailsStep
  <2>5. CASE \E q \in Procs, dynamic \in BOOLEAN : SpawnObserved(c, q, dynamic)
    BY <2>5, SpawnObservedStep
  <2>6. CASE SpawnFails(c)
    BY <2>6, SpawnFailsStep
  <2>7. CASE StartReturns(c)
    BY <2>7, StartReturnsStep
  <2>8. CASE Destroy(c)
    BY <2>8, DestroyStep
  <2> QED
    BY <1>1, <2>1, <2>2, <2>3, <2>4, <2>5, <2>6, <2>7, <2>8 DEF ContextStep
<1>2. ASSUME NEW p \in Procs, ProgramStep(p)
      PROVE  LaunchInv'
  <2>1. PICK e \in Templates(p), dynamic \in BOOLEAN :
           Exec(p, e, dynamic) \/ \E q \in Procs : Spawn(p, q, e, dynamic)
    BY <1>2 DEF ProgramStep
  <2>2. CASE Exec(p, e, dynamic)
    BY <2>2, ProgramRuns DEF Exec
  <2>3. CASE \E q \in Procs : Spawn(p, q, e, dynamic)
    <3>1. PICK q \in Procs : Spawn(p, q, e, dynamic)
      BY <2>3
    <3> QED
      BY <3>1, ProgramRuns DEF Spawn
  <2> QED
    BY <2>1, <2>2, <2>3
<1>3. CASE UNCHANGED vars
  <2>1. UNCHANGED <<env, loaded, starts, phase, opts, cb, envp, child, held>>
    BY <1>3 DEF vars
  <2>2. \A c \in Contexts : GroupOf(c)' = GroupOf(c) /\ Started(c)' = Started(c)
    BY <2>1, GroupStays DEF Started
  <2>3. Published \subseteq Published'
    BY <2>2, PublishedGrows
  <2>4. \A c \in Contexts : ContextInv(c)'
    BY <2>1, <2>3, ContextStays DEF LaunchInv
  <2>5. \A p \in Procs : ProcInv(p)'
    BY <2>1, <2>3, ProcStays DEF LaunchInv
  <2>6. ContextTypes'
    BY <2>1 DEF LaunchInv, ContextTypes
  <2> QED
    BY <2>4, <2>5, <2>6 DEF LaunchInv
<1> QED
  BY <1>1, <1>2, <1>3 DEF Next

\* The environments of all processes, what each has loaded and what the contexts
\* hold, through every step.
THEOREM LaunchInductive == Spec => []LaunchInv
<1>1. Init => LaunchInv
  BY LaunchInit
<1>2. LaunchInv /\ [Next]_vars => LaunchInv'
  BY LaunchStep
<1> QED
  BY <1>1, <1>2, PTL DEF Spec

-----------------------------------------------------------------------------
(* What follows. *)

\* The process that a context's child leads to found the variables of that
\* context, with the options that it still has.
LEMMA FoundGroup ==
  ASSUME LaunchInv, NEW p \in Procs, Reports(p)
  PROVE  \E c \in Contexts :
            /\ Observer(env[p]) = c
            /\ Getenv(env[p], "LIBVOYEUR_LIBS") = voyeur_requested_libs(c)
            /\ Getenv(env[p], "LIBVOYEUR_OPTS") = voyeur_requested_opts(c)
            /\ opts[c]["exec"] = ExecOpts(c)
<1>1. Found(env[p]) \in Published
  BY Instrumented DEF LaunchInv, Reports
<1>2. PICK c \in Contexts : Started(c) /\ Found(env[p]) = GroupOf(c)
  BY <1>1 DEF Published, Given_by
<1>3. /\ Found(env[p]).libs = GroupOf(c).libs /\ Found(env[p]).os = GroupOf(c).os
      /\ Found(env[p]).sock = GroupOf(c).sock
  BY <1>2
<1>4. opts[c]["exec"] = ExecOpts(c)
  BY <1>2 DEF LaunchInv, ContextInv
<1> QED
  BY <1>3, <1>4 DEF Found, GroupOf, Observer

\* TypeOK follows from the invariant.
LEMMA InvTypeOK ==
  ASSUME LaunchInv
  PROVE  TypeOK
<1>1. ContextTypes
  BY DEF LaunchInv
<1>2. loaded \in [Procs -> SUBSET (Events \cup UNION {{s[i] : i \in DOMAIN s} : s \in Preloads})]
  BY <1>1 DEF ContextTypes, LibNames, ItemsOf
<1>3. ASSUME NEW p \in Procs, loaded[p] \cap Events # {}
      PROVE  /\ Getenv(env[p], "LIBVOYEUR_SOCKET") \in Contexts
             /\ Getenv(env[p], "LIBVOYEUR_LIBS") \in Seq(Events) \ {<<>>}
             /\ Getenv(env[p], "LIBVOYEUR_OPTS") \in [1 .. 4 -> 64 .. 95]
  <2>1. Found(env[p]) \in Groups
    BY <1>3, Instrumented DEF LaunchInv
  <2> QED
    BY <2>1 DEF Found, Groups, LibSeqs, OptStrings
<1>4. \A c \in Contexts : held[c] \subseteq {"context", "state", "env_buf", "listener",
                                             "directory", "libs", "opts"}
  BY <1>1 DEF ContextTypes
<1> QED
  BY <1>1, <1>2, <1>3, <1>4 DEF ContextTypes, TypeOK

\* Counting the places of a variable.
LEMMA AtMostOneIs ==
  ASSUME NEW e \in Seq(Variables), NEW name
  PROVE  AtMostOne(Named(e, name)) <=> Cardinality(Named(e, name)) <= 1
<1>1. IsFiniteSet(Named(e, name)) /\ Cardinality(Named(e, name)) \in Nat
  <2>1. Named(e, name) \in SUBSET (1 .. Len(e)) /\ Len(e) \in Int
    BY NamedIn, LenProperties
  <2>2. IsFiniteSet(1 .. Len(e))
    BY <2>1, FS_Interval
  <2> QED
    BY <2>1, <2>2, FS_Subset, FS_CardinalityType
<1>2. Cardinality(Named(e, name)) = 0 <=> Named(e, name) = {}
  BY <1>1, FS_EmptySet
<1>3. Cardinality(Named(e, name)) = 1 <=> \E x : Named(e, name) = {x}
  BY <1>1, FS_Singleton
<1>4. AtMostOne(Named(e, name)) <=> Named(e, name) = {} \/ \E x : Named(e, name) = {x}
  BY DEF AtMostOne
<1>5. Cardinality(Named(e, name)) <= 1 <=>
         Cardinality(Named(e, name)) = 0 \/ Cardinality(Named(e, name)) = 1
  BY <1>1
<1> QED
  BY <1>2, <1>3, <1>4, <1>5, Zenon

\* OnePreload follows.
LEMMA InvOnePreload ==
  ASSUME LaunchInv
  PROVE  OnePreload
BY AtMostOneIs DEF LaunchInv, ProcInv, Sound, OnePreload

\* Released follows.
LEMMA InvReleased ==
  ASSUME LaunchInv
  PROVE  Released
<1> SUFFICES ASSUME NEW c \in Contexts, phase[c] = "destroyed", child[c] # None
             PROVE  held[c] \subseteq {"libs", "opts"} \cup {d \in {"directory"} : ~Debug}
  BY DEF Released
<1>1. /\ "listener" \notin held[c] /\ (Debug => "directory" \notin held[c])
      /\ held[c] \cap {"context", "state", "env_buf"} = {}
  BY DEF LaunchInv, ContextInv, Started
<1>2. held[c] \subseteq {"context", "state", "env_buf", "listener", "directory", "libs", "opts"}
  BY DEF LaunchInv, ContextTypes
<1> QED
  BY <1>1, <1>2

\* AllOrNothing follows.
LEMMA InvAllOrNothing ==
  ASSUME LaunchInv
  PROVE  AllOrNothing
<1> SUFFICES ASSUME NEW p \in Procs, Reports(p),
                    Cardinality(Named(env[p], "LIBVOYEUR_SOCKET")) = 1,
                    Len(Preloaded(env[p])) < CopyRoom
             PROVE  cb[Observer(env[p])] \cup {"exec"} \subseteq loaded[p]
  BY DEF AllOrNothing
<1>1. ProcInv(p) /\ Sound(env[p], Published) /\ env[p] \in Seq(Variables)
  BY DEF LaunchInv, ProcInv, Sound
<1>2. AtMostOne(Named(env[p], "LIBVOYEUR_SOCKET"))
  BY <1>1, AtMostOneIs
<1>3. loaded[p] = ItemsOf(Preloaded(env[p])) /\ Instruments(env[p])
  BY <1>1, Instrumented DEF Reports
<1>4. ItemsOf(Getenv(env[p], "LIBVOYEUR_LIBS")) \subseteq loaded[p]
  BY <1>1, <1>2, <1>3 DEF Sound
<1>5. PICK c \in Contexts : /\ Observer(env[p]) = c
                            /\ Getenv(env[p], "LIBVOYEUR_LIBS") = voyeur_requested_libs(c)
  BY FoundGroup
<1>6. ItemsOf(voyeur_requested_libs(c)) = cb[c] \cup {"exec"}
  <2>1. cb[c] \cup {"exec"} \in SUBSET Events
    BY EventsAre DEF LaunchInv, ContextTypes
  <2> QED
    BY <2>1, LibrariesOf DEF voyeur_requested_libs
<1> QED
  BY <1>4, <1>5, <1>6

\* The option that is decoded for an event, and the bits that its handler tests.
LEMMA Decoded ==
  ASSUME LaunchInv, NEW c \in Contexts, opts[c]["exec"] = ExecOpts(c), NEW e \in Events
  PROVE  /\ voyeur_decode_options(voyeur_requested_opts(c), Number(e)) = opts[c][e] % 32
         /\ opts[c][e] \in 0 .. 255
<1>1. opts[c] \in [Events -> 0 .. 255]
  BY DEF LaunchInv, ContextTypes
<1>2. PICK i \in 1 .. 4 : EventSeq[i] = e /\ Number(e) = i - 1
  <2>1. \E i \in DOMAIN EventSeq : EventSeq[i] = e
    BY DEF Events
  <2>2. PICK i : i = CHOOSE j \in DOMAIN EventSeq : EventSeq[j] = e
    OBVIOUS
  <2>3. i \in DOMAIN EventSeq /\ EventSeq[i] = e
    BY <2>1, <2>2
  <2>4. Number(e) = i - 1
    BY <2>2 DEF Number
  <2> QED
    BY <2>3, <2>4, EventsAre
<1>3. /\ DOMAIN voyeur_requested_opts(c) = 1 .. 4
      /\ voyeur_requested_opts(c)[i] = voyeur_encode_options(opts[c][e])
  BY <1>2, EventsAre DEF voyeur_requested_opts
<1>4. voyeur_requested_opts(c) \in OptStrings
  BY GroupTypes DEF LaunchInv, GroupOf, Groups
<1>5. voyeur_requested_opts(c) # None
  BY <1>4, EventsAre, LaunchAssumption DEF OptStrings
<1>6. Len(voyeur_requested_opts(c)) = 4
  <2>1. PICK s \in OptStrings : s = voyeur_requested_opts(c)
    BY <1>4
  <2>2. s \in Seq(64 .. 95)
    BY SeqDef, ZenonT(40) DEF OptStrings
  <2>3. Len(s) = 4
    BY <2>2, LenProperties DEF OptStrings
  <2> QED
    BY <2>1, <2>3
<1>7. voyeur_decode_options(voyeur_requested_opts(c), Number(e)) = voyeur_encode_options(opts[c][e]) % 32
  <2>1. PICK s : s = voyeur_requested_opts(c)
    OBVIOUS
  <2>2. s # None /\ ~(Number(e) >= Len(s)) /\ Number(e) + 1 = i
    <3>1. ~(Number(e) >= 4) /\ Number(e) + 1 = i
      BY <1>2
    <3>2. Len(s) = 4
      BY <1>6, <2>1, Zenon
    <3>3. s # None
      BY <1>5, <2>1, Zenon
    <3> QED
      BY <3>1, <3>2, <3>3
  <2>3. voyeur_decode_options(s, Number(e)) = s[i] % 32
    BY <2>2 DEF voyeur_decode_options
  <2> QED
    BY <1>3, <2>1, <2>3
<1>8. opts[c][e] \in 0 .. 255
  BY <1>1
<1>9. voyeur_encode_options(opts[c][e]) % 32 = opts[c][e] % 32
  BY <1>8 DEF voyeur_encode_options
<1> QED
  BY <1>7, <1>8, <1>9

\* Five bits are enough for what the handlers test.
LEMMA SameBits ==
  ASSUME NEW o \in 0 .. 255
  PROVE  \A bit \in {1, 2, 4} : Has(o % 32, bit) = Has(o, bit)
<1>1. Has(o % 32, 1) = Has(o, 1)
  BY DEF Has
<1>2. Has(o % 32, 2) = Has(o, 2)
  BY DEF Has
<1>3. Has(o % 32, 4) = Has(o, 4)
  BY DEF Has
<1> QED
  BY <1>1, <1>2, <1>3

\* FieldsAgree follows.
LEMMA InvFieldsAgree ==
  ASSUME LaunchInv
  PROVE  FieldsAgree
<1> SUFFICES ASSUME NEW p \in Procs, Reports(p), NEW e \in Events
             PROVE  LET o == voyeur_decode_options(Getenv(env[p], "LIBVOYEUR_OPTS"), Number(e))
                    IN  Written(e, o) # <<>> => Written(e, o) = Read(e, opts[Observer(env[p])][e])
  BY DEF FieldsAgree
<1>1. PICK c \in Contexts : /\ Observer(env[p]) = c
                            /\ Getenv(env[p], "LIBVOYEUR_OPTS") = voyeur_requested_opts(c)
                            /\ opts[c]["exec"] = ExecOpts(c)
  BY FoundGroup
<1>2. PICK o \in 0 .. 255 : o = opts[c][e] /\
         voyeur_decode_options(Getenv(env[p], "LIBVOYEUR_OPTS"), Number(e)) = o % 32
  BY <1>1, Decoded
<1>3. Written(e, o % 32) # <<>> => Written(e, o % 32) = Read(e, o)
  <2>1. \A bit \in {1, 2, 4} : Has(o % 32, bit) = Has(o, bit)
    BY SameBits
  <2>2. \A f, bit : bit \in {1, 2, 4} => Optional(o % 32, bit, f) = Optional(o, bit, f)
    BY <2>1 DEF Optional
  <2>3. CASE e = "exec"
    <3>1. Optional(o % 32, OBSERVE_EXEC_ENV, Strings) = Optional(o, OBSERVE_EXEC_ENV, Strings)
      BY <2>2 DEF OBSERVE_EXEC_ENV
    <3>2. Optional(o % 32, OBSERVE_EXEC_PATH, <<"string">>) = Optional(o, OBSERVE_EXEC_PATH, <<"string">>)
      BY <2>2 DEF OBSERVE_EXEC_PATH
    <3>3. Optional(o % 32, OBSERVE_EXEC_CWD, <<"string">>) = Optional(o, OBSERVE_EXEC_CWD, <<"string">>)
      BY <2>2 DEF OBSERVE_EXEC_CWD
    <3>4. Read(e, o) = handle_exec(o)
      BY <2>3 DEF Read
    <3>5. Written(e, o % 32) = IF Has(o % 32, OBSERVE_EXEC_SILENT) THEN <<>> ELSE handle_exec(o)
      BY <2>3, <3>1, <3>2, <3>3 DEF Written, handle_exec
    <3> QED
      BY <3>4, <3>5
  <2>4. CASE e = "exit"
    BY <2>4 DEF Written, Read, handle_exit
  <2>5. CASE e = "open"
    <3>1. Optional(o % 32, OBSERVE_OPEN_CWD, <<"string">>) = Optional(o, OBSERVE_OPEN_CWD, <<"string">>)
      BY <2>2 DEF OBSERVE_OPEN_CWD
    <3> QED
      BY <2>5, <3>1 DEF Written, Read, handle_open
  <2>6. CASE e = "close"
    BY <2>6 DEF Written, Read, handle_close
  <2> QED
    BY <2>3, <2>4, <2>5, <2>6, EventsAre
<1> QED
  BY <1>1, <1>2, <1>3

\* A program that is started by an instrumented one, from any environment it may be given.
LEMMA StepStaysObserved ==
  ASSUME LaunchInv, NEW p \in Procs, NEW q \in Procs, NEW e \in Templates(p),
         "exec" \in loaded[p],
         Spawn(p, q, e, TRUE) \/ (q = p /\ Exec(p, e, TRUE)),
         Roomy(e, Libs(env[p]))
  PROVE  /\ Observer(env'[q]) = Observer(env[p])
         /\ {Libs(env[p])[i] : i \in DOMAIN Libs(env[p])} \subseteq loaded'[q]
<1>1. ProcInv(p) /\ Sound(env[p], Published) /\ Sound(e, Published)
      /\ (Named(e, "LIBVOYEUR_SOCKET") # {} => Found(e) = Found(env[p]))
  BY TemplateSound DEF LaunchInv, ProcInv
<1>2. PICK x : x = Given(p, e)
  OBVIOUS
<1>3. env'[q] = x /\ loaded'[q] = ItemsOf(Preloaded(x))
  BY <1>2, ProgramRuns DEF Spawn, Exec
<1>4. PICK libs \in Seq(LibNames), old \in Seq(LibNames) :
         libs = Libs(env[p]) /\ old = Preloaded(e)
  <2>1. Found(env[p]) \in Groups
    BY <1>1, EventsAre, Instrumented
  <2>2. Libs(env[p]) \in Seq(Events) /\ Events \subseteq LibNames
    BY <2>1 DEF Found, Groups, LibSeqs, Libs, LibNames
  <2>3. e \in Seq(Variables)
    BY <1>1 DEF Sound
  <2> QED
    BY <2>2, <2>3, SeqMonotonic, FoundTypes
<1>5. /\ Found(x) = IF Named(e, "LIBVOYEUR_SOCKET") = {} THEN Found(env[p]) ELSE Found(e)
      /\ Preloaded(x) = Copied(Prefixed(libs, old))
  <2>1. PICK H : H = Published
    OBVIOUS
  <2>2. Sound(e, H) /\ Published \subseteq H
    BY <1>1, <2>1
  <2> QED
    BY <1>1, <1>2, <1>4, <2>2, GivenSound DEF Libs
<1>6. Observer(env'[q]) = Observer(env[p])
  <2>1. Found(x) = Found(env[p])
    BY <1>1, <1>5
  <2>2. Found(x).sock = Found(env[p]).sock
    BY <2>1
  <2> QED
    BY <1>3, <2>2 DEF Found, Observer
<1>7. /\ Prefixed(libs, old) \in Seq(LibNames)
      /\ \/ ItemsOf(libs) \subseteq ItemsOf(Prefixed(libs, old))
         \/ Len(libs) + Len(old) > CheckRoom
      /\ Len(Prefixed(libs, old)) <= Len(libs) + Len(old)
  BY Prefixing
<1>8. /\ Len(old) + Len(libs) <= CopyRoom /\ CopyRoom <= CheckRoom
      /\ Len(libs) \in Nat /\ Len(old) \in Nat /\ Len(Prefixed(libs, old)) \in Nat
      /\ CopyRoom \in Nat /\ CheckRoom \in Nat
  BY <1>4, <1>7, LenProperties, LaunchAssumption DEF Roomy
<1>9. Len(Prefixed(libs, old)) <= CopyRoom /\ ~(Len(libs) + Len(old) > CheckRoom)
  BY <1>7, <1>8
<1>10. Preloaded(x) = Prefixed(libs, old)
  BY <1>5, <1>7, <1>9, CopiedOf
<1>11. ItemsOf(libs) \subseteq loaded'[q]
  BY <1>3, <1>7, <1>9, <1>10
<1> QED
  BY <1>4, <1>6, <1>11 DEF ItemsOf

-----------------------------------------------------------------------------
(* The theorems. *)

\* TypeOK: above all, an instrumented process finds in its environment a socket,
\* libraries and options that a voyeur_prepare() put there.
THEOREM TypeCorrect == Spec => []TypeOK
<1>1. LaunchInv => TypeOK
  BY InvTypeOK
<1> QED
  BY <1>1, LaunchInductive, PTL

\* FieldsAgree: the options that arrive through any number of environments have the
\* handlers read the fields that the interposers write.
THEOREM FieldsAlwaysAgree == Spec => []FieldsAgree
<1>1. LaunchInv => FieldsAgree
  BY InvFieldsAgree
<1> QED
  BY <1>1, LaunchInductive, PTL

\* AllOrNothing: a process with one group of variables and room to spare has loaded
\* the library of each callback of the context it reports to.
THEOREM LoadsAllOrNothing == Spec => []AllOrNothing
<1>1. LaunchInv => AllOrNothing
  BY InvAllOrNothing
<1> QED
  BY <1>1, LaunchInductive, PTL

\* OnePreload: voyeur_augment_environment() leaves one LD_PRELOAD.
THEOREM PreloadsOnce == Spec => []OnePreload
<1>1. LaunchInv => OnePreload
  BY InvOnePreload
<1> QED
  BY <1>1, LaunchInductive, PTL

\* Released: what a destroyed context has left after its child was observed.
THEOREM ReleasesAll == Spec => []Released
<1>1. LaunchInv => Released
  BY InvReleased
<1> QED
  BY <1>1, LaunchInductive, PTL

\* StaysObserved: what an instrumented process starts reports where it reports.
THEOREM StaysObservedAlways == Spec => StaysObserved
<1>1. LaunchInv =>
        \A p, q \in Procs : \A e \in Templates(p) :
           /\ "exec" \in loaded[p]
           /\ Spawn(p, q, e, TRUE) \/ (q = p /\ Exec(p, e, TRUE))
           /\ Roomy(e, Libs(env[p]))
           => /\ Observer(env'[q]) = Observer(env[p])
              /\ {Libs(env[p])[i] : i \in DOMAIN Libs(env[p])} \subseteq loaded'[q]
  BY StepStaysObserved
<1> QED
  BY <1>1, LaunchInductive, PTL DEF StaysObserved
=============================================================================
