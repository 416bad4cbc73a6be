---------------------------- MODULE WireProperties ----------------------------
(***************************************************************************)
(* What the two ends of a connection promise each other, whatever the      *)
(* lengths that send() and read() choose.                                  *)
(***************************************************************************)
EXTENDS Wire

Parts == {"msgtype", "done", "evtype", "int", "count", "size", "text"}
Places == [ev : Nat \ {0}, field : Nat, elem : Nat, part : Parts]
Bytes == [at : Places, ix : Nat \ {0}, val : Int]

\* Fields of these kinds, as their handler has them.
AreFields(vals, kinds) ==
    /\ Len(vals) <= Len(kinds)
    /\ \A f \in 1 .. Len(vals) : IF kinds[f] = "int" THEN vals[f] \in Int ELSE vals[f] \in Seq(Seq(Nat))

\* Of every variable: what is read for a field has the type of that field, a read
\* never holds more than it asked for, and the socket never more than it can.
TypeOK ==
    /\ report \in Reports
    /\ wpc \in {"idle", "event", "done", "over", "closed"}
    /\ at \in Places /\ sent \in Nat /\ posted \in Nat
    /\ chan \in Seq(Bytes) /\ Len(chan) <= BufCap
    /\ want \in [part : Parts \cup {"none"}, field : 0 .. Len(Layout(type)), count : Nat, bytes : Nat]
    /\ buf \in Seq(Bytes) /\ Len(buf) <= want.bytes
    /\ type \in -1..3
    /\ AreFields(got, Layout(type))
    /\ strs \in Seq(Seq(Nat))
    /\ ropen \in BOOLEAN /\ over \in BOOLEAN
    /\ \A i \in DOMAIN log : log[i].type \in 0..3 /\ AreFields(log[i].vals, Layout(log[i].type))

\* A string, a field and an event as the callback should have them.
Cut(s) == IF s = Null THEN <<>> ELSE SubSeq(s, 1, Length(s))
ArrivedField(f) == IF f.kind = "int" THEN f.val ELSE [k \in DOMAIN f.val |-> Cut(f.val[k])]
Arrived(e) == [type |-> e.type, vals |-> [f \in 1 .. Len(e.fields) |-> ArrivedField(e.fields[f])]]

\* The callbacks are those of the events the process sent, in order, with every
\* value it sent: strings of any length, null ones and empty arrays included, and
\* however send() and read() split them, also when the process ends in the
\* middle of an event.
Faithful ==
    /\ Len(log) \in 0..posted
    /\ log = [i \in 1 .. Len(log) |-> Arrived(report[i])]

\* The server, and all other connections with it, waits in the middle of a
\* message only for a process that is in the middle of sending it: one outside of
\* the interposers never holds the server up.
NeverStarves ==
    Reading /\ Needed > 0 /\ chan = <<>> /\ wpc # "closed" => wpc \in {"event", "done"}

Channel == INSTANCE EventChannel WITH
    Writers <- {Null},
    MayLose <- FALSE,
    posted  <- [c \in {Null} |-> posted],
    seen    <- [c \in {Null} |-> {}],
    log     <- [i \in 1 .. Len(log) |-> <<Null, i>>],
    lost    <- {c \in {Null} : ~ropen /\ ~over /\ Len(log) < posted}

\* The connection is a queue of events: unless the server stops, none is lost that
\* was sent in full, be the connection ended with VOYEUR_MSG_DONE, by the end of the
\* process after it or inside the next event.
ImplementsChannel == Channel!Spec

\* The server goes on with a message that it can read, and the process with one
\* that the socket has room for.
Fairness == WF_vars(ServerStep) /\ WF_vars(Send)
FairSpec == Spec /\ Fairness

\* An event that was begun arrives, or its process has ended or the server has; and
\* the server closes the connection of a process that has ended.
Arrives ==
    /\ \A n \in UNION {DOMAIN r : r \in Reports} :
          wpc = "event" /\ at.ev = n ~> Len(log) >= n \/ wpc = "closed" \/ over
    /\ wpc = "closed" ~> ~ropen
===============================================================================
