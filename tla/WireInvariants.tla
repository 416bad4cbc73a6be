---------------------------- MODULE WireInvariants ----------------------------
(***************************************************************************)
(* The inductive invariant behind the properties of WireProperties.        *)
(***************************************************************************)
EXTENDS WireProperties

\* A call that the process may make: the parts that fit the kind of the field.
IsPlace(p) ==
    /\ p \in Places
    /\ IF p.part \in {"msgtype", "done", "evtype"}
       THEN p.field = 0 /\ p.elem = 0 /\ (p.part = "evtype" => p.ev <= Len(report))
       ELSE /\ p.ev <= Len(report)
            /\ p.field <= Len(report[p.ev].fields) /\ p.field > 0
            /\ p.part \in {"size", "text"} =>
                  report[p.ev].fields[p.field].kind # "int" /\ p.elem < Len(ValueOf(p))
            /\ p.part \in {"int", "count"} =>
                  p.part = First[report[p.ev].fields[p.field].kind] /\ p.elem = 0
            /\ p.part = "text" => Length(StringOf(p)) > 0

\* The process: where it is, and what it has posted.
WriterInv ==
    /\ IsPlace(at)
    /\ sent < Size(at)
    /\ wpc \in {"idle", "over"} => at.part = "msgtype" /\ sent = 0
    /\ wpc = "event" => at.ev <= Len(report) /\ at.part # "done"
    /\ wpc = "done" => at.part = "done"
    /\ ropen => \/ posted = at.ev - 1 /\ wpc # "over"
                \/ posted = at.ev - 2 /\ wpc \in {"over", "closed"} /\ at.part = "msgtype" /\ sent = 0

\* The bytes on their way, and the call and index of the i-th of them or of the
\* next one that will be sent.
flight == buf \o chan
At == [i \in 1 .. Len(flight) + 1 |-> IF i <= Len(flight) THEN flight[i].at ELSE at]
Ix == [i \in 1 .. Len(flight) + 1 |-> IF i <= Len(flight) THEN flight[i].ix ELSE sent + 1]

\* They are bytes of the calls the process made; the last one of an event is there
\* only once it is posted, VOYEUR_MSG_DONE only after the last of them, and other
\* messages are events.
BytesInv ==
    \A i \in 1 .. Len(flight) :
        LET b == flight[i] IN
        /\ IsPlace(b.at) /\ b.ix <= Size(b.at) /\ b = Byte(b.at, b.ix)
        /\ b.at.part = "done" => b.at.ev = posted + 1 /\ wpc \in {"done", "over", "closed"}
        /\ b.at.part # "done" => b.at.ev <= Len(report)
        /\ b.at.part # "done" /\ b.ix = Size(b.at) /\ After(b.at).part = "msgtype"
              => b.at.ev <= posted

\* One call follows another without gaps; the message that follows an event may be
\* the last one.
Follows(p, q) ==
    \/ q = After(p)
    \/ After(p).part = "msgtype" /\ q = Place(After(p).ev, 0, 0, "done")

Chain(A, X, N) ==
    /\ \A i, j \in 1 .. N + 1 : i <= j /\ X[i] + (j - i) <= Size(A[i]) => A[j] = A[i] /\ X[j] = X[i] + (j - i)
    /\ \A i \in 1..N : X[i] = Size(A[i]) => Follows(A[i], A[i + 1]) /\ X[i + 1] = 1

FlightInv == BytesInv /\ Chain(At, Ix, Len(flight))

\* The server reads for this call.
ReadsFor(p) ==
    /\ p.ev = Len(log) + 1
    /\ want.part \in {"none", "msgtype"} => p.part \in {"msgtype", "done"}
    /\ want.part \notin {"none", "msgtype"} =>
          p.part = want.part /\ p.field = want.field /\ p.elem = Len(strs) /\ p.ev <= Len(report)
    /\ want.part # "none" => want.bytes = Size(p)
    /\ want.part = "none" => want = Nothing /\ buf = <<>>
    /\ want.part \in {"none", "msgtype", "evtype"} => got = <<>> /\ strs = <<>>
    /\ want.part \notin {"none", "msgtype", "evtype"} =>
          /\ type = report[p.ev].type
          /\ got = [f \in 1 .. p.field - 1 |-> ArrivedField(report[p.ev].fields[f])]
          /\ strs = [k \in 1 .. p.elem |-> Cut(ValueOf(p)[k])]
    /\ want.part \in {"size", "text"} => want.count = Len(ValueOf(p))

\* It is the one that the first byte on its way belongs to, with what came before.
ReaderInv ==
    /\ Ix[1] = 1
    /\ ReadsFor(At[1])
    /\ want.part = "msgtype" => flight # <<>> \/ wpc = "closed"

\* The process ended inside an event, which was given up.
GivenUp ==
    /\ wpc = "closed" /\ chan = <<>> /\ buf = <<>> /\ got = <<>> /\ strs = <<>>
    /\ want \in {Nothing, Read("msgtype", 0, 0)}
    /\ Len(log) = posted

WireInv ==
    /\ TypeOK
    /\ WriterInv
    /\ Faithful
    /\ over => ~ropen
    /\ ~ropen /\ ~over => Len(log) = posted
    /\ ropen => (FlightInv /\ ReaderInv) \/ GivenUp
===============================================================================
