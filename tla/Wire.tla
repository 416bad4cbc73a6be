--------------------------------- MODULE Wire ---------------------------------
(***************************************************************************)
(* One connection byte by byte: do_write() and do_read() over a stream     *)
(* that may take and give any number of bytes, the writers and readers of  *)
(* net.c built on them, an interposer that sends events with them, and     *)
(* handle_message() with the handlers that read them.                      *)
(*                                                                         *)
(* VoyeurServer takes a field, and all fields of an event together, as one *)
(* item that is read at once; this module is what lies below.  Calls that  *)
(* fail with EINTR or EAGAIN are repeated and have no effect.              *)
(***************************************************************************)
EXTENDS Integers, Sequences

CONSTANTS
    IntBytes,    \* the size of an int, an enum or a pid_t
    SizeBytes,   \* the size of a size_t
    MaxStrLen,   \* VOYEUR_MAX_STRLEN
    BufCap,      \* bytes that the socket holds
    Options,     \* <<event, field>>: the optional fields that the observer asked for
    Reports,     \* sequences of events that the process may come to report
    Null         \* the string that is not there

VARIABLES
    report,   \* the events of the process
    wpc,      \* where it is: idle, in an event, in the last message, over or closed
    at,       \* the do_write() that is being made, or that the next message begins with
    sent,     \* bytes of it that were sent: total_out
    posted,   \* history: events that were sent to their last byte
    chan,     \* bytes in the socket
    want,     \* the do_read() that is being made, and for what
    buf,      \* what it has read
    type,     \* the event type that was read
    got,      \* the fields read of the event
    strs,     \* the strings read of the field
    ropen,    \* the server's end is open
    over,     \* the server has stopped
    log       \* the callbacks made: type and fields

writerVars == <<report, wpc, at, sent, posted>>
readerVars == <<want, buf, type, got, strs, ropen, over, log>>
vars == <<writerVars, chan, readerVars>>

-----------------------------------------------------------------------------
(* Events.  An event is its type and its fields.  A field is an int, a      *)
(* string, or an array of strings, whose number is sent before them; a      *)
(* string is sent as its length and then its text.                          *)

VOYEUR_MSG_EVENT == 0
VOYEUR_MSG_DONE == 1
EventTypes == [exec |-> 0, exit |-> 1, open |-> 2, close |-> 3]

Optional(e, f) == IF <<e, f>> \in Options THEN <<"string">> ELSE <<>>

\* The kinds of the fields, in the order of the handlers.
Layout(t) ==
    CASE t = EventTypes.exec  -> <<"string", "array">>
                                   \o (IF <<"exec", "env">> \in Options THEN <<"array">> ELSE <<>>)
                                   \o Optional("exec", "path") \o Optional("exec", "cwd")
                                   \o <<"int", "int">>
      [] t = EventTypes.exit  -> <<"int", "int", "int">>
      [] t = EventTypes.open  -> <<"string", "int", "int", "int">>
                                   \o Optional("open", "cwd") \o <<"int">>
      [] t = EventTypes.close -> <<"int", "int", "int">>
      [] OTHER                -> <<>>

\* The first of the calls that write, or read, a field of a kind, and the bytes of one.
First == [int |-> "int", string |-> "size", array |-> "count"]
Width(part) == IF part = "size" THEN SizeBytes ELSE IntBytes

\* strnlen(); the null string is sent as an empty one.
Length(s) == CASE s = Null -> 0
               [] OTHER    -> IF Len(s) < MaxStrLen THEN Len(s) ELSE MaxStrLen

Strings == {Null} \cup Seq(Nat)
Values == [int |-> Int, string |-> [{1} -> Strings], array |-> Seq(Strings)]

\* Both ends have the same options (LaunchProperties.FieldsAgree), so that what is
\* written has the layout that is read.
IsEvent(e) ==
    /\ e.type \in 0..3
    /\ Len(e.fields) = Len(Layout(e.type))
    /\ \A f \in 1 .. Len(e.fields) :
          /\ e.fields[f].kind = Layout(e.type)[f]
          /\ e.fields[f].val \in Values[e.fields[f].kind]

ASSUME WireAssumption ==
    /\ IntBytes \in Nat \ {0}
    /\ SizeBytes \in Nat \ {0}
    /\ MaxStrLen \in Nat
    /\ BufCap \in Nat \ {0}
    /\ \A r \in Reports : Len(r) \in Nat /\ \A n \in 1 .. Len(r) : IsEvent(r[n])

-----------------------------------------------------------------------------
(* The process.  A place is a call of do_write(): in which message, for     *)
(* which field, for which string of it (from 0), and for what.              *)

Place(n, f, k, part) == [ev |-> n, field |-> f, elem |-> k, part |-> part]
Message(n) == Place(n, 0, 0, "msgtype")

\* Field f of event n, or the message after it.
Field(n, f) ==
    IF f > Len(report[n].fields) THEN Message(n + 1)
    ELSE Place(n, f, 0, First[report[n].fields[f].kind])

ValueOf(p) == report[p.ev].fields[p.field].val
StringOf(p) == ValueOf(p)[p.elem + 1]

NextString(p, k) ==
    IF k < Len(ValueOf(p)) THEN Place(p.ev, p.field, k, "size")
    ELSE Field(p.ev, p.field + 1)

\* The call after this one; do_write() of no bytes does nothing.
After_NoText(p) ==
    CASE p.part = "msgtype"           -> Place(p.ev, 0, 0, "evtype")
      [] p.part = "done"              -> Message(p.ev + 1)
      [] p.part = "evtype"            -> Field(p.ev, 1)
      [] p.part = "int"               -> Field(p.ev, p.field + 1)
      [] p.part = "count"             -> NextString(p, 0)
      [] OTHER                        -> NextString(p, p.elem + 1)

After(p) ==
    CASE p.part = "msgtype" -> Place(p.ev, 0, 0, "evtype")
      [] p.part = "done"    -> Message(p.ev + 1)
      [] p.part = "evtype"  -> Field(p.ev, 1)
      [] p.part = "int"     -> Field(p.ev, p.field + 1)
      [] p.part = "count"   -> NextString(p, 0)
      [] p.part = "size"    -> IF Length(StringOf(p)) > 0 THEN Place(p.ev, p.field, p.elem, "text")
                               ELSE NextString(p, p.elem + 1)
      [] OTHER              -> NextString(p, p.elem + 1)

\* What it writes: the number of a call that does not write text, and the bytes.
\* A byte tells the number it belongs to, or its character, and its index; its place is history.
Number(p) ==
    CASE p.part = "msgtype" -> VOYEUR_MSG_EVENT
      [] p.part = "done"    -> VOYEUR_MSG_DONE
      [] p.part = "evtype"  -> report[p.ev].type
      [] p.part = "int"     -> ValueOf(p)
      [] p.part = "count"   -> Len(ValueOf(p))
      [] OTHER              -> Length(StringOf(p))

Size(p) == IF p.part = "text" THEN Length(StringOf(p)) ELSE Width(p.part)
Byte(p, i) == [at |-> p, ix |-> i, val |-> IF p.part = "text" THEN StringOf(p)[i] ELSE Number(p)]

\* An interposed call sends its event, if the process gets that far.
BeginEvent ==
    /\ wpc = "idle" /\ at.ev <= Len(report)
    /\ wpc' = "event"
    /\ UNCHANGED <<report, at, sent, posted, chan, readerVars>>

\* The do_write() is over.
Proceed(next) ==
    /\ at' = next
    /\ sent' = 0
    /\ wpc' = IF next.part # "msgtype" THEN wpc ELSE IF wpc = "event" THEN "idle" ELSE "over"

\* send() takes as much as there is room for, or less.
Send_Once ==
    /\ wpc \in {"event", "done"} /\ ropen
    /\ \E k \in 1 .. Size(at) - sent :
         /\ Len(chan) + k <= BufCap
         /\ chan' = chan \o [j \in 1..k |-> Byte(at, sent + j)]
         /\ Proceed(After(at))
         /\ posted' = IF wpc' = "idle" THEN at.ev ELSE posted
    /\ UNCHANGED <<report, readerVars>>

Send ==
    /\ wpc \in {"event", "done"} /\ ropen
    /\ \E k \in 1 .. Size(at) - sent :
         /\ Len(chan) + k <= BufCap
         /\ chan' = chan \o [j \in 1..k |-> Byte(at, sent + j)]
         /\ IF sent + k = Size(at) THEN Proceed(After(at))
            ELSE sent' = sent + k /\ UNCHANGED <<at, wpc>>
         /\ posted' = IF wpc' = "idle" THEN at.ev ELSE posted
    /\ UNCHANGED <<report, readerVars>>

\* Nobody reads any more: this do_write() fails, and the next one is tried, but
\* voyeur_write_string() does not go on to the text.
SendFails ==
    /\ wpc \in {"event", "done"} /\ ~ropen
    /\ Proceed(IF at.part = "size" THEN NextString(at, at.elem + 1) ELSE After(at))
    /\ UNCHANGED <<report, posted, chan, readerVars>>

\* The destructor, or the end of a one-shot report: VOYEUR_MSG_DONE, then close().
WriteDone ==
    /\ wpc = "idle"
    /\ wpc' = "done"
    /\ at' = Place(at.ev, 0, 0, "done")
    /\ UNCHANGED <<report, sent, posted, chan, readerVars>>

Close ==
    /\ wpc = "over"
    /\ wpc' = "closed"
    /\ UNCHANGED <<report, at, sent, posted, chan, readerVars>>

\* The process ends anywhere.
Die ==
    /\ wpc # "closed"
    /\ wpc' = "closed"
    /\ UNCHANGED <<report, at, sent, posted, chan, readerVars>>

-----------------------------------------------------------------------------
(* The server.                                                             *)

Nothing == [part |-> "none", field |-> 0, count |-> 0, bytes |-> 0]
Read(part, field, count) ==
    [part |-> part, field |-> field, count |-> count, bytes |-> Width(part)]
ReadText(n) == [part |-> "text", field |-> want.field, count |-> want.count, bytes |-> n]

\* What a read of bytes yields; a number only of the bytes of one.
AsNumber(b) ==
    IF \A i \in DOMAIN b : b[i].ix = i /\ b[i].val = b[1].val THEN b[1].val ELSE -1
AsText(b) == [i \in DOMAIN b |-> b[i].val]

Idle == ropen /\ want = Nothing
Reading == ropen /\ want # Nothing
Needed == want.bytes - Len(buf)

\* select() finds bytes, or the end of the file, and handle_message() begins.
StartMessage_NoHangup ==
    /\ Idle
    /\ chan # <<>>
    /\ want' = Read("msgtype", 0, 0)
    /\ UNCHANGED <<writerVars, chan, buf, type, got, strs, ropen, over, log>>

StartMessage ==
    /\ Idle
    /\ chan # <<>> \/ wpc = "closed"
    /\ want' = Read("msgtype", 0, 0)
    /\ UNCHANGED <<writerVars, chan, buf, type, got, strs, ropen, over, log>>

\* read() gives what is there, or less.
Receive_Once ==
    /\ Reading /\ Needed > 0
    /\ \E k \in 1..Len(chan) :
         /\ k <= Needed
         /\ buf' = SubSeq(chan, 1, k) \o [i \in 1 .. Needed - k |-> [ix |-> 1, val |-> 0]]
         /\ chan' = SubSeq(chan, k + 1, Len(chan))
    /\ UNCHANGED <<writerVars, want, type, got, strs, ropen, over, log>>

Receive ==
    /\ Reading /\ Needed > 0
    /\ \E k \in 1..Len(chan) :
         /\ k <= Needed
         /\ buf' = buf \o SubSeq(chan, 1, k)
         /\ chan' = SubSeq(chan, k + 1, Len(chan))
    /\ UNCHANGED <<writerVars, want, type, got, strs, ropen, over, log>>

\* read() gives the end of the file.  In a handler the message is given up, and
\* the connection is kept for the next call of select().
EndOfFile_Ignored ==
    /\ Reading /\ Needed > 0
    /\ chan = <<>> /\ wpc = "closed"
    /\ want' = Nothing /\ buf' = <<>> /\ got' = <<>> /\ strs' = <<>>
    /\ IF want.part \in {"msgtype", "evtype"}
       THEN ropen' = FALSE /\ UNCHANGED log
       ELSE log' = Append(log, [type |-> type, vals |-> got]) /\ UNCHANGED ropen
    /\ UNCHANGED <<writerVars, chan, type, over>>

EndOfFile ==
    /\ Reading /\ Needed > 0
    /\ chan = <<>> /\ wpc = "closed"
    /\ want' = Nothing /\ buf' = <<>> /\ got' = <<>> /\ strs' = <<>>
    /\ ropen' = (want.part \notin {"msgtype", "evtype"})
    /\ UNCHANGED <<writerVars, chan, type, over, log>>

\* A do_read() for this has returned.
Complete(part) == Reading /\ want.part = part /\ Needed = 0 /\ buf' = <<>>

ReadMsgType ==
    /\ Complete("msgtype")
    /\ IF AsNumber(buf) = VOYEUR_MSG_EVENT
       THEN want' = Read("evtype", 0, 0) /\ UNCHANGED ropen
       ELSE want' = Nothing /\ ropen' = FALSE
    /\ UNCHANGED <<writerVars, chan, type, got, strs, over, log>>

\* The handler of a type reads field f.
ReadField(t, f) == want' = Read(First[Layout(t)[f]], f, 1)

\* voyeur_handle_event(); an unknown type is ignored.
ReadEventType ==
    /\ Complete("evtype")
    /\ type' = AsNumber(buf)
    /\ IF Layout(type') = <<>> THEN want' = Nothing ELSE ReadField(type', 1)
    /\ UNCHANGED <<writerVars, chan, got, strs, ropen, over, log>>

\* A handler has read a field; the callback follows the last one.
FieldRead(val) ==
    /\ strs' = <<>>
    /\ IF want.field < Len(Layout(type))
       THEN got' = Append(got, val) /\ ReadField(type, want.field + 1) /\ UNCHANGED log
       ELSE /\ log' = Append(log, [type |-> type, vals |-> Append(got, val)])
            /\ got' = <<>> /\ want' = Nothing

\* It has read these of so many strings.
StringsRead(ss, n) ==
    IF Len(ss) >= n THEN FieldRead(ss)
    ELSE strs' = ss /\ want' = Read("size", want.field, n) /\ UNCHANGED <<got, log>>

ReadInt == Complete("int") /\ FieldRead(AsNumber(buf))

\* argc or envc: as many strings are read.
ReadCount == Complete("count") /\ StringsRead(<<>>, AsNumber(buf))

\* voyeur_read_string(); do_read() of no bytes does nothing.
ReadSize ==
    LET n == AsNumber(buf) IN
    /\ Complete("size")
    /\ IF n = 0 THEN StringsRead(Append(strs, <<>>), want.count)
       ELSE want' = ReadText(n) /\ UNCHANGED <<got, strs, log>>

ReadContent == Complete("text") /\ StringsRead(Append(strs, AsText(buf)), want.count)

Handler ==
    /\ ReadInt \/ ReadCount \/ ReadSize \/ ReadContent
    /\ UNCHANGED <<writerVars, chan, type, ropen, over>>

\* run_server ends, between two messages.
Stop ==
    /\ Idle
    /\ ropen' = FALSE
    /\ over' = TRUE
    /\ UNCHANGED <<writerVars, chan, want, buf, type, got, strs, log>>

-----------------------------------------------------------------------------
Init ==
    /\ report \in Reports
    /\ wpc = "idle"
    /\ at = Message(1)
    /\ sent = 0
    /\ posted = 0
    /\ chan = <<>>
    /\ want = Nothing
    /\ buf = <<>>
    /\ type = -1
    /\ got = <<>>
    /\ strs = <<>>
    /\ ropen = TRUE
    /\ over = FALSE
    /\ log = <<>>

ServerStep ==
    \/ StartMessage
    \/ Receive
    \/ EndOfFile
    \/ ReadMsgType
    \/ ReadEventType
    \/ Handler

Next ==
    \/ BeginEvent
    \/ Send
    \/ SendFails
    \/ WriteDone
    \/ Close
    \/ Die
    \/ ServerStep
    \/ Stop

Spec == Init /\ [][Next]_vars
===============================================================================
