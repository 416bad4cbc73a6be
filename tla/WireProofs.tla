------------------------------ MODULE WireProofs ------------------------------
(***************************************************************************)
(* Proofs about one connection: whatever lengths send() and read() choose, *)
(* the server reads each value with the call that it was written for.      *)
(***************************************************************************)
EXTENDS WireInvariants, FiniteSetTheorems, SequenceTheorems, TLAPS

-----------------------------------------------------------------------------
(* Layouts, and the calls of a frame. *)

FieldKinds == {"int", "string", "array"}

\* Fields are ints, strings and arrays.
LEMMA LayoutKinds ==
  ASSUME NEW t
  PROVE  Layout(t) \in Seq(FieldKinds)
<1>1. Optional("exec", "path") \in Seq(FieldKinds) /\ Optional("exec", "cwd") \in Seq(FieldKinds)
      /\ Optional("open", "cwd") \in Seq(FieldKinds)
  BY DEF Optional, FieldKinds
<1> DEFINE env == IF <<"exec", "env">> \in Options THEN <<"array">> ELSE <<>>
<1>2. env \in Seq(FieldKinds)
  BY DEF FieldKinds
<1> HIDE DEF env
<1>3. <<"string", "array">> \in Seq(FieldKinds) /\ <<"int", "int">> \in Seq(FieldKinds)
      /\ <<"int", "int", "int">> \in Seq(FieldKinds) /\ <<>> \in Seq(FieldKinds)
      /\ <<"string", "int", "int", "int">> \in Seq(FieldKinds) /\ <<"int">> \in Seq(FieldKinds)
  BY DEF FieldKinds
<1>4. <<"string", "array">> \o env \o Optional("exec", "path") \o Optional("exec", "cwd") \o <<"int", "int">>
         \in Seq(FieldKinds)
  BY <1>1, <1>2, <1>3
<1>5. <<"string", "int", "int", "int">> \o Optional("open", "cwd") \o <<"int">> \in Seq(FieldKinds)
  BY <1>1, <1>3
<1> QED
  BY <1>3, <1>4, <1>5 DEF Layout, env

\* Every event has fields, and only what is no event has none.
LEMMA LayoutNotEmpty ==
  ASSUME NEW t
  PROVE  /\ Len(Layout(t)) \in Nat
         /\ t \in 0..3 => Len(Layout(t)) > 0
         /\ Layout(t) = <<>> <=> Len(Layout(t)) = 0
<1>1. Layout(t) \in Seq(FieldKinds)
  BY LayoutKinds
<1>2. CASE t \in 0..3
  <2>1. Optional("exec", "path") \in Seq(FieldKinds) /\ Optional("exec", "cwd") \in Seq(FieldKinds)
        /\ Optional("open", "cwd") \in Seq(FieldKinds)
    BY DEF Optional, FieldKinds
  <2> DEFINE env == IF <<"exec", "env">> \in Options THEN <<"array">> ELSE <<>>
             rest == env \o Optional("exec", "path") \o Optional("exec", "cwd")
  <2>2. env \in Seq(FieldKinds)
    BY DEF FieldKinds
  <2> HIDE DEF env
  <2>3. <<"string", "array">> \in Seq(FieldKinds) /\ <<"int", "int">> \in Seq(FieldKinds)
        /\ <<"string", "int", "int", "int">> \in Seq(FieldKinds) /\ <<"int">> \in Seq(FieldKinds)
    BY DEF FieldKinds
  <2>4. Len(<<"string", "array">> \o env \o Optional("exec", "path") \o Optional("exec", "cwd") \o <<"int", "int">>) > 0
    BY <2>1, <2>2, <2>3
  <2>5. Len(<<"string", "int", "int", "int">> \o Optional("open", "cwd") \o <<"int">>) > 0
    BY <2>1, <2>3
  <2>6. Len(<<"int", "int", "int">>) > 0
    OBVIOUS
  <2>7. CASE t = 0
    BY <1>1, <2>4, <2>7 DEF Layout, EventTypes, env
  <2>8. CASE t = 1 \/ t = 3
    BY <1>1, <2>6, <2>8 DEF Layout, EventTypes
  <2>9. CASE t = 2
    BY <1>1, <2>5, <2>9 DEF Layout, EventTypes
  <2> QED
    BY <1>2, <2>7, <2>8, <2>9
<1> QED
  BY <1>1, <1>2

\* strnlen(): what is sent of a string is as many of its characters.
LEMMA LengthType ==
  ASSUME NEW s \in Strings
  PROVE  /\ Length(s) \in Nat
         /\ Cut(s) \in Seq(Nat) /\ Len(Cut(s)) = Length(s)
         /\ s # Null => \A i \in 1 .. Length(s) : s[i] \in Nat /\ Cut(s)[i] = s[i]
         /\ Length(s) > 0 => s # Null
  BY WireAssumption, SMTT(30) DEF Length, Cut, Strings

\* The fields of an event that a process reports.
LEMMA ReportType ==
  ASSUME report \in Reports, NEW n \in Nat \ {0}, n <= Len(report)
  PROVE  /\ Len(report) \in Nat
         /\ report[n].type \in 0..3
         /\ Len(report[n].fields) = Len(Layout(report[n].type))
         /\ Len(report[n].fields) \in Nat \ {0}
         /\ \A f \in Nat \ {0} : f <= Len(report[n].fields) =>
              LET d == report[n].fields[f] IN
              /\ d.kind = Layout(report[n].type)[f]
              /\ d.kind \in FieldKinds
              /\ d.kind = "int" => d.val \in Int
              /\ d.kind # "int" => d.val \in Seq(Strings)
              /\ d.kind = "string" => Len(d.val) = 1
<1>1. Len(report) \in Nat /\ IsEvent(report[n])
  BY WireAssumption
<1>2. Len(report[n].fields) = Len(Layout(report[n].type)) /\ report[n].type \in 0..3
  BY <1>1 DEF IsEvent
<1>3. Len(Layout(report[n].type)) \in Nat \ {0}
  BY <1>2, LayoutNotEmpty
<1>4. ASSUME NEW f \in Nat \ {0}, f <= Len(report[n].fields)
      PROVE  LET d == report[n].fields[f] IN
              /\ d.kind = Layout(report[n].type)[f]
              /\ d.kind \in FieldKinds
              /\ d.kind = "int" => d.val \in Int
              /\ d.kind # "int" => d.val \in Seq(Strings)
              /\ d.kind = "string" => Len(d.val) = 1
  <2> DEFINE d == report[n].fields[f]
  <2>1. d.kind = Layout(report[n].type)[f] /\ d.val \in Values[d.kind]
    BY <1>1, <1>2, <1>3, <1>4 DEF IsEvent
  <2>2. d.kind \in FieldKinds
    BY <2>1, <1>2, <1>3, <1>4, LayoutKinds
  <2> HIDE DEF d
  <2>3. d.kind = "int" => d.val \in Int
    BY <2>1 DEF Values
  <2>4. d.kind = "array" => d.val \in Seq(Strings)
    BY <2>1 DEF Values
  <2>5. d.kind = "string" => d.val \in Seq(Strings) /\ Len(d.val) = 1
    <3>1. SUFFICES ASSUME d.kind = "string" PROVE d.val \in Seq(Strings) /\ Len(d.val) = 1
      OBVIOUS
    <3>2. d.val \in [1..1 -> Strings]
      <4>1. 1..1 = {1}
        OBVIOUS
      <4> QED
        BY <2>1, <3>1, <4>1 DEF Values
    <3>3. d.val \in Seq(Strings)
      BY <3>2, SeqDef, Zenon
    <3>4. DOMAIN d.val = 1..1
      BY <3>2
    <3>5. Len(d.val) \in Nat /\ 1 .. Len(d.val) = 1..1
      BY <3>3, <3>4, LenProperties, Zenon
    <3>6. 1 \in 1 .. Len(d.val)
      BY <3>5
    <3>7. Len(d.val) \in 1 .. Len(d.val)
      BY <3>5, <3>6
    <3>8. Len(d.val) \in 1..1
      BY <3>5, <3>7, Zenon
    <3> QED
      BY <3>3, <3>8
  <2>6. d.kind \in FieldKinds => d.kind \in {"int", "array", "string"}
    BY DEF FieldKinds
  <2> QED
    BY <2>1, <2>2, <2>3, <2>4, <2>5, <2>6 DEF d
<1> QED
  BY <1>1, <1>2, <1>3, <1>4

-----------------------------------------------------------------------------
(* Places. *)

\* A message may begin with any number, also the last one.
LEMMA MessagePlace ==
  ASSUME NEW n \in Nat \ {0}
  PROVE  /\ IsPlace(Message(n)) /\ Message(n).ev = n /\ Message(n).part = "msgtype"
         /\ IsPlace(Place(n, 0, 0, "done"))
  BY DEF IsPlace, Message, Place, Places, Parts

\* What each kind of call writes.
LEMMA Numbers ==
  ASSUME NEW p
  PROVE  /\ p.part = "msgtype" => Number(p) = 0
         /\ p.part = "done" => Number(p) = 1
         /\ p.part = "evtype" => Number(p) = report[p.ev].type
         /\ p.part = "int" => Number(p) = ValueOf(p)
         /\ p.part = "count" => Number(p) = Len(ValueOf(p))
         /\ p.part = "size" => Number(p) = Length(StringOf(p))
  BY DEF Number, VOYEUR_MSG_EVENT, VOYEUR_MSG_DONE

\* The call that begins a field, or the next message after the last one.
LEMMA FieldPlace ==
  ASSUME report \in Reports, NEW n \in Nat \ {0}, n <= Len(report), NEW f \in Nat \ {0}
  PROVE  /\ IsPlace(Field(n, f))
         /\ f > Len(report[n].fields) => Field(n, f) = Message(n + 1)
         /\ f <= Len(report[n].fields) =>
              Field(n, f) = Place(n, f, 0, First[report[n].fields[f].kind])
         /\ f <= Len(report[n].fields) => Field(n, f).part \in {"int", "size", "count"}
<1>1. CASE f > Len(report[n].fields)
  <2>1. Len(report[n].fields) \in Nat
    BY ReportType
  <2>2. Field(n, f) = Message(n + 1)
    BY <1>1 DEF Field
  <2>3. IsPlace(Message(n + 1))
    <3>1. n + 1 \in Nat \ {0}
      OBVIOUS
    <3> QED
      BY <3>1, MessagePlace
  <2>4. ~(f <= Len(report[n].fields))
    BY <1>1, <2>1
  <2> QED
    BY <1>1, <2>2, <2>3, <2>4
<1>2. CASE ~(f > Len(report[n].fields))
  <2> DEFINE d == report[n].fields[f]
             p == Place(n, f, 0, First[d.kind])
  <2>1. Len(report[n].fields) \in Nat /\ Len(report) \in Nat
    BY ReportType
  <2>2. f <= Len(report[n].fields)
    BY <1>2, <2>1
  <2>3. d.kind \in FieldKinds /\ (d.kind # "int" => d.val \in Seq(Strings))
        /\ (d.kind = "string" => Len(d.val) = 1)
    BY <2>2, ReportType
  <2>4. Field(n, f) = p
    BY <1>2 DEF Field
  <2> HIDE DEF d
  <2>5. First[d.kind] \in {"int", "size", "count"} /\ (First[d.kind] = "size" <=> d.kind = "string")
    BY <2>3 DEF First, FieldKinds
  <2>6. p \in Places
    BY <2>5 DEF Place, Places, Parts
  <2>7. First[d.kind] = "size" => d.kind # "int" /\ 0 < Len(d.val)
    <3>1. First[d.kind] = "size" => d.kind = "string"
      BY <2>5
    <3>2. d.kind = "string" => d.kind # "int" /\ 0 < Len(d.val)
      BY <2>3
    <3> QED
      BY <3>1, <3>2, Zenon
  <2>8. IsPlace(p)
    BY <2>1, <2>2, <2>5, <2>6, <2>7 DEF IsPlace, Place, ValueOf, d
  <2> QED
    BY <2>2, <2>4, <2>5, <2>8 DEF d, Place
<1> QED
  BY <1>1, <1>2

\* What there is to say about a place in a field.
LEMMA PlaceField ==
  ASSUME report \in Reports, NEW p, IsPlace(p), p.part \notin {"msgtype", "done", "evtype"}
  PROVE  /\ p.ev \in Nat \ {0} /\ p.ev <= Len(report)
         /\ p.field \in Nat \ {0} /\ p.field <= Len(report[p.ev].fields)
         /\ p.elem \in Nat
         /\ p.part \in {"int", "count", "size", "text"}
         /\ p.part = "int" => report[p.ev].fields[p.field].kind = "int" /\ ValueOf(p) \in Int
         /\ p.part # "int" => report[p.ev].fields[p.field].kind # "int"
         /\ p.part = "count" => report[p.ev].fields[p.field].kind = "array"
         /\ p.part # "int" => ValueOf(p) \in Seq(Strings) /\ Len(ValueOf(p)) \in Nat
         /\ p.part \in {"int", "count"} => p.elem = 0
         /\ p.part \in {"size", "text"} => p.elem < Len(ValueOf(p)) /\ StringOf(p) \in Strings
         /\ p.part = "text" => Length(StringOf(p)) > 0
<1> DEFINE d == report[p.ev].fields[p.field]
<1>1. /\ p.ev \in Nat \ {0} /\ p.ev <= Len(report)
      /\ p.field \in Nat \ {0} /\ p.field <= Len(report[p.ev].fields)
      /\ p.elem \in Nat
      /\ p.part \in {"int", "count", "size", "text"}
  BY DEF IsPlace, Places, Parts
<1>2. d.kind \in FieldKinds /\ (d.kind = "int" => d.val \in Int)
      /\ (d.kind # "int" => d.val \in Seq(Strings))
  BY <1>1, ReportType
<1>3. /\ p.part \in {"size", "text"} => d.kind # "int" /\ p.elem < Len(d.val)
      /\ p.part = "text" => Length(StringOf(p)) > 0
      /\ p.part \in {"int", "count"} => p.part = First[d.kind] /\ p.elem = 0
  BY DEF IsPlace, ValueOf
<1>4. ValueOf(p) = d.val
  BY DEF ValueOf
<1> HIDE DEF d
<1>5. /\ p.part = "int" => d.kind = "int"
      /\ p.part = "count" => d.kind = "array"
      /\ p.part # "int" => d.kind # "int"
  BY <1>1, <1>2, <1>3 DEF First, FieldKinds
<1>6. p.part \in {"size", "text"} => StringOf(p) \in Strings
  BY <1>1, <1>2, <1>3, <1>4 DEF StringOf
<1>7. p.part # "int" => d.val \in Seq(Strings) /\ Len(d.val) \in Nat
  BY <1>2, <1>5
<1> QED
  BY <1>1, <1>2, <1>3, <1>4, <1>5, <1>6, <1>7 DEF d

\* Every call writes something.
LEMMA SizeType ==
  ASSUME report \in Reports, NEW p, IsPlace(p)
  PROVE  Size(p) \in Nat \ {0}
<1>1. CASE p.part = "text"
  <2>1. StringOf(p) \in Strings /\ Length(StringOf(p)) > 0
    BY <1>1, PlaceField
  <2> QED
    BY <1>1, <2>1, LengthType DEF Size
<1> QED
  BY <1>1, WireAssumption DEF Size, Width

\* A byte says which number or character it belongs to.
LEMMA ByteType ==
  ASSUME report \in Reports, NEW p, IsPlace(p), p.part = "evtype" => p.ev <= Len(report),
         NEW i \in Nat \ {0}, i <= Size(p)
  PROVE  /\ Byte(p, i) \in Bytes
         /\ Byte(p, i).at = p /\ Byte(p, i).ix = i
         /\ p.part # "text" => Byte(p, i).val = Number(p)
         /\ p.part = "text" => Byte(p, i).val = StringOf(p)[i]
<1>1. p \in Places
  BY DEF IsPlace
<1>2. CASE p.part = "text"
  <2>1. StringOf(p) \in Strings /\ Length(StringOf(p)) > 0 /\ Size(p) = Length(StringOf(p))
    BY <1>2, PlaceField DEF Size
  <2>2. StringOf(p)[i] \in Int
    BY <2>1, LengthType
  <2> QED
    BY <1>1, <1>2, <2>2 DEF Byte, Bytes
<1>3. CASE p.part # "text"
  <2>4. Number(p) \in Int
    <3>1. CASE p.part \in {"msgtype", "done"}
      BY <3>1, Numbers
    <3>2. CASE p.part = "evtype"
      <4>1. report[p.ev].type \in 0..3
        BY <1>1, <3>2, ReportType DEF Places
      <4> QED
        BY <3>2, <4>1, Numbers
    <3>3. CASE p.part \notin {"msgtype", "done", "evtype"}
      <4>1. p.part \in {"int", "count", "size"}
        BY <1>3, <3>3, PlaceField
      <4>2. CASE p.part = "int"
        BY <3>3, <4>2, PlaceField, Numbers
      <4>3. CASE p.part = "count"
        BY <3>3, <4>3, PlaceField, Numbers
      <4>4. CASE p.part = "size"
        BY <3>3, <4>4, PlaceField, Numbers, LengthType
      <4> QED
        BY <4>1, <4>2, <4>3, <4>4
    <3> QED
      BY <3>1, <3>2, <3>3
  <2> QED
    BY <1>1, <1>3, <2>4 DEF Byte, Bytes
<1> QED
  BY <1>2, <1>3

\* After a call comes the next of its field, of its event, or of the process.
LEMMA NextStringPlace ==
  ASSUME report \in Reports, NEW p, IsPlace(p), p.part \in {"count", "size", "text"},
         NEW k \in Nat
  PROVE  /\ IsPlace(NextString(p, k)) /\ NextString(p, k).part \notin {"done", "evtype"}
         /\ NextString(p, k).part = "msgtype" =>
              NextString(p, k).ev = p.ev + 1 /\ p.field = Len(report[p.ev].fields)
         /\ NextString(p, k).part # "msgtype" => NextString(p, k).ev = p.ev
<1>1. /\ p.ev \in Nat \ {0} /\ p.ev <= Len(report) /\ p.field \in Nat \ {0}
      /\ p.field <= Len(report[p.ev].fields)
      /\ report[p.ev].fields[p.field].kind # "int"
      /\ Len(ValueOf(p)) \in Nat
  BY PlaceField
<1>2. CASE k < Len(ValueOf(p))
  <2> DEFINE q == Place(p.ev, p.field, k, "size")
  <2>1. NextString(p, k) = q
    BY <1>2 DEF NextString
  <2>2. q \in Places /\ ValueOf(q) = ValueOf(p)
    BY <1>1 DEF Place, Places, Parts, ValueOf
  <2>3. IsPlace(q)
    BY <1>1, <1>2, <2>2 DEF Place, IsPlace
  <2> QED
    BY <2>1, <2>3 DEF Place
<1>3. CASE ~(k < Len(ValueOf(p)))
  <2> DEFINE f == p.field + 1
  <2>1. f \in Nat \ {0} /\ Len(report[p.ev].fields) \in Nat
    BY <1>1, ReportType
  <2>2. NextString(p, k) = Field(p.ev, f)
    BY <1>3 DEF NextString
  <2>3. /\ IsPlace(Field(p.ev, f))
        /\ f > Len(report[p.ev].fields) => Field(p.ev, f) = Message(p.ev + 1)
        /\ f <= Len(report[p.ev].fields) => Field(p.ev, f).part \in {"int", "size", "count"}
              /\ Field(p.ev, f).ev = p.ev
    BY <1>1, <2>1, FieldPlace DEF Place
  <2>4. Message(p.ev + 1).part = "msgtype" /\ Message(p.ev + 1).ev = p.ev + 1
    BY DEF Message, Place
  <2> QED
    BY <1>1, <2>1, <2>2, <2>3, <2>4, SMTT(30)
<1> QED
  BY <1>2, <1>3

\* After() by cases.
LEMMA Afters ==
  ASSUME NEW p
  PROVE  /\ p.part = "msgtype" => After(p) = Place(p.ev, 0, 0, "evtype")
         /\ p.part = "done" => After(p) = Message(p.ev + 1)
         /\ p.part = "evtype" => After(p) = Field(p.ev, 1)
         /\ p.part = "int" => After(p) = Field(p.ev, p.field + 1)
         /\ p.part = "count" => After(p) = NextString(p, 0)
         /\ p.part = "size" => After(p) = IF Length(StringOf(p)) > 0 THEN Place(p.ev, p.field, p.elem, "text")
                                          ELSE NextString(p, p.elem + 1)
         /\ p.part = "text" => After(p) = NextString(p, p.elem + 1)
  BY DEF After

\* The calls of an event follow one another, and the next message follows its last one.
LEMMA AfterPlace ==
  ASSUME report \in Reports, NEW p, IsPlace(p), p.part # "done" => p.ev <= Len(report)
  PROVE  /\ IsPlace(After(p)) /\ After(p).part # "done"
         /\ After(p).part = "msgtype" => After(p).ev = p.ev + 1
         /\ After(p).part # "msgtype" => After(p).ev = p.ev /\ p.ev <= Len(report)
<1>1. p \in Places /\ p.ev \in Nat \ {0} /\ p.part \in Parts
  BY DEF IsPlace, Places
<1>2. CASE p.part = "msgtype"
  <2>1. After(p) = Place(p.ev, 0, 0, "evtype")
    BY <1>2, Afters
  <2> QED
    BY <1>1, <1>2, <2>1 DEF Place, IsPlace, Places, Parts
<1>3. CASE p.part = "done"
  <2>1. After(p) = Message(p.ev + 1) /\ p.ev + 1 \in Nat \ {0}
    BY <1>1, <1>3, Afters
  <2> QED
    BY <1>3, <2>1, MessagePlace
<1>4. CASE p.part \in {"evtype", "int"}
  <2> DEFINE f == p.field + 1
  <2>1. After(p) = Field(p.ev, f)
    <3>1. p.part = "evtype" => p.field = 0
      BY DEF IsPlace
    <3> QED
      BY <1>4, <3>1, Afters
  <2>2. p.ev <= Len(report) /\ f \in Nat \ {0}
    BY <1>1, <1>4 DEF Places
  <2>3. /\ IsPlace(Field(p.ev, f))
        /\ f > Len(report[p.ev].fields) => Field(p.ev, f) = Message(p.ev + 1)
        /\ f <= Len(report[p.ev].fields) => Field(p.ev, f).part \in {"int", "size", "count"}
              /\ Field(p.ev, f).ev = p.ev
    BY <1>1, <2>2, FieldPlace DEF Place
  <2>4. Message(p.ev + 1).part = "msgtype" /\ Message(p.ev + 1).ev = p.ev + 1
    BY DEF Message, Place
  <2>5. Len(report[p.ev].fields) \in Nat
    BY <1>1, <2>2, ReportType
  <2> QED
    BY <2>1, <2>2, <2>3, <2>4, <2>5
<1>5. CASE p.part = "size" /\ Length(StringOf(p)) > 0
  <2> DEFINE q == Place(p.ev, p.field, p.elem, "text")
  <2>1. After(p) = q
    BY <1>5, Afters
  <2>2. /\ p.ev <= Len(report) /\ p.field \in Nat \ {0} /\ p.elem \in Nat
        /\ p.field <= Len(report[p.ev].fields)
        /\ report[p.ev].fields[p.field].kind # "int" /\ p.elem < Len(ValueOf(p))
    BY <1>5, PlaceField
  <2>3. q \in Places /\ ValueOf(q) = ValueOf(p) /\ StringOf(q) = StringOf(p)
    BY <1>1, <2>2 DEF Place, Places, Parts, ValueOf, StringOf
  <2>4. IsPlace(q)
    BY <1>5, <2>2, <2>3 DEF IsPlace, Place
  <2> QED
    BY <2>1, <2>2, <2>4 DEF Place
<1>6. CASE p.part \in {"count", "size", "text"} /\ ~(p.part = "size" /\ Length(StringOf(p)) > 0)
  <2>1. p.elem \in Nat
    BY <1>1 DEF Places
  <2>2. PICK k \in Nat : After(p) = NextString(p, k)
    <3>1. CASE p.part = "count"
      BY <3>1, Afters
    <3>2. CASE p.part # "count"
      <4>1. After(p) = NextString(p, p.elem + 1)
        BY <1>6, <3>2, Afters
      <4> QED
        BY <2>1, <4>1
    <3> QED
      BY <3>1, <3>2
  <2>3. /\ IsPlace(NextString(p, k)) /\ NextString(p, k).part \notin {"done", "evtype"}
        /\ NextString(p, k).part = "msgtype" => NextString(p, k).ev = p.ev + 1
        /\ NextString(p, k).part # "msgtype" => NextString(p, k).ev = p.ev
    BY <1>6, NextStringPlace
  <2> QED
    BY <1>6, <2>2, <2>3
<1> QED
  BY <1>1, <1>2, <1>3, <1>4, <1>5, <1>6 DEF Parts

-----------------------------------------------------------------------------
(* The bytes on their way. *)

\* What is read and written depends on the events only.
LEMMA SameReport ==
  ASSUME report' = report, NEW p, NEW i, NEW n, NEW f, NEW k
  PROVE  /\ IsPlace(p)' <=> IsPlace(p)
         /\ ValueOf(p)' = ValueOf(p) /\ StringOf(p)' = StringOf(p)
         /\ Number(p)' = Number(p)
         /\ Size(p)' = Size(p) /\ Byte(p, i)' = Byte(p, i)
         /\ Field(n, f)' = Field(n, f) /\ NextString(p, k)' = NextString(p, k)
         /\ After(p)' = After(p)
<1>1. ValueOf(p)' = ValueOf(p) /\ StringOf(p)' = StringOf(p)
  BY DEF ValueOf, StringOf
<1>2. Number(p)' = Number(p)
  BY <1>1, Zenon DEF Number
<1>3. IsPlace(p)' <=> IsPlace(p)
  BY <1>1 DEF IsPlace
<1>4. Size(p)' = Size(p)
  BY <1>1 DEF Size
<1>5. Byte(p, i)' = Byte(p, i)
  BY <1>1, <1>2 DEF Byte
<1>6. \A m, g : Field(m, g)' = Field(m, g)
  BY DEF Field
<1>7. \A m : NextString(p, m)' = NextString(p, m)
  BY <1>1, <1>6 DEF NextString
<1>8. After(p)' = After(p)
  <2>1. /\ Field(p.ev, 1)' = Field(p.ev, 1) /\ Field(p.ev, p.field + 1)' = Field(p.ev, p.field + 1)
        /\ NextString(p, 0)' = NextString(p, 0)
        /\ NextString(p, p.elem + 1)' = NextString(p, p.elem + 1)
    BY <1>6, <1>7, Zenon
  <2> QED
    BY <1>1, <2>1, Zenon DEF After
<1> QED
  BY <1>1, <1>2, <1>3, <1>4, <1>5, <1>6, <1>7, <1>8

\* Bytes behind other bytes.
LEMMA Joined ==
  ASSUME NEW b \in Seq(Bytes), NEW c \in Seq(Bytes)
  PROVE  /\ b \o c \in Seq(Bytes) /\ Len(b \o c) = Len(b) + Len(c)
         /\ Len(b) \in Nat /\ Len(c) \in Nat /\ Len(b \o c) \in Nat
         /\ \A i \in 1 .. Len(b) + Len(c) :
              (b \o c)[i] = IF i <= Len(b) THEN b[i] ELSE c[i - Len(b)]
  OBVIOUS

\* What it means that a byte is in its place.
IsByte(b) ==
    /\ IsPlace(b.at) /\ b.ix <= Size(b.at) /\ b = Byte(b.at, b.ix)
    /\ b.at.part = "done" => b.at.ev = posted + 1 /\ wpc \in {"done", "over", "closed"}
    /\ b.at.part # "done" => b.at.ev <= Len(report)
    /\ b.at.part # "done" /\ b.ix = Size(b.at) /\ After(b.at).part = "msgtype"
          => b.at.ev <= posted

\* BytesInv, for one byte at a time.
LEMMA EachByte ==
  BytesInv <=> \A i \in 1 .. Len(flight) : IsByte(flight[i])
  BY DEF BytesInv, IsByte

\* BytesInv after a step, for one byte at a time.
LEMMA NextBytes ==
  ASSUME \A i \in 1 .. Len(flight') : \A b : b = flight'[i] => IsByte(b)'
  PROVE  BytesInv'
  BY DEF BytesInv, IsByte

\* A chain of calls depends on the events only.
LEMMA SameChain ==
  ASSUME report' = report, NEW A, NEW X, NEW N
  PROVE  Chain(A, X, N)' <=> Chain(A, X, N)
<1>1. \A p : Size(p)' = Size(p)
  BY DEF Size, StringOf, ValueOf
<1>2. ASSUME NEW p, NEW q
      PROVE  Follows(p, q)' <=> Follows(p, q)
  <2>1. After(p)' = After(p)
    BY SameReport
  <2> QED
    BY <2>1 DEF Follows
<1> QED
  BY <1>1, <1>2 DEF Chain

\* The calls and indices of the bytes, and their sizes.
LEMMA AtType ==
  ASSUME report \in Reports, flight \in Seq(Bytes), BytesInv, IsPlace(at), sent \in Nat,
         NEW N, N = Len(flight)
  PROVE  /\ N \in Nat
         /\ \A i \in 1..N : At[i] = flight[i].at /\ Ix[i] = flight[i].ix
         /\ At[N + 1] = at /\ Ix[N + 1] = sent + 1
         /\ \A i \in 1 .. N + 1 : IsPlace(At[i]) /\ Ix[i] \in Nat \ {0} /\ Size(At[i]) \in Nat \ {0}
<1>1. N \in Nat
  OBVIOUS
<1>2. /\ \A i \in 1..N : At[i] = flight[i].at /\ Ix[i] = flight[i].ix
      /\ At[N + 1] = at /\ Ix[N + 1] = sent + 1
  BY <1>1 DEF At, Ix
<1>3. ASSUME NEW i \in 1 .. N + 1
      PROVE  IsPlace(At[i]) /\ Ix[i] \in Nat \ {0}
  <2>1. CASE i \in 1..N
    <3>1. flight[i] \in Bytes /\ IsPlace(flight[i].at)
      BY <2>1, ElementOfSeq DEF BytesInv
    <3>2. flight[i].ix \in Nat \ {0}
      BY <3>1 DEF Bytes
    <3> QED
      BY <1>2, <2>1, <3>1, <3>2
  <2>2. CASE i = N + 1
    BY <1>2, <2>2
  <2> QED
    BY <1>1, <2>1, <2>2
<1>4. \A i \in 1 .. N + 1 : Size(At[i]) \in Nat \ {0}
  BY <1>3, SizeType
<1> QED
  BY <1>1, <1>2, <1>3, <1>4

\* B and Y have k bytes of call p after those of A and X, and then call q.
Extension(N, k, A, X, B, Y, p, q, s, t) ==
    /\ N \in Nat /\ k \in Nat /\ k > 0 /\ s \in Nat /\ t \in Nat
    /\ Chain(A, X, N)
    /\ \A i \in 1 .. N + 1 : X[i] \in Nat /\ Size(A[i]) \in Nat
    /\ A[N + 1] = p /\ X[N + 1] = s + 1 /\ s + k <= Size(p)
    /\ \A i \in 1 .. N + 1 : B[i] = A[i] /\ Y[i] = X[i]
    /\ \A j \in 1..k : B[N + j] = p /\ Y[N + j] = s + j
    /\ B[N + k + 1] = q /\ Y[N + k + 1] = t + 1
    /\ s + k = Size(p) => q = After(p) /\ t = 0
    /\ s + k # Size(p) => q = p /\ t = s + k

\* A chain stays one when its last call writes k more bytes and, if it is complete, the
\* next call begins.
LEMMA ChainExtended ==
  ASSUME NEW N, NEW k, NEW A, NEW X, NEW B, NEW Y, NEW p, NEW q, NEW s, NEW t,
         Extension(N, k, A, X, B, Y, p, q, s, t)
  PROVE  Chain(B, Y, N + k)
<1> USE DEF Extension
<1>0. Size(p) \in Nat
  <2>1. N + 1 \in 1 .. N + 1
    OBVIOUS
  <2> QED
    BY <2>1
<1>1. ASSUME NEW i \in 1 .. N + k + 1, NEW j \in 1 .. N + k + 1, i <= j, Y[i] + (j - i) <= Size(B[i])
      PROVE  B[j] = B[i] /\ Y[j] = Y[i] + (j - i)
  <2>1. CASE j <= N + 1
    <3>1. i \in 1 .. N + 1 /\ j \in 1 .. N + 1
      BY <1>1, <2>1
    <3>2. B[i] = A[i] /\ Y[i] = X[i] /\ B[j] = A[j] /\ Y[j] = X[j]
      BY <3>1
    <3>3. X[i] + (j - i) <= Size(A[i])
      BY <1>1, <3>2
    <3> QED
      BY <1>1, <3>1, <3>2, <3>3 DEF Chain
  <2>2. CASE j > N + 1
    <3>1. CASE j = N + k + 1
      <4>1. CASE i = j
        BY <3>1, <4>1
      <4>2. CASE i # j
        <5>1. i < N + k + 1
          BY <1>1, <3>1, <4>2
        <5>2. B[i] = p /\ Y[i] + (N + k - i) = s + k
          <6>1. CASE i <= N + 1
            <7>1. i \in 1 .. N + 1 /\ N + 1 \in 1 .. N + 1 /\ i <= N + 1
              BY <6>1
            <7>2. B[i] = A[i] /\ Y[i] = X[i] /\ X[i] \in Nat /\ Size(A[i]) \in Nat
              BY <7>1
            <7>3. X[i] + (N + 1 - i) <= Size(A[i])
              BY <1>1, <2>2, <7>1, <7>2
            <7>4. A[N + 1] = A[i] /\ X[N + 1] = X[i] + (N + 1 - i)
              BY <7>1, <7>3 DEF Chain
            <7> QED
              BY <7>1, <7>2, <7>4
          <6>2. CASE i > N + 1
            <7>1. i - N \in 1..k /\ N + (i - N) = i
              BY <5>1, <6>2
            <7>2. B[N + (i - N)] = p /\ Y[N + (i - N)] = s + (i - N)
              BY <7>1
            <7> QED
              BY <7>1, <7>2
          <6> QED
            BY <6>1, <6>2
        <5>3. Y[i] \in Int
          <6>1. CASE i <= N + 1
            <7>1. i \in 1 .. N + 1
              BY <6>1
            <7> QED
              BY <7>1
          <6>2. CASE i > N + 1
            <7>1. i - N \in 1..k /\ N + (i - N) = i
              BY <5>1, <6>2
            <7>2. Y[N + (i - N)] = s + (i - N)
              BY <7>1
            <7> QED
              BY <7>1, <7>2
          <6> QED
            BY <6>1, <6>2
        <5>4. s + k # Size(p)
          BY <1>0, <1>1, <3>1, <5>2, <5>3
        <5> QED
          BY <3>1, <5>2, <5>3, <5>4
      <4> QED
        BY <4>1, <4>2
    <3>2. CASE j # N + k + 1
      <4>1. j - N \in 1..k /\ N + (j - N) = j
        BY <2>2, <3>2
      <4>2. B[N + (j - N)] = p /\ Y[N + (j - N)] = s + (j - N)
        BY <4>1
      <4>3. B[j] = p /\ Y[j] = s + (j - N)
        BY <4>1, <4>2
      <4>4. CASE i <= N + 1
        <5>1. i \in 1 .. N + 1 /\ N + 1 \in 1 .. N + 1 /\ i <= N + 1
          BY <4>4
        <5>2. B[i] = A[i] /\ Y[i] = X[i] /\ X[i] \in Nat /\ Size(A[i]) \in Nat
          BY <5>1
        <5>3. X[i] + (N + 1 - i) <= Size(A[i])
          BY <1>1, <2>2, <5>1, <5>2
        <5>4. A[N + 1] = A[i] /\ X[N + 1] = X[i] + (N + 1 - i)
          BY <5>1, <5>3 DEF Chain
        <5> QED
          BY <4>3, <5>1, <5>2, <5>4
      <4>5. CASE i > N + 1
        <5>1. i - N \in 1..k /\ N + (i - N) = i
          BY <1>1, <3>2, <4>5
        <5>2. B[N + (i - N)] = p /\ Y[N + (i - N)] = s + (i - N)
          BY <5>1
        <5>3. B[i] = p /\ Y[i] = s + (i - N)
          BY <5>1, <5>2
        <5> QED
          BY <4>3, <5>3
      <4> QED
        BY <4>4, <4>5
    <3> QED
      BY <3>1, <3>2
  <2> QED
    BY <2>1, <2>2
<1>2. ASSUME NEW i \in 1 .. N + k, Y[i] = Size(B[i])
      PROVE  Follows(B[i], B[i + 1]) /\ Y[i + 1] = 1
  <2>1. CASE i <= N
    <3>1. i \in 1..N /\ i \in 1 .. N + 1 /\ i + 1 \in 1 .. N + 1
      BY <2>1
    <3>2. B[i] = A[i] /\ Y[i] = X[i] /\ B[i + 1] = A[i + 1] /\ Y[i + 1] = X[i + 1]
      BY <3>1
    <3>3. X[i] = Size(A[i])
      BY <1>2, <3>2
    <3>4. Follows(A[i], A[i + 1]) /\ X[i + 1] = 1
      BY <3>1, <3>3 DEF Chain
    <3> QED
      BY <3>2, <3>4
  <2>2. CASE i > N
    <3>1. i - N \in 1..k /\ N + (i - N) = i
      BY <2>2
    <3>2. B[N + (i - N)] = p /\ Y[N + (i - N)] = s + (i - N)
      BY <3>1
    <3>3. B[i] = p /\ s + (i - N) = Size(p)
      BY <1>2, <3>1, <3>2
    <3>4. i = N + k /\ s + k = Size(p)
      BY <1>0, <3>1, <3>3
    <3>5. B[i + 1] = After(p) /\ Y[i + 1] = 1
      BY <3>4
    <3> QED
      BY <3>3, <3>5 DEF Follows
  <2> QED
    BY <2>1, <2>2
<1> QED
  BY <1>1, <1>2 DEF Chain

\* B and Y are A and X without the first m bytes.
Advance(N, m, A, X, B, Y) ==
    /\ N \in Nat /\ m \in 0..N
    /\ Chain(A, X, N)
    /\ \A i \in 1 .. (N - m) + 1 : B[i] = A[i + m] /\ Y[i] = X[i + m]

\* A chain stays one when bytes are taken from its front.
LEMMA ChainAdvanced ==
  ASSUME NEW N, NEW m, NEW A, NEW X, NEW B, NEW Y, Advance(N, m, A, X, B, Y)
  PROVE  Chain(B, Y, N - m)
<1> USE DEF Advance
<1>1. ASSUME NEW i \in 1 .. (N - m) + 1, NEW j \in 1 .. (N - m) + 1, i <= j, Y[i] + (j - i) <= Size(B[i])
      PROVE  B[j] = B[i] /\ Y[j] = Y[i] + (j - i)
  <2>1. i + m \in 1 .. N + 1 /\ j + m \in 1 .. N + 1 /\ i + m <= j + m /\ (j + m) - (i + m) = j - i
    BY <1>1
  <2>2. B[i] = A[i + m] /\ Y[i] = X[i + m] /\ B[j] = A[j + m] /\ Y[j] = X[j + m]
    OBVIOUS
  <2>3. X[i + m] + ((j + m) - (i + m)) <= Size(A[i + m])
    BY <1>1, <2>1, <2>2
  <2>4. A[j + m] = A[i + m] /\ X[j + m] = X[i + m] + ((j + m) - (i + m))
    BY <2>1, <2>3 DEF Chain
  <2> QED
    BY <2>1, <2>2, <2>4
<1>2. ASSUME NEW i \in 1 .. N - m, Y[i] = Size(B[i])
      PROVE  Follows(B[i], B[i + 1]) /\ Y[i + 1] = 1
  <2>1. /\ i \in 1 .. (N - m) + 1 /\ i + 1 \in 1 .. (N - m) + 1
        /\ i + m \in 1..N /\ (i + 1) + m = (i + m) + 1
    OBVIOUS
  <2>2. B[i] = A[i + m] /\ Y[i] = X[i + m] /\ B[i + 1] = A[(i + 1) + m] /\ Y[i + 1] = X[(i + 1) + m]
    BY <2>1
  <2>3. Follows(A[i + m], A[(i + m) + 1]) /\ X[(i + m) + 1] = 1
    BY <1>2, <2>1, <2>2 DEF Chain
  <2> QED
    BY <2>1, <2>2, <2>3
<1> QED
  BY <1>1, <1>2 DEF Chain

\* The process sends k bytes of a call.
Sends(k) ==
    /\ report \in Reports /\ report' = report
    /\ buf \in Seq(Bytes) /\ buf' = buf /\ chan \in Seq(Bytes)
    /\ IsPlace(at) /\ sent \in Nat /\ sent < Size(at) /\ (at.part # "done" => at.ev <= Len(report))
    /\ k \in 1 .. Size(at) - sent
    /\ chan' = chan \o [j \in 1..k |-> Byte(at, sent + j)]
    /\ sent + k = Size(at) => at' = After(at) /\ sent' = 0
    /\ sent + k # Size(at) => at' = at /\ sent' = sent + k

KeepsBytes(k) ==
    /\ \A b \in Bytes : IsByte(b) => IsByte(b)'
    /\ \A j \in 1..k, b \in Bytes : b = Byte(at, sent + j) => IsByte(b)'

\* send() of k bytes keeps the bytes on their way in order.
LEMMA Extended ==
  ASSUME NEW k \in Nat, Sends(k), FlightInv, KeepsBytes(k)
  PROVE  FlightInv' /\ chan' \in Seq(Bytes) /\ At'[1] = At[1] /\ Ix'[1] = Ix[1] /\ flight' # <<>>
<1> DEFINE more == [j \in 1..k |-> Byte(at, sent + j)]
<1>a. PICK N : N = Len(flight)
  OBVIOUS
<1>b. PICK M : M = Len(flight')
  OBVIOUS
<1>0. Size(at) \in Nat \ {0}
  BY SizeType DEF Sends
<1>1. /\ k \in Nat /\ k > 0 /\ sent + k <= Size(at) /\ Size(at) \in Nat /\ sent \in Nat
      /\ sent + k = Size(at) => at' = After(at) /\ sent' = 0
      /\ sent + k # Size(at) => at' = at /\ sent' = sent + k
  BY <1>0 DEF Sends
<1>2. more \in Seq(Bytes) /\ Len(more) = k
  <2>1. \A j \in 1..k : Byte(at, sent + j) \in Bytes
    <3> SUFFICES ASSUME NEW j \in 1..k PROVE Byte(at, sent + j) \in Bytes
      OBVIOUS
    <3>1. sent + j \in Nat \ {0} /\ sent + j <= Size(at)
      BY <1>1
    <3>2. report \in Reports /\ IsPlace(at) /\ (at.part # "done" => at.ev <= Len(report))
      BY DEF Sends
    <3> QED
      BY <3>1, <3>2, ByteType
  <2> QED
    BY <1>1, <2>1
<1>3. \A j \in 1..k : more[j] = Byte(at, sent + j) /\ more[j].at = at /\ more[j].ix = sent + j
  BY DEF Byte
<1>4. chan' = chan \o more /\ chan \in Seq(Bytes) /\ buf \in Seq(Bytes) /\ buf' = buf
  BY DEF Sends
<1> HIDE DEF more
<1>5. /\ flight \in Seq(Bytes) /\ N \in Nat /\ N = Len(buf) + Len(chan)
      /\ Len(buf) \in Nat /\ Len(chan) \in Nat
      /\ \A i \in 1..N : flight[i] = IF i <= Len(buf) THEN buf[i] ELSE chan[i - Len(buf)]
  BY <1>4, <1>a, Joined DEF flight
<1>6. /\ chan' \in Seq(Bytes) /\ Len(chan') = Len(chan) + k
      /\ \A i \in 1 .. Len(chan) + k : chan'[i] = IF i <= Len(chan) THEN chan[i] ELSE more[i - Len(chan)]
  BY <1>2, <1>4, Joined
<1>7. /\ flight' \in Seq(Bytes) /\ M = N + k
      /\ \A i \in 1..M : flight'[i] = IF i <= Len(buf) THEN buf[i] ELSE chan'[i - Len(buf)]
  <2>1. flight' = buf \o chan'
    BY <1>4 DEF flight
  <2>2. /\ buf \o chan' \in Seq(Bytes) /\ Len(buf \o chan') = Len(buf) + Len(chan')
        /\ \A i \in 1 .. Len(buf) + Len(chan') :
              (buf \o chan')[i] = IF i <= Len(buf) THEN buf[i] ELSE chan'[i - Len(buf)]
    BY <1>4, <1>6, Joined
  <2> QED
    BY <1>5, <1>6, <1>b, <2>1, <2>2
<1>8. \A i \in 1..N : flight'[i] = flight[i]
  <2> SUFFICES ASSUME NEW i \in 1..N PROVE flight'[i] = flight[i]
    OBVIOUS
  <2>1. i \in 1..M
    BY <1>5, <1>7
  <2>2. CASE i <= Len(buf)
    BY <1>5, <1>7, <2>1, <2>2
  <2>3. CASE ~(i <= Len(buf))
    <3>1. i - Len(buf) \in 1 .. Len(chan) + k /\ i - Len(buf) <= Len(chan)
      BY <1>5, <2>3
    <3>2. chan'[i - Len(buf)] = chan[i - Len(buf)]
      BY <1>6, <3>1
    <3> QED
      BY <1>5, <1>7, <2>1, <2>3, <3>2
  <2> QED
    BY <2>2, <2>3
<1>9. \A j \in 1..k : flight'[N + j] = more[j]
  <2> SUFFICES ASSUME NEW j \in 1..k PROVE flight'[N + j] = more[j]
    OBVIOUS
  <2>1. N + j \in 1..M /\ ~(N + j <= Len(buf))
    BY <1>5, <1>7
  <2>2. flight'[N + j] = chan'[N + j - Len(buf)]
    BY <1>5, <1>7, <2>1
  <2>3. N + j - Len(buf) = Len(chan) + j
    BY <1>5
  <2>4. Len(chan) + j \in 1 .. Len(chan) + k /\ ~(Len(chan) + j <= Len(chan)) /\ Len(chan) + j - Len(chan) = j
    BY <1>5
  <2>5. chan'[Len(chan) + j] = more[Len(chan) + j - Len(chan)]
    BY <1>6, <2>4
  <2> QED
    BY <2>2, <2>3, <2>4, <2>5
<1>n. N \in Nat /\ M = N + k
  BY <1>5, <1>7
<1>e. \A i \in 1..N : flight[i] \in Bytes
  BY <1>5, <1>a, ElementOfSeq
<1>10. BytesInv /\ Chain(At, Ix, N)
  BY <1>a DEF FlightInv
<1>11. /\ \A i \in 1..N : At[i] = flight[i].at /\ Ix[i] = flight[i].ix
       /\ At[N + 1] = at /\ Ix[N + 1] = sent + 1
       /\ \A i \in 1 .. N + 1 : Ix[i] \in Nat /\ Size(At[i]) \in Nat
  <2>1. report \in Reports /\ IsPlace(at)
    BY DEF Sends
  <2>2. /\ \A i \in 1..N : At[i] = flight[i].at /\ Ix[i] = flight[i].ix
        /\ At[N + 1] = at /\ Ix[N + 1] = sent + 1
        /\ \A i \in 1 .. N + 1 : IsPlace(At[i]) /\ Ix[i] \in Nat \ {0} /\ Size(At[i]) \in Nat \ {0}
    BY <1>1, <1>5, <1>10, <1>a, <2>1, AtType
  <2> QED
    BY <2>2
<1>12. PICK B, Y : B = At' /\ Y = Ix'
  OBVIOUS
<1>13. /\ \A i \in 1..M : B[i] = flight'[i].at /\ Y[i] = flight'[i].ix
       /\ B[M + 1] = at' /\ Y[M + 1] = sent' + 1
  BY <1>1, <1>n, <1>b, <1>12 DEF At, Ix
<1>14. \A j \in 1..k : B[N + j] = at /\ Y[N + j] = sent + j
  <2> SUFFICES ASSUME NEW j \in 1..k PROVE B[N + j] = at /\ Y[N + j] = sent + j
    OBVIOUS
  <2>1. N + j \in 1..M
    BY <1>n
  <2>2. flight'[N + j] = more[j] /\ more[j].at = at /\ more[j].ix = sent + j
    BY <1>3, <1>9
  <2> QED
    BY <1>13, <2>1, <2>2
<1>15. \A i \in 1 .. N + 1 : B[i] = At[i] /\ Y[i] = Ix[i]
  <2> SUFFICES ASSUME NEW i \in 1 .. N + 1 PROVE B[i] = At[i] /\ Y[i] = Ix[i]
    OBVIOUS
  <2>1. CASE i \in 1..N
    <3>1. i \in 1..M
      BY <1>n, <1>1, <2>1
    <3> QED
      BY <1>8, <1>11, <1>13, <2>1, <3>1
  <2>2. CASE i = N + 1
    <3>1. 1 \in 1..k
      BY <1>1
    <3>2. B[N + 1] = at /\ Y[N + 1] = sent + 1
      BY <1>14, <3>1
    <3> QED
      BY <1>11, <2>2, <3>2
  <2> QED
    BY <1>n, <2>1, <2>2
<1>16. BytesInv'
  <2>1. \A i \in 1..N : IsByte(flight[i]) /\ flight[i] \in Bytes
    BY <1>10, <1>a, <1>e, EachByte
  <2>2. ASSUME NEW i \in 1..M, NEW b, b = flight'[i] PROVE IsByte(b)'
    <3>1. CASE i <= N
      <4>1. IsByte(flight[i]) /\ flight[i] \in Bytes /\ b = flight[i]
        BY <1>n, <1>8, <2>1, <2>2, <3>1
      <4> QED
        BY <4>1 DEF KeepsBytes
    <3>2. CASE i > N
      <4>1. PICK j \in 1..k : i = N + j
        <5>1. i - N \in 1..k /\ i = N + (i - N)
          BY <1>1, <1>n, <3>2
        <5> QED
          BY <5>1
      <4>2. b = Byte(at, sent + j) /\ b \in Bytes
        BY <1>2, <1>3, <1>9, <2>2, <4>1, ElementOfSeq
      <4> QED
        BY <4>1, <4>2 DEF KeepsBytes
    <3> QED
      BY <1>n, <3>1, <3>2
  <2> QED
    BY <1>b, <2>2, NextBytes
<1>17. Chain(B, Y, M)
  <2>1. PICK q, t : q = at' /\ t = sent'
    OBVIOUS
  <2>2. t \in Nat /\ k > 0 /\ sent + k <= Size(at) /\ B[N + k + 1] = q /\ Y[N + k + 1] = t + 1
        /\ (sent + k = Size(at) => q = After(at) /\ t = 0)
        /\ (sent + k # Size(at) => q = at /\ t = sent + k)
    BY <1>1, <1>n, <1>13, <2>1
  <2>3. PICK A, X, p, s : A = At /\ X = Ix /\ p = at /\ s = sent
    OBVIOUS
  <2>4. /\ s \in Nat /\ Chain(A, X, N) /\ A[N + 1] = p /\ X[N + 1] = s + 1
        /\ \A i \in 1 .. N + 1 : X[i] \in Nat /\ Size(A[i]) \in Nat
        /\ s + k <= Size(p)
    BY <1>1, <1>10, <1>11, <2>3
  <2>5. /\ \A i \in 1 .. N + 1 : B[i] = A[i] /\ Y[i] = X[i]
        /\ \A j \in 1..k : B[N + j] = p /\ Y[N + j] = s + j
    BY <1>14, <1>15, <2>3
  <2>6. /\ B[N + k + 1] = q /\ Y[N + k + 1] = t + 1 /\ t \in Nat /\ k > 0
        /\ s + k = Size(p) => q = After(p) /\ t = 0
        /\ s + k # Size(p) => q = p /\ t = s + k
    BY <2>2, <2>3
  <2>7. Extension(N, k, A, X, B, Y, p, q, s, t)
    BY <1>1, <1>n, <2>4, <2>5, <2>6 DEF Extension
  <2>8. Chain(B, Y, N + k)
    BY <2>7, ChainExtended
  <2> QED
    BY <1>n, <2>8
<1>18. FlightInv'
  <2>1. Chain(B, Y, M)'
    BY <1>17, SameChain DEF Sends
  <2> QED
    BY <1>16, <1>12, <1>b, <2>1 DEF FlightInv
<1>19. flight' # <<>>
  BY <1>1, <1>n, <1>7, <1>b
<1>20. 1 \in 1 .. N + 1
  BY <1>n
<1> QED
  BY <1>6, <1>12, <1>15, <1>18, <1>19, <1>20
-----------------------------------------------------------------------------
(* What a step of the process leaves to the server. *)

\* What the server has read depends on its variables and the events.
LEMMA SameReader ==
  ASSUME report' = report, UNCHANGED readerVars, NEW p
  PROVE  ReadsFor(p)' <=> ReadsFor(p)
<1>1. Size(p)' = Size(p) /\ ValueOf(p)' = ValueOf(p)
  BY SameReport
<1>2. want' = want /\ buf' = buf /\ type' = type /\ got' = got /\ strs' = strs /\ log' = log
  BY DEF readerVars
<1> QED
  BY <1>1, <1>2 DEF ReadsFor

\* A step that sends and reads nothing leaves the bytes on their way in order.
LEMMA SameFlight ==
  ASSUME report' = report, flight' = flight, at' = at, sent' = sent, posted' = posted,
         wpc \in {"done", "over", "closed"} => wpc' \in {"done", "over", "closed"},
         FlightInv
  PROVE  FlightInv' /\ At' = At /\ Ix' = Ix
<1>1. At' = At /\ Ix' = Ix
  BY DEF At, Ix
<1>2. BytesInv'
  <2>1. PICK F : F = flight
    OBVIOUS
  <2>2. \A i \in 1 .. Len(F) : IsByte(F[i])
    BY <2>1, EachByte DEF FlightInv
  <2>3. ASSUME NEW i \in 1 .. Len(flight'), NEW b, b = flight'[i] PROVE IsByte(b)'
    <3>1. IsByte(b)
      BY <2>1, <2>2, <2>3
    <3>2. (IsPlace(b.at)' <=> IsPlace(b.at)) /\ Size(b.at)' = Size(b.at) /\ Byte(b.at, b.ix)' = Byte(b.at, b.ix)
          /\ After(b.at)' = After(b.at)
      BY SameReport
    <3> QED
      BY <3>1, <3>2 DEF IsByte
  <2> QED
    BY <2>3, NextBytes
<1>3. PICK A, X, N : A = At /\ X = Ix /\ N = Len(flight)
  OBVIOUS
<1>4. Chain(A, X, N)
  BY <1>3 DEF FlightInv
<1>5. Chain(A, X, N)'
  BY <1>4, SameChain
<1>6. FlightInv'
  BY <1>1, <1>2, <1>3, <1>5 DEF FlightInv
<1> QED
  BY <1>1, <1>6

\* A step of the process leaves the types of what the server has.
LEMMA SameTypes ==
  ASSUME TypeOK, report' = report, UNCHANGED readerVars,
         wpc' \in {"idle", "event", "done", "over", "closed"},
         at' \in Places, sent' \in Nat, posted' \in Nat, chan' \in Seq(Bytes), Len(chan') <= BufCap
  PROVE  TypeOK'
<1>1. /\ want' = want /\ buf' = buf /\ type' = type /\ got' = got /\ strs' = strs
      /\ ropen' = ropen /\ over' = over /\ log' = log
  BY DEF readerVars
<1> QED
  BY <1>1 DEF TypeOK, AreFields

\* Each action of the process keeps the invariant.
LEMMA BeginEventStep ==
  ASSUME WireInv, BeginEvent \/ Close \/ Die
  PROVE  WireInv'
<1>1. /\ report' = report /\ at' = at /\ sent' = sent /\ posted' = posted /\ chan' = chan
      /\ UNCHANGED readerVars /\ wpc # "closed"
      /\ \/ wpc = "idle" /\ wpc' = "event" /\ at.ev <= Len(report)
         \/ wpc = "over" /\ wpc' = "closed"
         \/ wpc' = "closed"
  BY DEF BeginEvent, Close, Die
<1>2. /\ want' = want /\ buf' = buf /\ type' = type /\ got' = got /\ strs' = strs
      /\ ropen' = ropen /\ over' = over /\ log' = log
  BY <1>1 DEF readerVars
<1>3. TypeOK'
  <2>1. at \in Places /\ sent \in Nat /\ posted \in Nat /\ chan \in Seq(Bytes) /\ Len(chan) <= BufCap /\ TypeOK
    BY DEF WireInv, TypeOK
  <2>2. wpc' \in {"idle", "event", "done", "over", "closed"}
    BY <1>1
  <2> QED
    BY <1>1, <2>1, <2>2, SameTypes
<1>4. WriterInv'
  <2>1. PICK p : p = at
    OBVIOUS
  <2>2. (IsPlace(p)' <=> IsPlace(p)) /\ Size(p)' = Size(p)
    BY <1>1, SameReport
  <2>3. /\ IsPlace(p) /\ sent < Size(p)
        /\ wpc \in {"idle", "over"} => p.part = "msgtype" /\ sent = 0
        /\ ropen => \/ posted = p.ev - 1 /\ wpc # "over"
                    \/ posted = p.ev - 2 /\ wpc \in {"over", "closed"} /\ p.part = "msgtype" /\ sent = 0
    BY <2>1 DEF WireInv, WriterInv
  <2>4. IsPlace(at)' /\ sent' < Size(at)'
    BY <1>1, <2>1, <2>2, <2>3
  <2>5. wpc' = "event" => p.ev <= Len(report) /\ p.part # "done"
    BY <1>1, <2>1, <2>3
  <2> QED
    BY <1>1, <1>2, <2>1, <2>3, <2>4, <2>5 DEF WriterInv
<1>5. Faithful'
  BY <1>1, <1>2 DEF WireInv, Faithful, Arrived
<1>6. ASSUME ropen, FlightInv, ReaderInv
      PROVE  FlightInv' /\ ReaderInv'
  <2>1. flight' = flight
    BY <1>1, <1>2 DEF flight
  <2>2. FlightInv' /\ At' = At /\ Ix' = Ix
    BY <1>1, <1>6, <2>1, SameFlight
  <2>3. PICK p : p = At[1]
    OBVIOUS
  <2>4. ReadsFor(p)
    BY <1>6, <2>3 DEF ReaderInv
  <2>5. ReadsFor(p)'
    BY <1>1, <2>4, SameReader
  <2> QED
    BY <1>1, <1>2, <1>6, <2>1, <2>2, <2>3, <2>5 DEF ReaderInv
<1>7. GivenUp => GivenUp'
  BY <1>1, <1>2 DEF GivenUp
<1> QED
  BY <1>1, <1>2, <1>3, <1>4, <1>5, <1>6, <1>7 DEF WireInv
\* Where the process is after a do_write().
LEMMA Proceeds ==
  ASSUME TypeOK, WriterInv, report' = report, wpc \in {"event", "done"}, NEW next, Proceed(next),
         next = After(at) \/ (at.part = "size" /\ next = NextString(at, at.elem + 1))
  PROVE  /\ at' = next /\ sent' = 0 /\ at' \in Places
         /\ IsPlace(at)' /\ 0 < Size(at)'
         /\ wpc' \in {"event", "idle", "over"}
         /\ wpc' = "event" => wpc = "event" /\ at'.ev = at.ev /\ at'.ev <= Len(report) /\ at'.part # "msgtype"
         /\ wpc' = "idle" => wpc = "event" /\ at'.ev = at.ev + 1
         /\ wpc' = "over" => wpc = "done" /\ at'.ev = at.ev + 1
         /\ wpc' \in {"idle", "over"} => at'.part = "msgtype"
         /\ at'.part # "done"
<1>1. /\ at' = next /\ sent' = 0
      /\ next.part # "msgtype" => wpc' = wpc
      /\ next.part = "msgtype" /\ wpc = "event" => wpc' = "idle"
      /\ next.part = "msgtype" /\ wpc # "event" => wpc' = "over"
  BY DEF Proceed
<1>2. /\ IsPlace(at) /\ report \in Reports
      /\ wpc = "event" => at.ev <= Len(report) /\ at.part # "done"
      /\ wpc = "done" => at.part = "done"
  BY DEF WriterInv, TypeOK
<1>3. at.elem \in Nat
  BY <1>2 DEF IsPlace, Places
<1>4. /\ IsPlace(next) /\ next.part # "done"
      /\ next.part = "msgtype" => next.ev = at.ev + 1
      /\ next.part # "msgtype" => next.ev = at.ev /\ at.ev <= Len(report)
  <2>1. CASE next = After(at)
    BY <1>2, <2>1, AfterPlace
  <2>2. CASE at.part = "size" /\ next = NextString(at, at.elem + 1)
    <3>1. PICK k : k = at.elem + 1
      OBVIOUS
    <3>2. at.part \in {"count", "size", "text"} /\ k \in Nat
      BY <1>3, <2>2, <3>1
    <3>3. /\ IsPlace(NextString(at, k)) /\ NextString(at, k).part \notin {"done", "evtype"}
          /\ NextString(at, k).part = "msgtype" => NextString(at, k).ev = at.ev + 1
          /\ NextString(at, k).part # "msgtype" => NextString(at, k).ev = at.ev
      BY <1>2, <3>2, NextStringPlace
    <3> QED
      BY <1>2, <2>2, <3>1, <3>3
  <2> QED
    BY <2>1, <2>2
<1>5. wpc = "done" => next.part = "msgtype"
  <2>1. ASSUME wpc = "done" PROVE next.part = "msgtype"
    <3>1. at.part = "done" /\ next = After(at)
      BY <1>2, <2>1
    <3>2. next = Message(at.ev + 1)
      BY <3>1, Afters
    <3> QED
      BY <3>2 DEF Message, Place
  <2> QED
    BY <2>1
<1>6. IsPlace(next)' /\ Size(next)' = Size(next) /\ Size(next) \in Nat \ {0}
  BY <1>2, <1>4, SameReport, SizeType
<1>7. IsPlace(at)' /\ 0 < Size(at)'
  BY <1>1, <1>6
<1>8. at' \in Places
  BY <1>1, <1>4 DEF IsPlace
<1> QED
  BY <1>1, <1>2, <1>4, <1>5, <1>7, <1>8

LEMMA SendFailsStep ==
  ASSUME WireInv, SendFails
  PROVE  WireInv'
<1>1. /\ report' = report /\ posted' = posted /\ chan' = chan /\ UNCHANGED readerVars
      /\ wpc \in {"event", "done"} /\ ~ropen
  BY DEF SendFails
<1>2. /\ want' = want /\ buf' = buf /\ type' = type /\ got' = got /\ strs' = strs
      /\ ropen' = ropen /\ over' = over /\ log' = log
  BY <1>1 DEF readerVars
<1>3. PICK next : /\ Proceed(next)
                  /\ next = After(at) \/ (at.part = "size" /\ next = NextString(at, at.elem + 1))
  <2>1. PICK m : m = IF at.part = "size" THEN NextString(at, at.elem + 1) ELSE After(at)
    OBVIOUS
  <2>2. Proceed(m)
    BY <2>1 DEF SendFails
  <2>3. m = After(at) \/ (at.part = "size" /\ m = NextString(at, at.elem + 1))
    <3>1. CASE at.part = "size"
      BY <2>1, <3>1
    <3>2. CASE at.part # "size"
      BY <2>1, <3>2
    <3> QED
      BY <3>1, <3>2
  <2> QED
    BY <2>2, <2>3, Zenon
<1>4. /\ at' = next /\ sent' = 0 /\ at' \in Places
      /\ IsPlace(at)' /\ 0 < Size(at)'
      /\ wpc' \in {"event", "idle", "over"}
      /\ wpc' = "event" => at'.ev <= Len(report)
      /\ wpc' \in {"idle", "over"} => at'.part = "msgtype"
      /\ at'.part # "done"
  BY <1>1, <1>3, Proceeds DEF WireInv
<1>5. TypeOK'
  <2>1. posted \in Nat /\ chan \in Seq(Bytes) /\ Len(chan) <= BufCap /\ TypeOK
    BY DEF WireInv, TypeOK
  <2>2. wpc' \in {"idle", "event", "done", "over", "closed"} /\ sent' \in Nat
    BY <1>4
  <2> QED
    BY <1>1, <1>4, <2>1, <2>2, SameTypes
<1>6. WriterInv'
  BY <1>1, <1>2, <1>4 DEF WriterInv
<1>7. Faithful'
  BY <1>1, <1>2 DEF WireInv, Faithful, Arrived
<1> QED
  BY <1>1, <1>2, <1>5, <1>6, <1>7 DEF WireInv

\* Between two messages the server is there, too.
LEMMA BetweenMessages ==
  ASSUME FlightInv, ReaderInv, TypeOK, WriterInv, wpc # "closed", flight = <<>>, at.part = "msgtype"
  PROVE  want.part = "none" /\ At[1] = at /\ Ix[1] = 1
<1>1. At[1] = at
  BY DEF At
<1>2. want.part \in {"none", "msgtype"}
  BY <1>1 DEF ReaderInv, ReadsFor
<1> QED
  BY <1>1, <1>2 DEF ReaderInv

LEMMA WriteDoneStep ==
  ASSUME WireInv, WriteDone
  PROVE  WireInv'
<1>1. /\ report' = report /\ sent' = sent /\ posted' = posted /\ chan' = chan
      /\ UNCHANGED readerVars /\ wpc = "idle" /\ wpc' = "done"
      /\ at' = Place(at.ev, 0, 0, "done")
  BY DEF WriteDone
<1>2. /\ want' = want /\ buf' = buf /\ type' = type /\ got' = got /\ strs' = strs
      /\ ropen' = ropen /\ over' = over /\ log' = log
  BY <1>1 DEF readerVars
<1>3. PICK p, q, n : p = at /\ q = at' /\ n = p.ev
  OBVIOUS
<1>4. /\ IsPlace(p) /\ p.part = "msgtype" /\ sent = 0 /\ report \in Reports
      /\ sent \in Nat /\ posted \in Nat
      /\ ropen => posted = n - 1
  BY <1>1, <1>3 DEF WireInv, WriterInv, TypeOK
<1>5. n \in Nat \ {0} /\ q = Place(n, 0, 0, "done")
  BY <1>1, <1>3, <1>4 DEF IsPlace, Places
<1>6. IsPlace(q) /\ q.part = "done" /\ q.ev = n
  BY <1>5, MessagePlace DEF Place
<1>7. IsPlace(q)' /\ Size(q)' = Size(q) /\ Size(q) \in Nat \ {0}
  BY <1>1, <1>4, <1>6, SameReport, SizeType
<1>8. TypeOK'
  <2>1. chan \in Seq(Bytes) /\ Len(chan) <= BufCap /\ TypeOK
    BY DEF WireInv, TypeOK
  <2>2. wpc' \in {"idle", "event", "done", "over", "closed"} /\ at' \in Places
    BY <1>1, <1>3, <1>6 DEF IsPlace
  <2> QED
    BY <1>1, <1>4, <2>1, <2>2, SameTypes
<1>9. WriterInv'
  <2>1. IsPlace(at)' /\ sent' < Size(at)'
    BY <1>1, <1>3, <1>4, <1>7
  <2>2. ropen' => posted' = at'.ev - 1
    BY <1>1, <1>2, <1>3, <1>4, <1>6
  <2> QED
    BY <1>1, <1>3, <1>6, <2>1, <2>2 DEF WriterInv
<1>10. Faithful'
  BY <1>1, <1>2 DEF WireInv, Faithful, Arrived
<1>11. ASSUME ropen, FlightInv, ReaderInv
       PROVE  FlightInv' /\ ReaderInv'
  <2>1. flight' = flight
    BY <1>1, <1>2 DEF flight
  <2>2. PICK F, N : F = flight /\ N = Len(F)
    OBVIOUS
  <2>3. F \in Seq(Bytes) /\ BytesInv /\ IsPlace(at) /\ sent \in Nat
    BY <1>3, <1>4, <1>11, <2>2, Joined DEF WireInv, TypeOK, flight, FlightInv
  <2>4. /\ N \in Nat
        /\ At[N + 1] = p /\ Ix[N + 1] = 1
    BY <1>3, <1>4, <2>2, <2>3, AtType
  <2>5. PICK A, X, B, Y : A = At /\ X = Ix /\ B = At' /\ Y = Ix'
    OBVIOUS
  <2>6. /\ \A i \in 1..N : B[i] = A[i]
        /\ \A i \in 1 .. N + 1 : Y[i] = X[i]
        /\ B[N + 1] = q
    BY <1>1, <1>3, <2>1, <2>2, <2>4, <2>5 DEF At, Ix
  <2>7. Chain(A, X, N) /\ A[N + 1] = p /\ X[N + 1] = 1
    BY <1>11, <2>2, <2>4, <2>5 DEF FlightInv
  <2>8. \A i \in 1 .. N + 1 : X[i] \in Nat \ {0}
    BY <1>4, <2>2, <2>3, <2>5, AtType
  <2>9. Chain(B, Y, N)
    <3>1. ASSUME NEW i \in 1 .. N + 1, NEW j \in 1 .. N + 1, i <= j, Y[i] + (j - i) <= Size(B[i])
          PROVE  B[j] = B[i] /\ Y[j] = Y[i] + (j - i)
      <4>1. CASE i = N + 1
        <5>1. j = i /\ j - i = 0 /\ Y[i] \in Nat
          <6>1. j = i
            BY <2>4, <3>1, <4>1
          <6> QED
            BY <2>6, <2>8, <6>1
        <5> QED
          BY <5>1
      <4>2. CASE i # N + 1
        <5>1. i \in 1..N /\ B[i] = A[i] /\ Y[i] = X[i] /\ Y[j] = X[j]
          BY <2>4, <2>6, <4>2
        <5>2. A[j] = A[i] /\ X[j] = X[i] + (j - i)
          BY <2>7, <3>1, <5>1 DEF Chain
        <5>3. CASE j = i
          BY <5>1, <5>2, <5>3
        <5>4. CASE j # i
          <6>1. X[i] \in Nat \ {0} /\ j - i > 0
            BY <2>8, <3>1, <5>4
          <6>2. X[j] > 1
            BY <5>2, <6>1
          <6>3. j # N + 1
            BY <2>7, <6>2
          <6>4. B[j] = A[j]
            BY <2>4, <2>6, <6>3
          <6> QED
            BY <5>1, <5>2, <6>4
        <5> QED
          BY <5>3, <5>4
      <4> QED
        BY <4>1, <4>2
    <3>2. ASSUME NEW i \in 1..N, Y[i] = Size(B[i])
          PROVE  Follows(B[i], B[i + 1]) /\ Y[i + 1] = 1
      <4>1. i + 1 \in 1 .. N + 1 /\ B[i] = A[i] /\ Y[i] = X[i] /\ Y[i + 1] = X[i + 1]
        BY <2>4, <2>6
      <4>2. Follows(A[i], A[i + 1]) /\ X[i + 1] = 1
        BY <2>7, <3>2, <4>1 DEF Chain
      <4>3. CASE i = N
        <5>1. Follows(A[i], p)
          BY <2>7, <4>2, <4>3
        <5>2. p = After(A[i])
          BY <1>4, <5>1 DEF Follows, Place
        <5> QED
          BY <1>3, <1>4, <1>5, <2>6, <4>1, <4>2, <4>3, <5>2 DEF Follows
      <4>4. CASE i # N
        <5>1. i + 1 \in 1..N
          BY <2>4, <4>4
        <5> QED
          BY <2>6, <4>1, <4>2, <5>1
      <4> QED
        BY <4>3, <4>4
    <3> QED
      BY <3>1, <3>2 DEF Chain
  <2>10. BytesInv'
    <3>1. \A i \in 1 .. Len(F) : IsByte(F[i])
      BY <2>2, <2>3, EachByte
    <3>2. ASSUME NEW i \in 1 .. Len(flight'), NEW b, b = flight'[i] PROVE IsByte(b)'
      <4>1. IsByte(b)
        BY <2>1, <2>2, <3>1, <3>2
      <4>2. (IsPlace(b.at)' <=> IsPlace(b.at)) /\ Size(b.at)' = Size(b.at) /\ Byte(b.at, b.ix)' = Byte(b.at, b.ix)
            /\ After(b.at)' = After(b.at)
        BY <1>1, SameReport
      <4> QED
        BY <1>1, <4>1, <4>2 DEF IsByte
    <3> QED
      BY <3>2, NextBytes
  <2>11. FlightInv'
    <3>1. Chain(B, Y, N)'
      BY <1>1, <2>9, SameChain
    <3> QED
      BY <2>1, <2>2, <2>5, <2>10, <3>1 DEF FlightInv
  <2>12. CASE N = 0
    <3>1. flight = <<>> /\ wpc # "closed" /\ at.part = "msgtype"
      <4>1. Len(F) = 0
        BY <2>2, <2>12
      <4>2. F = <<>>
        BY <2>3, <4>1
      <4> QED
        BY <1>1, <1>3, <1>4, <2>2, <4>2
    <3>2. want.part = "none" /\ At[1] = at
      BY <1>11, <3>1, BetweenMessages DEF WireInv
    <3>3. PICK r : r = At[1]
      OBVIOUS
    <3>4. ReadsFor(p) /\ Ix[1] = 1
      BY <1>3, <1>11, <3>2 DEF ReaderInv
    <3>5. ReadsFor(q)
      BY <1>3, <1>6, <3>2, <3>4 DEF ReadsFor
    <3>6. ReadsFor(q)'
      BY <1>1, <3>5, SameReader
    <3>7. B[1] = q /\ Y[1] = 1
      BY <2>6, <2>7, <2>12
    <3> QED
      BY <1>2, <2>5, <2>11, <3>2, <3>6, <3>7 DEF ReaderInv
  <2>13. CASE N # 0
    <3>1. B[1] = A[1] /\ Y[1] = X[1]
      BY <2>4, <2>6, <2>13
    <3>2. PICK r : r = A[1]
      OBVIOUS
    <3>3. ReadsFor(r) /\ X[1] = 1
      BY <1>11, <2>5, <3>2 DEF ReaderInv
    <3>4. ReadsFor(r)'
      BY <1>1, <3>3, SameReader
    <3>5. flight' # <<>>
      BY <2>1, <2>2, <2>3, <2>13
    <3> QED
      BY <2>5, <2>11, <3>1, <3>2, <3>3, <3>4, <3>5 DEF ReaderInv
  <2> QED
    BY <2>12, <2>13
<1>12. GivenUp => GivenUp'
  BY <1>1 DEF GivenUp
<1> QED
  BY <1>1, <1>2, <1>8, <1>9, <1>10, <1>11, <1>12 DEF WireInv
LEMMA SendStep ==
  ASSUME WireInv, Send
  PROVE  WireInv'
<1>1. /\ report' = report /\ UNCHANGED readerVars
      /\ wpc \in {"event", "done"} /\ ropen
  BY DEF Send
<1>2. /\ want' = want /\ buf' = buf /\ type' = type /\ got' = got /\ strs' = strs
      /\ ropen' = ropen /\ over' = over /\ log' = log
  BY <1>1 DEF readerVars
<1>3. PICK k \in 1 .. Size(at) - sent :
         /\ Len(chan) + k <= BufCap
         /\ chan' = chan \o [j \in 1..k |-> Byte(at, sent + j)]
         /\ IF sent + k = Size(at) THEN Proceed(After(at))
            ELSE sent' = sent + k /\ UNCHANGED <<at, wpc>>
         /\ posted' = IF wpc' = "idle" THEN at.ev ELSE posted
  BY DEF Send
<1>4. /\ TypeOK /\ WriterInv /\ report \in Reports /\ IsPlace(at) /\ sent \in Nat /\ sent < Size(at)
      /\ posted \in Nat /\ chan \in Seq(Bytes) /\ buf \in Seq(Bytes) /\ Len(chan) <= BufCap
      /\ wpc = "event" => at.ev <= Len(report) /\ at.part # "done"
      /\ wpc = "done" => at.part = "done"
      /\ posted = at.ev - 1 /\ at \in Places
  BY <1>1 DEF WireInv, TypeOK, WriterInv, IsPlace
<1>5. at.ev \in Nat \ {0} /\ Size(at) \in Nat /\ k \in Nat /\ k > 0 /\ sent + k <= Size(at)
  <2>1. Size(at) \in Nat
    BY <1>4, SizeType
  <2> QED
    BY <1>3, <1>4, <2>1 DEF Places
<1>6. sent + k = Size(at) =>
      /\ at' = After(at) /\ sent' = 0 /\ at' \in Places
      /\ IsPlace(at)' /\ 0 < Size(at)'
      /\ wpc' \in {"event", "idle", "over"}
      /\ wpc' = "event" => wpc = "event" /\ at'.ev = at.ev /\ at'.ev <= Len(report) /\ at'.part # "msgtype"
      /\ wpc' = "idle" => wpc = "event" /\ at'.ev = at.ev + 1
      /\ wpc' = "over" => wpc = "done" /\ at'.ev = at.ev + 1
      /\ wpc' \in {"idle", "over"} => at'.part = "msgtype"
      /\ at'.part # "done"
  <2> SUFFICES ASSUME sent + k = Size(at)
               PROVE  /\ at' = After(at) /\ sent' = 0 /\ at' \in Places
                      /\ IsPlace(at)' /\ 0 < Size(at)'
                      /\ wpc' \in {"event", "idle", "over"}
                      /\ wpc' = "event" => wpc = "event" /\ at'.ev = at.ev /\ at'.ev <= Len(report) /\ at'.part # "msgtype"
                      /\ wpc' = "idle" => wpc = "event" /\ at'.ev = at.ev + 1
                      /\ wpc' = "over" => wpc = "done" /\ at'.ev = at.ev + 1
                      /\ wpc' \in {"idle", "over"} => at'.part = "msgtype"
                      /\ at'.part # "done"
    BY Zenon
  <2>1. PICK next : next = After(at) /\ Proceed(next)
    BY <1>3
  <2> QED
    BY <1>1, <1>4, <2>1, Proceeds
<1>7. sent + k # Size(at) => at' = at /\ sent' = sent + k /\ wpc' = wpc /\ posted' = posted
  BY <1>1, <1>3
<1>8. /\ wpc' \in {"event", "done", "idle", "over"} /\ sent' \in Nat /\ at' \in Places
      /\ wpc' = "idle" => posted' = at.ev
      /\ wpc' # "idle" => posted' = posted
      /\ posted' \in Nat /\ posted <= posted'
  BY <1>1, <1>3, <1>4, <1>5, <1>6, <1>7, SMTT(30)
<1>9. Sends(k)
  BY <1>2, <1>3, <1>4, <1>1, <1>6, <1>7 DEF Sends
<1>10. KeepsBytes(k)
  <2>1. ASSUME NEW b \in Bytes, IsByte(b)
        PROVE  IsByte(b)'
    <3>1. (IsPlace(b.at)' <=> IsPlace(b.at)) /\ Size(b.at)' = Size(b.at) /\ Byte(b.at, b.ix)' = Byte(b.at, b.ix)
          /\ After(b.at)' = After(b.at)
      BY <1>1, SameReport
    <3>2. b.at.ev \in Nat
      BY <2>1 DEF Bytes, Places
    <3>3. b.at.part = "done" => b.at.ev = posted' + 1 /\ wpc' \in {"done", "over", "closed"}
      BY <1>1, <1>6, <1>7, <1>8, <2>1 DEF IsByte
    <3>4. b.at.part # "done" /\ b.ix = Size(b.at) /\ After(b.at).part = "msgtype" => b.at.ev <= posted'
      BY <1>4, <1>8, <2>1, <3>2 DEF IsByte
    <3> QED
      BY <1>1, <2>1, <3>1, <3>3, <3>4 DEF IsByte
  <2>2. ASSUME NEW j \in 1..k, NEW b \in Bytes, b = Byte(at, sent + j)
        PROVE  IsByte(b)'
    <3>1. PICK p, i : p = at /\ i = sent + j
      OBVIOUS
    <3>2. i \in Nat \ {0} /\ i <= Size(p) /\ IsPlace(p) /\ (p.part = "evtype" => p.ev <= Len(report))
      BY <1>1, <1>4, <1>5, <2>2, <3>1
    <3>3. b = Byte(p, i) /\ b.at = p /\ b.ix = i
      BY <1>4, <2>2, <3>1, <3>2, ByteType
    <3>4. (IsPlace(p)' <=> IsPlace(p)) /\ Size(p)' = Size(p) /\ Byte(p, i)' = Byte(p, i)
          /\ After(p)' = After(p)
      BY <1>1, SameReport
    <3>5. p.part = "done" => p.ev = posted' + 1 /\ wpc' \in {"done", "over", "closed"}
      BY <1>1, <1>4, <1>5, <1>6, <1>7, <1>8, <3>1
    <3>6. p.part # "done" => p.ev <= Len(report)
      BY <1>1, <1>4, <3>1
    <3>7. p.part # "done" /\ i = Size(p) /\ After(p).part = "msgtype" => p.ev <= posted'
      <4>1. SUFFICES ASSUME p.part # "done", i = Size(p), After(p).part = "msgtype"
                     PROVE  p.ev <= posted'
        OBVIOUS
      <4>2. sent + k = Size(at)
        BY <1>4, <1>5, <2>2, <3>1, <4>1, SMTT(30)
      <4>3. at'.part = "msgtype" /\ wpc = "event"
        BY <1>1, <1>4, <1>6, <3>1, <4>1, <4>2
      <4>4. wpc' = "idle"
        BY <1>6, <4>2, <4>3
      <4> QED
        BY <1>5, <1>8, <3>1, <4>4
    <3>8. IsPlace(p)' /\ i <= Size(p)' /\ b = Byte(p, i)'
      BY <3>2, <3>3, <3>4
    <3> QED
      BY <1>1, <3>3, <3>4, <3>5, <3>6, <3>7, <3>8 DEF IsByte
  <2> QED
    BY <2>1, <2>2 DEF KeepsBytes
<1>11. FlightInv /\ ReaderInv /\ Faithful /\ (over => ~ropen)
  BY <1>1 DEF WireInv, GivenUp
<1>12. FlightInv' /\ chan' \in Seq(Bytes) /\ At'[1] = At[1] /\ Ix'[1] = Ix[1] /\ flight' # <<>>
  BY <1>5, <1>9, <1>10, <1>11, Extended
<1>13. TypeOK'
  <2>1. Len(chan') <= BufCap
    <3>1. Len([j \in 1..k |-> Byte(at, sent + j)]) = k /\ [j \in 1..k |-> Byte(at, sent + j)] \in Seq(Bytes)
      <4>1. ASSUME NEW j \in 1..k PROVE Byte(at, sent + j) \in Bytes
        <5>1. PICK i : i = sent + j
          OBVIOUS
        <5>2. i \in Nat \ {0} /\ i <= Size(at) /\ (at.part = "evtype" => at.ev <= Len(report))
          BY <1>1, <1>4, <1>5, <4>1, <5>1
        <5> QED
          BY <1>4, <5>1, <5>2, ByteType
      <4> QED
        BY <1>5, <4>1
    <3> QED
      BY <1>3, <1>4, <3>1, Joined
  <2>2. wpc' \in {"idle", "event", "done", "over", "closed"}
    BY <1>8
  <2> QED
    BY <1>1, <1>4, <1>8, <1>12, <2>1, <2>2, SameTypes
<1>14. WriterInv'
  <2>1. IsPlace(at)' /\ sent' < Size(at)'
    <3>1. CASE sent + k = Size(at)
      BY <1>6, <3>1
    <3>2. CASE sent + k # Size(at)
      <4>1. PICK p : p = at
        OBVIOUS
      <4>2. (IsPlace(p)' <=> IsPlace(p)) /\ Size(p)' = Size(p)
        BY <1>1, SameReport
      <4>3. IsPlace(p) /\ sent + k < Size(p)
        BY <1>4, <1>5, <3>2, <4>1, SMTT(30)
      <4> QED
        BY <1>7, <3>2, <4>1, <4>2, <4>3
    <3> QED
      BY <3>1, <3>2
  <2>2. /\ wpc' \in {"idle", "over"} => at'.part = "msgtype" /\ sent' = 0
        /\ wpc' = "event" => at'.ev <= Len(report') /\ at'.part # "done"
        /\ wpc' = "done" => at'.part = "done"
    BY <1>1, <1>4, <1>6, <1>7
  <2>3. \/ posted' = at'.ev - 1 /\ wpc' # "over"
        \/ posted' = at'.ev - 2 /\ wpc' \in {"over", "closed"} /\ at'.part = "msgtype" /\ sent' = 0
    BY <1>1, <1>4, <1>5, <1>6, <1>7, <1>8, SMTT(30)
  <2> QED
    BY <2>1, <2>2, <2>3 DEF WriterInv
<1>15. Faithful'
  <2>1. Len(log') \in 0..posted'
    <3>1. PICK n : n = Len(log)
      OBVIOUS
    <3>2. n \in 0..posted
      BY <1>11, <3>1 DEF Faithful
    <3> QED
      BY <1>2, <1>4, <1>8, <3>1, <3>2
  <2> QED
    BY <1>1, <1>2, <1>11, <2>1 DEF Faithful, Arrived
<1>16. ReaderInv'
  <2>1. PICK p : p = At[1]
    OBVIOUS
  <2>2. ReadsFor(p) /\ Ix[1] = 1
    BY <1>11, <2>1 DEF ReaderInv
  <2>3. ReadsFor(p)'
    BY <1>1, <2>2, SameReader
  <2> QED
    BY <1>12, <2>1, <2>2, <2>3 DEF ReaderInv
<1> QED
  BY <1>1, <1>2, <1>11, <1>12, <1>13, <1>14, <1>15, <1>16 DEF WireInv
-----------------------------------------------------------------------------
(* The server reads. *)

\* The server may stop between two messages.
LEMMA StopStep ==
  ASSUME WireInv, Stop
  PROVE  WireInv'
<1>1. /\ report' = report /\ wpc' = wpc /\ at' = at /\ sent' = sent /\ posted' = posted /\ chan' = chan
      /\ want' = want /\ buf' = buf /\ type' = type /\ got' = got /\ strs' = strs /\ log' = log
      /\ ropen' = FALSE /\ over' = TRUE
  BY DEF Stop, writerVars
<1>2. TypeOK'
  BY <1>1 DEF WireInv, TypeOK, AreFields
<1>3. WriterInv'
  <2>1. PICK p : p = at
    OBVIOUS
  <2>2. (IsPlace(p)' <=> IsPlace(p)) /\ Size(p)' = Size(p)
    BY <1>1, SameReport
  <2> QED
    BY <1>1, <2>1, <2>2 DEF WireInv, WriterInv
<1>4. Faithful'
  BY <1>1 DEF WireInv, Faithful, Arrived
<1> QED
  BY <1>1, <1>2, <1>3, <1>4 DEF WireInv

\* A step of the server leaves the process as it was.
LEMMA SameWriter ==
  ASSUME WriterInv, UNCHANGED writerVars, ropen' => ropen
  PROVE  WriterInv'
<1>1. report' = report /\ wpc' = wpc /\ at' = at /\ sent' = sent /\ posted' = posted
  BY DEF writerVars
<1>2. PICK p : p = at
  OBVIOUS
<1>3. (IsPlace(p)' <=> IsPlace(p)) /\ Size(p)' = Size(p)
  BY <1>1, SameReport
<1> QED
  BY <1>1, <1>2, <1>3 DEF WriterInv

\* The server begins a message between two messages only.
LEMMA StartMessageStep ==
  ASSUME WireInv, StartMessage
  PROVE  WireInv'
<1>1. /\ report' = report /\ wpc' = wpc /\ at' = at /\ sent' = sent /\ posted' = posted /\ chan' = chan
      /\ UNCHANGED writerVars
      /\ buf' = buf /\ type' = type /\ got' = got /\ strs' = strs /\ log' = log
      /\ ropen' = ropen /\ over' = over /\ ropen /\ want = Nothing
      /\ want' = Read("msgtype", 0, 0) /\ (chan # <<>> \/ wpc = "closed")
  BY DEF StartMessage, Idle, writerVars
<1>2. TypeOK /\ WriterInv /\ Faithful /\ ((FlightInv /\ ReaderInv) \/ GivenUp) /\ (over => ~ropen)
  BY <1>1 DEF WireInv
<1>3. want.part = "none" /\ want'.part = "msgtype" /\ want'.bytes = IntBytes /\ want'.field = 0 /\ want'.count = 0
  BY <1>1 DEF Nothing, Read, Width
<1>4. buf = <<>>
  BY <1>2, <1>3 DEF ReaderInv, ReadsFor, GivenUp
<1>5. TypeOK'
  <2>1. Len(Layout(type)) \in Nat
    BY LayoutNotEmpty
  <2>2. want' \in [part : Parts \cup {"none"}, field : 0 .. Len(Layout(type)), count : Nat, bytes : Nat]
    BY <1>1, <2>1, WireAssumption DEF Read, Width, Parts
  <2>3. Len(buf) <= want'.bytes
    BY <1>3, <1>4, WireAssumption
  <2> QED
    BY <1>1, <1>2, <2>2, <2>3 DEF TypeOK, AreFields
<1>6. WriterInv' /\ Faithful'
  BY <1>1, <1>2, SameWriter DEF Faithful, Arrived
<1>7. ASSUME FlightInv, ReaderInv
      PROVE  FlightInv' /\ ReaderInv'
  <2>1. flight' = flight
    BY <1>1 DEF flight
  <2>2. FlightInv' /\ At' = At /\ Ix' = Ix
    BY <1>1, <1>7, <2>1, SameFlight
  <2>3. PICK p : p = At[1]
    OBVIOUS
  <2>4. ReadsFor(p) /\ Ix[1] = 1
    BY <1>7, <2>3 DEF ReaderInv
  <2>5. p.part \in {"msgtype", "done"} /\ Size(p) = IntBytes
    BY <1>3, <2>4 DEF ReadsFor, Size, Width
  <2>6. Size(p)' = Size(p)
    BY <1>1, SameReport
  <2>7. ReadsFor(p)'
    BY <1>1, <1>3, <2>4, <2>5, <2>6 DEF ReadsFor
  <2>8. flight' # <<>> \/ wpc' = "closed"
    <3>1. chan # <<>> => flight # <<>>
      BY <1>2, <1>4 DEF flight, TypeOK
    <3> QED
      BY <1>1, <2>1, <3>1
  <2> QED
    BY <2>2, <2>3, <2>4, <2>7, <2>8 DEF ReaderInv
<1>8. GivenUp => GivenUp'
  BY <1>1 DEF GivenUp, Read, Width
<1> QED
  BY <1>1, <1>2, <1>5, <1>6, <1>7, <1>8 DEF WireInv

\* read() moves bytes that are on their way.
LEMMA ReceiveStep ==
  ASSUME WireInv, Receive
  PROVE  WireInv'
<1>1. /\ report' = report /\ wpc' = wpc /\ at' = at /\ sent' = sent /\ posted' = posted
      /\ UNCHANGED writerVars
      /\ want' = want /\ type' = type /\ got' = got /\ strs' = strs /\ log' = log
      /\ ropen' = ropen /\ over' = over /\ ropen /\ want # Nothing
  BY DEF Receive, Reading, writerVars
<1>2. PICK k \in 1 .. Len(chan) :
         k <= want.bytes - Len(buf) /\ buf' = buf \o SubSeq(chan, 1, k) /\ chan' = SubSeq(chan, k + 1, Len(chan))
  BY DEF Receive, Needed
<1>3. TypeOK /\ WriterInv /\ Faithful /\ ((FlightInv /\ ReaderInv) \/ GivenUp) /\ (over => ~ropen)
      /\ buf \in Seq(Bytes) /\ chan \in Seq(Bytes) /\ Len(chan) <= BufCap /\ want.bytes \in Nat
  BY <1>1 DEF WireInv, TypeOK
<1>4. Len(chan) \in Nat /\ Len(buf) \in Nat /\ k \in Nat /\ k > 0 /\ k <= Len(chan)
  BY <1>2, <1>3
<1>5. FlightInv /\ ReaderInv
  BY <1>3, <1>4 DEF GivenUp
<1>6. PICK a, b : a = SubSeq(chan, 1, k) /\ b = SubSeq(chan, k + 1, Len(chan))
  OBVIOUS
<1>7. a \in Seq(Bytes) /\ Len(a) = k /\ b \in Seq(Bytes) /\ Len(b) = Len(chan) - k /\ chan = a \o b
  <2>1. /\ \A i \in 1..k : chan[i] \in Bytes
        /\ \A i \in k + 1 .. Len(chan) : chan[i] \in Bytes
    BY <1>3, <1>4, ElementOfSeq
  <2>2. a \in Seq(Bytes) /\ Len(a) = k
    BY <1>4, <1>6, <2>1, SubSeqProperties
  <2>3. b \in Seq(Bytes) /\ Len(b) = Len(chan) - k
    <3>1. Len(b) = IF k + 1 <= Len(chan) THEN Len(chan) - (k + 1) + 1 ELSE 0
      BY <1>4, <1>6, <2>1, SubSeqProperties
    <3>2. b \in Seq(Bytes)
      BY <1>4, <1>6, <2>1, SubSeqProperties
    <3> QED
      BY <1>4, <3>1, <3>2
  <2>4. a \o b = SubSeq(chan, 1, Len(chan))
    BY <1>3, <1>4, <1>6, ConcatAdjacentSubSeq
  <2> QED
    BY <1>3, <2>2, <2>3, <2>4, SubSeqFull
<1>8. flight' = flight
  <2>1. flight' = (buf \o a) \o b
    BY <1>2, <1>6 DEF flight
  <2>2. (buf \o a) \o b = buf \o (a \o b)
    <3>1. PICK c : c = buf
      OBVIOUS
    <3>2. c \in Seq(Bytes) /\ a \in Seq(Bytes) /\ b \in Seq(Bytes)
      BY <1>3, <1>7, <3>1
    <3>3. (c \o a) \o b = c \o (a \o b)
      BY <3>2, ConcatAssociative, SMTT(30)
    <3> QED
      BY <3>1, <3>3
  <2> QED
    BY <1>7, <2>1, <2>2 DEF flight
<1>9. TypeOK'
  <2>1. buf' \in Seq(Bytes) /\ Len(buf') = Len(buf) + k
    BY <1>2, <1>3, <1>6, <1>7, Joined
  <2>2. Len(buf') <= want.bytes /\ chan' \in Seq(Bytes) /\ Len(chan') <= BufCap
    <3>1. chan' = b /\ Len(b) <= Len(chan)
      BY <1>2, <1>4, <1>6, <1>7
    <3>2. Len(buf') <= want.bytes
      BY <1>2, <1>3, <1>4, <2>1
    <3>3. Len(chan') <= BufCap
      BY <1>3, <1>4, <1>7, <3>1, WireAssumption
    <3> QED
      BY <1>7, <3>1, <3>2, <3>3
  <2> QED
    BY <1>1, <1>3, <2>1, <2>2 DEF TypeOK, AreFields
<1>10. WriterInv' /\ Faithful'
  BY <1>1, <1>3, SameWriter DEF Faithful, Arrived
<1>11. FlightInv' /\ At' = At /\ Ix' = Ix
  BY <1>1, <1>5, <1>8, SameFlight
<1>12. ReaderInv'
  <2>1. PICK p : p = At[1]
    OBVIOUS
  <2>2. ReadsFor(p) /\ Ix[1] = 1 /\ (want.part = "msgtype" => flight # <<>> \/ wpc = "closed")
    BY <1>5, <2>1 DEF ReaderInv
  <2>3. Size(p)' = Size(p) /\ ValueOf(p)' = ValueOf(p)
    BY <1>1, SameReport
  <2>4. ReadsFor(p)'
    BY <1>1, <2>2, <2>3 DEF ReadsFor
  <2> QED
    BY <1>1, <1>8, <1>11, <2>1, <2>2, <2>4 DEF ReaderInv
<1> QED
  BY <1>1, <1>3, <1>9, <1>10, <1>11, <1>12 DEF WireInv

\* A server that waits for more of a message waits for the process to go on.
LEMMA Waiting ==
  ASSUME WireInv, Reading, Needed > 0, chan = <<>>, ~GivenUp
  PROVE  /\ ReadsFor(at)
         /\ posted = Len(log)
         /\ sent = Len(buf)
<1>1. TypeOK /\ WriterInv /\ Faithful /\ ropen /\ FlightInv /\ ReaderInv /\ want # Nothing
  BY DEF WireInv, Reading
<1>2. /\ buf \in Seq(Bytes) /\ chan \in Seq(Bytes) /\ report \in Reports /\ IsPlace(at) /\ sent \in Nat
      /\ want.bytes \in Nat /\ posted \in Nat /\ Len(log) \in Nat /\ at \in Places
  BY <1>1 DEF TypeOK, WriterInv, Faithful
<1>3. PICK N : N = Len(flight)
  OBVIOUS
<1>4. flight = buf /\ N = Len(buf) /\ N \in Nat
  <2>1. flight = buf
    BY <1>2, ConcatEmptySeq DEF flight
  <2> QED
    BY <1>2, <1>3, <2>1
<1>5. /\ N < want.bytes
      /\ At[N + 1] = at /\ Ix[N + 1] = sent + 1 /\ BytesInv /\ Chain(At, Ix, N)
      /\ \A i \in 1 .. N + 1 : Ix[i] \in Nat \ {0} /\ Size(At[i]) \in Nat \ {0}
  <2>1. N < want.bytes /\ flight \in Seq(Bytes) /\ BytesInv /\ Chain(At, Ix, N)
    BY <1>1, <1>2, <1>3, <1>4 DEF Needed, FlightInv
  <2> QED
    BY <1>2, <1>3, <2>1, AtType
<1>6. /\ ReadsFor(At[1]) /\ Ix[1] = 1 /\ want.part # "none"
      /\ want.bytes = Size(At[1]) /\ At[1].ev = Len(log) + 1
  BY <1>1 DEF ReaderInv, ReadsFor
<1>7. At[1] = at /\ sent = N
  <2>1. 1 \in 1 .. N + 1 /\ N + 1 \in 1 .. N + 1 /\ 1 <= N + 1
    BY <1>4
  <2>2. Ix[1] + ((N + 1) - 1) <= Size(At[1])
    BY <1>2, <1>4, <1>5, <1>6
  <2>3. At[N + 1] = At[1] /\ Ix[N + 1] = Ix[1] + ((N + 1) - 1)
    BY <1>5, <2>1, <2>2 DEF Chain
  <2> QED
    BY <1>2, <1>4, <1>5, <1>6, <2>3
<1>8. posted = Len(log)
  <2>1. at.ev = Len(log) + 1 /\ Len(log) <= posted
    BY <1>1, <1>6, <1>7 DEF Faithful
  <2>2. posted = at.ev - 1 \/ posted = at.ev - 2
    BY <1>1 DEF WriterInv
  <2> QED
    BY <1>2, <2>1, <2>2
<1> QED
  BY <1>4, <1>6, <1>7, <1>8

\* The end of the file comes inside an event that is given up, or after the last.
LEMMA EndOfFileStep ==
  ASSUME WireInv, EndOfFile
  PROVE  WireInv'
<1>1. /\ report' = report /\ wpc' = wpc /\ at' = at /\ sent' = sent /\ posted' = posted /\ chan' = chan
      /\ UNCHANGED writerVars
      /\ want' = Nothing /\ buf' = <<>> /\ got' = <<>> /\ strs' = <<>>
      /\ type' = type /\ log' = log /\ over' = over
      /\ ropen' = (want.part \notin {"msgtype", "evtype"})
      /\ ropen /\ Reading /\ Needed > 0 /\ chan = <<>> /\ wpc = "closed"
  BY DEF EndOfFile, Reading, writerVars
<1>2. TypeOK /\ WriterInv /\ Faithful /\ (over => ~ropen)
  BY DEF WireInv
<1>3. TypeOK'
  <2>1. Len(Layout(type)) \in Nat
    BY LayoutNotEmpty
  <2>2. want' \in [part : Parts \cup {"none"}, field : 0 .. Len(Layout(type)), count : Nat, bytes : Nat]
        /\ Len(buf') <= want'.bytes
    BY <1>1, <2>1 DEF Nothing
  <2>3. AreFields(<<>>, Layout(type)) /\ <<>> \in Seq(Seq(Nat)) /\ <<>> \in Seq(Bytes)
    BY <2>1 DEF AreFields
  <2>4. ropen' \in BOOLEAN
    BY <1>1
  <2> QED
    BY <1>1, <1>2, <2>2, <2>3, <2>4 DEF TypeOK, AreFields
<1>4. WriterInv' /\ Faithful'
  BY <1>1, <1>2, SameWriter DEF Faithful, Arrived
<1>5. posted = Len(log)
  <2>1. GivenUp => posted = Len(log)
    BY DEF GivenUp
  <2>2. ~GivenUp => posted = Len(log)
    BY <1>1, Waiting
  <2> QED
    BY <2>1, <2>2
<1>6. GivenUp'
  BY <1>1, <1>5 DEF GivenUp
<1> QED
  BY <1>1, <1>2, <1>3, <1>4, <1>5, <1>6 DEF WireInv
\* A do_read() has returned what was written for call p, and q is the next one.
Taken(p, q) ==
    /\ q = At'[1] /\ Ix'[1] = 1 /\ FlightInv' /\ Follows(p, q)
    /\ IsPlace(p) /\ ReadsFor(p)
    /\ p.part # "done" => p.ev <= Len(report)
    /\ p.part # "done" /\ After(p).part = "msgtype" => p.ev <= posted
    /\ p.part = "done" => p.ev = posted + 1
    /\ p.part # "text" => AsNumber(buf) = Number(p)
    /\ p.part = "text" => AsText(buf) = Cut(StringOf(p))

\* The bytes of one call give the value that was written.
LEMMA ReadValue ==
  ASSUME report \in Reports, NEW p, IsPlace(p), p.part = "evtype" => p.ev <= Len(report),
         NEW b \in Seq(Bytes), NEW m \in Nat \ {0}, m = Len(b), m = Size(p),
         \A i \in 1..m : b[i] = Byte(p, i)
  PROVE  /\ p.part # "text" => AsNumber(b) = Number(p)
         /\ p.part = "text" => AsText(b) = Cut(StringOf(p))
<1>1. \A i \in 1..m : /\ b[i].ix = i
                      /\ p.part # "text" => b[i].val = Number(p)
                      /\ p.part = "text" => b[i].val = StringOf(p)[i]
  <2> SUFFICES ASSUME NEW i \in 1..m
               PROVE  /\ b[i].ix = i
                      /\ p.part # "text" => b[i].val = Number(p)
                      /\ p.part = "text" => b[i].val = StringOf(p)[i]
    OBVIOUS
  <2>1. i \in Nat \ {0} /\ i <= Size(p) /\ b[i] = Byte(p, i)
    <3>1. i \in Nat \ {0} /\ i <= m
      OBVIOUS
    <3>2. b[i] = Byte(p, i)
      OBVIOUS
    <3> QED
      BY <3>1, <3>2
  <2>2. /\ Byte(p, i).ix = i
        /\ p.part # "text" => Byte(p, i).val = Number(p)
        /\ p.part = "text" => Byte(p, i).val = StringOf(p)[i]
    BY <2>1, ByteType
  <2> QED
    BY <2>1, <2>2
<1>2. DOMAIN b = 1..m /\ 1 \in 1..m
  <2>1. DOMAIN b = 1 .. Len(b)
    BY LenProperties
  <2>2. 1 \in 1..m
    OBVIOUS
  <2> QED
    BY <2>1, <2>2
<1>3. p.part # "text" => AsNumber(b) = Number(p)
  BY <1>1, <1>2 DEF AsNumber
<1>4. ASSUME p.part = "text" PROVE AsText(b) = Cut(StringOf(p))
  <2>1. PICK s, t, u : s = StringOf(p) /\ t = AsText(b) /\ u = Cut(s)
    OBVIOUS
  <2>2. s \in Strings /\ m = Length(s)
    BY <1>4, <2>1, PlaceField DEF Size
  <2>3. u \in Seq(Nat) /\ Len(u) = m /\ \A i \in 1..m : s[i] \in Nat /\ u[i] = s[i]
    BY <2>1, <2>2, LengthType
  <2>4. t = [i \in 1..m |-> s[i]]
    BY <1>1, <1>2, <1>4, <2>1 DEF AsText
  <2>5. t \in Seq(Nat) /\ Len(t) = m /\ \A i \in 1..m : t[i] = s[i]
    BY <2>3, <2>4
  <2>6. t = u
    BY <2>3, <2>5, SeqEqual, ZenonT(40)
  <2> QED
    BY <2>1, <2>6
<1> QED
  BY <1>3, <1>4

\* A do_read() that has returned has taken exactly the bytes of one do_write(), so that the
\* next byte is the first of the call that follows.
LEMMA Completed ==
  ASSUME WireInv, NEW part \in Parts, Complete(part), UNCHANGED writerVars, chan' = chan
  PROVE  \E p, q : Taken(p, q)
<1>1. /\ report' = report /\ wpc' = wpc /\ at' = at /\ sent' = sent /\ posted' = posted
      /\ ropen /\ want.part = part /\ want.bytes - Len(buf) = 0 /\ buf' = <<>> /\ chan' = chan
  BY DEF Complete, Reading, Needed, writerVars
<1>2. TypeOK /\ WriterInv /\ ((FlightInv /\ ReaderInv) \/ GivenUp)
      /\ buf \in Seq(Bytes) /\ chan \in Seq(Bytes) /\ want.bytes \in Nat /\ report \in Reports
      /\ IsPlace(at) /\ sent \in Nat
  BY <1>1 DEF WireInv, TypeOK, WriterInv
<1>3. ~GivenUp
  <2>1. SUFFICES ASSUME GivenUp PROVE FALSE
    OBVIOUS
  <2>2. want.part = "none" \/ (want.bytes = IntBytes /\ buf = <<>>)
    BY <2>1 DEF GivenUp, Nothing, Read, Width
  <2>3. part # "none"
    BY DEF Parts
  <2> QED
    BY <1>1, <2>2, <2>3, WireAssumption
<1>4. FlightInv /\ ReaderInv
  BY <1>2, <1>3
<1>5. PICK F, N, m : F = flight /\ N = Len(F) /\ m = Len(buf)
  OBVIOUS
<1>6. /\ F \in Seq(Bytes) /\ N = m + Len(chan) /\ m \in Nat /\ Len(chan) \in Nat /\ N \in Nat
      /\ \A i \in 1 .. m + Len(chan) : F[i] = IF i <= m THEN buf[i] ELSE chan[i - m]
  BY <1>2, <1>5, Joined DEF flight
<1>7. PICK A, X, B, Y : A = At /\ X = Ix /\ B = At' /\ Y = Ix'
  OBVIOUS
<1>8. /\ BytesInv /\ Chain(A, X, N)
      /\ \A i \in 1..N : A[i] = F[i].at /\ X[i] = F[i].ix
      /\ A[N + 1] = at /\ X[N + 1] = sent + 1
      /\ \A i \in 1 .. N + 1 : IsPlace(A[i]) /\ X[i] \in Nat \ {0} /\ Size(A[i]) \in Nat \ {0}
  <2>1. BytesInv /\ Chain(A, X, N)
    BY <1>4, <1>5, <1>7 DEF FlightInv
  <2>2. flight \in Seq(Bytes)
    BY <1>5, <1>6
  <2>3. /\ \A i \in 1..N : At[i] = flight[i].at /\ Ix[i] = flight[i].ix
        /\ At[N + 1] = at /\ Ix[N + 1] = sent + 1
        /\ \A i \in 1 .. N + 1 : IsPlace(At[i]) /\ Ix[i] \in Nat \ {0} /\ Size(At[i]) \in Nat \ {0}
    BY <1>2, <1>5, <2>1, <2>2, AtType
  <2> QED
    BY <1>5, <1>7, <2>1, <2>3
<1>9. PICK p : p = A[1]
  OBVIOUS
<1>10. 1 \in 1 .. N + 1 /\ X[1] = 1 /\ ReadsFor(p) /\ IsPlace(p) /\ want.part # "none"
  BY <1>1, <1>4, <1>6, <1>7, <1>8, <1>9 DEF ReaderInv, Parts
<1>11. m = Size(p) /\ m \in Nat \ {0}
  BY <1>1, <1>2, <1>5, <1>6, <1>8, <1>9, <1>10 DEF ReadsFor
<1>12. \A i \in 1..m : A[i] = p /\ X[i] = i /\ i \in 1..N
  <2> SUFFICES ASSUME NEW i \in 1..m PROVE A[i] = p /\ X[i] = i /\ i \in 1..N
    OBVIOUS
  <2>1. i \in 1..N /\ i \in 1 .. N + 1 /\ 1 <= i
    BY <1>6
  <2>2. X[1] + (i - 1) <= Size(A[1])
    BY <1>9, <1>10, <1>11
  <2>3. A[i] = A[1] /\ X[i] = X[1] + (i - 1)
    BY <1>8, <1>10, <2>1, <2>2 DEF Chain
  <2> QED
    BY <1>9, <1>10, <2>1, <2>3
<1>13. \A i \in 1..N : IsByte(F[i])
  BY <1>5, <1>8, EachByte
<1>14. \A i \in 1..m : buf[i] = Byte(p, i)
  <2> SUFFICES ASSUME NEW i \in 1..m PROVE buf[i] = Byte(p, i)
    OBVIOUS
  <2>1. i \in 1..N /\ A[i] = p /\ X[i] = i
    BY <1>12
  <2>2. F[i] = buf[i]
    BY <1>6
  <2>3. F[i] = Byte(F[i].at, F[i].ix)
    BY <1>13, <2>1 DEF IsByte
  <2>4. F[i].at = p /\ F[i].ix = i
    BY <1>8, <2>1
  <2> QED
    BY <2>2, <2>3, <2>4
<1>15. m \in 1..N /\ A[m] = p /\ X[m] = m
  <2>1. m \in 1..m
    BY <1>11
  <2> QED
    BY <1>12, <2>1
<1>16. PICK q : q = A[m + 1]
  OBVIOUS
<1>17. Follows(p, q) /\ X[m + 1] = 1
  BY <1>8, <1>11, <1>15, <1>16 DEF Chain
<1>18. /\ p.part # "done" => p.ev <= Len(report)
       /\ p.part # "done" /\ After(p).part = "msgtype" => p.ev <= posted
       /\ p.part = "done" => p.ev = posted + 1
  <2>1. IsByte(F[m])
    BY <1>13, <1>15
  <2>2. F[m].at = p /\ F[m].ix = m
    BY <1>8, <1>15
  <2> QED
    BY <1>11, <2>1, <2>2 DEF IsByte
<1>19. /\ p.part # "text" => AsNumber(buf) = Number(p)
       /\ p.part = "text" => AsText(buf) = Cut(StringOf(p))
  <2>1. PICK b : b = buf
    OBVIOUS
  <2>2. /\ b \in Seq(Bytes) /\ m = Len(b) /\ \A i \in 1..m : b[i] = Byte(p, i)
        /\ p.part = "evtype" => p.ev <= Len(report)
    BY <1>2, <1>5, <1>14, <1>18, <2>1
  <2>3. /\ p.part # "text" => AsNumber(b) = Number(p)
        /\ p.part = "text" => AsText(b) = Cut(StringOf(p))
    BY <1>2, <1>10, <1>11, <2>2, ReadValue
  <2> QED
    BY <2>1, <2>3
<1>20. PICK G, M : G = flight' /\ M = N - m
  OBVIOUS
<1>21. /\ G = chan /\ M = Len(chan) /\ M \in Nat /\ M = Len(G) /\ m \in 0..N
       /\ \A i \in 1..M : G[i] = F[i + m] /\ i + m \in 1..N
  <2>1. G = chan
    BY <1>1, <1>2, <1>20, ConcatEmptySeq DEF flight
  <2>2. M = Len(chan) /\ M \in Nat /\ m \in 0..N
    BY <1>6, <1>20
  <2>3. ASSUME NEW i \in 1..M PROVE G[i] = F[i + m] /\ i + m \in 1..N
    <3>1. i + m \in 1 .. m + Len(chan) /\ ~(i + m <= m) /\ (i + m) - m = i
      BY <1>6, <2>2
    <3>2. F[i + m] = chan[(i + m) - m]
      BY <1>6, <3>1
    <3> QED
      BY <1>6, <2>1, <3>1, <3>2
  <2> QED
    BY <2>1, <2>2, <2>3
<1>22. \A i \in 1 .. M + 1 : B[i] = A[i + m] /\ Y[i] = X[i + m]
  <2> SUFFICES ASSUME NEW i \in 1 .. M + 1 PROVE B[i] = A[i + m] /\ Y[i] = X[i + m]
    OBVIOUS
  <2>1. CASE i \in 1..M
    <3>1. B[i] = G[i].at /\ Y[i] = G[i].ix
      BY <1>7, <1>20, <1>21, <2>1 DEF At, Ix
    <3>2. G[i] = F[i + m] /\ i + m \in 1..N
      BY <1>21, <2>1
    <3> QED
      BY <1>8, <3>1, <3>2
  <2>2. CASE i = M + 1
    <3>1. B[i] = at' /\ Y[i] = sent' + 1
      BY <1>7, <1>20, <1>21, <2>2 DEF At, Ix
    <3>2. i + m = N + 1
      BY <1>6, <1>20, <2>2
    <3> QED
      BY <1>1, <1>8, <3>1, <3>2
  <2> QED
    BY <1>21, <2>1, <2>2
<1>23. Chain(B, Y, M)
  <2>1. Advance(N, m, A, X, B, Y)
    BY <1>6, <1>8, <1>20, <1>21, <1>22 DEF Advance
  <2>2. Chain(B, Y, N - m)
    BY <2>1, ChainAdvanced
  <2> QED
    BY <1>20, <2>2
<1>24. BytesInv'
  <2>1. ASSUME NEW i \in 1..M, NEW b, b = G[i] PROVE IsByte(b)'
    <3>1. IsByte(b)
      BY <1>13, <1>21, <2>1
    <3>2. (IsPlace(b.at)' <=> IsPlace(b.at)) /\ Size(b.at)' = Size(b.at) /\ Byte(b.at, b.ix)' = Byte(b.at, b.ix)
          /\ After(b.at)' = After(b.at)
      BY <1>1, SameReport
    <3> QED
      BY <1>1, <3>1, <3>2 DEF IsByte
  <2> QED
    BY <1>20, <1>21, <2>1, NextBytes
<1>25. FlightInv'
  <2>1. Chain(B, Y, M)'
    BY <1>1, <1>23, SameChain
  <2> QED
    BY <1>7, <1>20, <1>21, <1>24, <2>1 DEF FlightInv
<1>26. B[1] = q /\ Y[1] = 1
  <2>1. 1 \in 1 .. M + 1 /\ 1 + m = m + 1
    BY <1>6, <1>21
  <2> QED
    BY <1>16, <1>17, <1>22, <2>1
<1>27. Taken(p, q)
  BY <1>7, <1>10, <1>17, <1>18, <1>19, <1>25, <1>26 DEF Taken
<1> QED
  BY <1>27
-----------------------------------------------------------------------------
(* The handlers: what they read is what was written. *)

\* Values that are read one after the other.
LEMMA Appended ==
  ASSUME NEW k \in Nat, NEW F
  PROVE  /\ Append([g \in 1..k |-> F[g]], F[k + 1]) = [g \in 1 .. k + 1 |-> F[g]]
         /\ Len([g \in 1..k |-> F[g]]) = k
<1> DEFINE S == {F[g] : g \in 1 .. k + 1}
           s == [g \in 1..k |-> F[g]]
           t == [g \in 1 .. k + 1 |-> F[g]]
<1>1. \A g \in 1 .. k + 1 : F[g] \in S
  OBVIOUS
<1> HIDE DEF S
<1>2. s \in Seq(S) /\ Len(s) = k
  BY <1>1
<1>3. t \in Seq(S) /\ Len(t) = k + 1 /\ \A i \in 1 .. k + 1 : t[i] = F[i]
  BY <1>1
<1>4. F[k + 1] \in S /\ \A i \in 1..k : s[i] = F[i]
  BY <1>1
<1> HIDE DEF s, t
<1>5. PICK u : u = Append(s, F[k + 1])
  OBVIOUS
<1>6. u \in Seq(S) /\ Len(u) = k + 1 /\ (\A i \in 1..k : u[i] = s[i]) /\ u[k + 1] = F[k + 1]
  BY <1>2, <1>4, <1>5, AppendProperties
<1>7. \A i \in 1 .. k + 1 : u[i] = t[i]
  <2> SUFFICES ASSUME NEW i \in 1 .. k + 1 PROVE u[i] = t[i]
    OBVIOUS
  <2>1. i \in 1..k \/ i = k + 1
    OBVIOUS
  <2> QED
    BY <1>3, <1>4, <1>6, <2>1
<1>8. u = t
  BY <1>3, <1>6, <1>7, SeqEqual
<1> QED
  BY <1>2, <1>5, <1>8 DEF s, t

\* What should arrive has the types of its handler.
LEMMA ArrivedType ==
  ASSUME report \in Reports, NEW n \in Nat \ {0}, n <= Len(report), NEW k \in Nat, k <= Len(report[n].fields)
  PROVE  /\ AreFields([g \in 1..k |-> ArrivedField(report[n].fields[g])], Layout(report[n].type))
         /\ Arrived(report[n]).type \in 0..3
         /\ AreFields(Arrived(report[n]).vals, Layout(Arrived(report[n]).type))
<1> DEFINE d(g) == report[n].fields[g]
           L == Len(report[n].fields)
           t == report[n].type
<1>1. /\ t \in 0..3 /\ L \in Nat \ {0} /\ L = Len(Layout(t))
      /\ \A f \in Nat \ {0} : f <= L =>
           /\ d(f).kind = Layout(t)[f]
           /\ d(f).kind = "int" => d(f).val \in Int
           /\ d(f).kind # "int" => d(f).val \in Seq(Strings)
  BY ReportType
<1> HIDE DEF d, L, t
<1>2. ASSUME NEW f \in Nat \ {0}, f <= L
      PROVE  IF Layout(t)[f] = "int" THEN ArrivedField(d(f)) \in Int ELSE ArrivedField(d(f)) \in Seq(Seq(Nat))
  <2>1. CASE d(f).kind = "int"
    BY <1>1, <1>2, <2>1 DEF ArrivedField
  <2>2. CASE d(f).kind # "int"
    <3>1. PICK v : v = d(f).val
      OBVIOUS
    <3>2. v \in Seq(Strings)
      BY <1>1, <1>2, <2>2, <3>1
    <3>3. Len(v) \in Nat /\ DOMAIN v = 1 .. Len(v) /\ \A j \in 1 .. Len(v) : v[j] \in Strings
      BY <3>2, LenProperties, ElementOfSeq
    <3>4. \A j \in 1 .. Len(v) : Cut(v[j]) \in Seq(Nat)
      BY <3>3, LengthType
    <3>5. [j \in 1 .. Len(v) |-> Cut(v[j])] \in Seq(Seq(Nat))
      BY <3>3, <3>4
    <3>6. ArrivedField(d(f)) = [j \in 1 .. Len(v) |-> Cut(v[j])]
      BY <2>2, <3>1, <3>3 DEF ArrivedField
    <3> QED
      BY <1>1, <1>2, <2>2, <3>5, <3>6
  <2> QED
    BY <2>1, <2>2
<1>3. ASSUME NEW m \in Nat, m <= L
      PROVE  AreFields([g \in 1..m |-> ArrivedField(d(g))], Layout(t))
  <2>1. PICK s : s = [g \in 1..m |-> ArrivedField(d(g))]
    OBVIOUS
  <2>2. Len(s) = m /\ \A g \in 1..m : s[g] = ArrivedField(d(g)) /\ g \in Nat \ {0} /\ g <= L
    BY <1>1, <1>3, <2>1
  <2>3. AreFields(s, Layout(t))
    BY <1>1, <1>2, <1>3, <2>2 DEF AreFields
  <2> QED
    BY <2>1, <2>3
<1>4. Arrived(report[n]).type = t /\ Arrived(report[n]).vals = [g \in 1..L |-> ArrivedField(d(g))]
  BY DEF Arrived, d, L, t
<1>5. k \in Nat /\ k <= L /\ L \in Nat /\ L <= L
  BY <1>1 DEF L
<1>6. AreFields([g \in 1..k |-> ArrivedField(d(g))], Layout(t))
  BY <1>3, <1>5
<1>7. AreFields([g \in 1..L |-> ArrivedField(d(g))], Layout(t))
  BY <1>3, <1>5
<1> QED
  BY <1>1, <1>4, <1>6, <1>7 DEF d, t

\* A handler has read what was written for p; what comes next is q, which is r
\* or VOYEUR_MSG_DONE instead of it.
Handles(p, q, r) ==
    /\ TypeOK /\ Faithful /\ report' = report /\ type' = type /\ posted' = posted /\ buf' = <<>>
    /\ IsPlace(p) /\ ReadsFor(p) /\ p.part \in {"int", "count", "size", "text"}
    /\ q = r \/ (r.part = "msgtype" /\ q = Place(r.ev, 0, 0, "done"))
    /\ r.part = "msgtype" => p.ev <= posted

Handled(q) ==
    /\ ReadsFor(q)' /\ Faithful' /\ want'.part # "msgtype"
    /\ want' \in [part : Parts \cup {"none"}, field : 0 .. Len(Layout(type')), count : Nat, bytes : Nat]
    /\ AreFields(got', Layout(type'))
    /\ strs' \in Seq(Seq(Nat))
    /\ \A i \in DOMAIN log' : log'[i].type \in 0..3 /\ AreFields(log'[i].vals, Layout(log'[i].type))

\* A handler that has read a field goes on to the next one, or makes the callback.
LEMMA FieldReads ==
  ASSUME NEW p, NEW q, Handles(p, q, Field(p.ev, p.field + 1)),
         FieldRead(ArrivedField(report[p.ev].fields[p.field]))
  PROVE  Handled(q)
<1>1. /\ report \in Reports /\ TypeOK /\ report' = report /\ type' = type /\ posted' = posted /\ buf' = <<>>
      /\ IsPlace(p) /\ ReadsFor(p) /\ p.part \in {"int", "count", "size", "text"} /\ Faithful
  BY DEF Handles, TypeOK
<1>2. PICK n, f, fs, t, val : /\ n = p.ev /\ f = p.field /\ fs = report[n].fields /\ t = report[n].type
                              /\ val = ArrivedField(fs[f])
  OBVIOUS
<1>3. n \in Nat \ {0} /\ n <= Len(report) /\ f \in Nat \ {0} /\ f <= Len(fs)
  BY <1>1, <1>2, PlaceField
<1>4. /\ t \in 0..3 /\ Len(fs) = Len(Layout(t)) /\ Len(fs) \in Nat \ {0} /\ Len(report) \in Nat
      /\ \A g \in Nat \ {0} : g <= Len(fs) =>
           /\ fs[g].kind = Layout(t)[g]
           /\ fs[g].kind \in FieldKinds
           /\ fs[g].kind = "string" => Len(fs[g].val) = 1
  BY <1>1, <1>2, <1>3, ReportType
<1>5. /\ n = Len(log) + 1 /\ want.part = p.part /\ want.field = f /\ type = t
      /\ got = [g \in 1 .. f - 1 |-> ArrivedField(fs[g])]
  BY <1>1, <1>2 DEF ReadsFor
<1>6. PICK G : G = [g \in Nat |-> ArrivedField(fs[g])]
  OBVIOUS
<1>7. /\ \A k \in Nat : [g \in 1..k |-> G[g]] = [g \in 1..k |-> ArrivedField(fs[g])]
      /\ G[f] = val
  BY <1>2, <1>3, <1>6
<1>8. Append(got, val) = [g \in 1..f |-> ArrivedField(fs[g])]
  <2>1. f - 1 \in Nat /\ (f - 1) + 1 = f
    BY <1>3
  <2>2. Append([g \in 1 .. f - 1 |-> G[g]], G[(f - 1) + 1]) = [g \in 1 .. (f - 1) + 1 |-> G[g]]
    BY <2>1, Appended
  <2>3. [g \in 1 .. f - 1 |-> G[g]] = got /\ [g \in 1..f |-> G[g]] = [g \in 1..f |-> ArrivedField(fs[g])]
    BY <1>3, <1>5, <1>7, <2>1
  <2> QED
    BY <1>7, <2>1, <2>2, <2>3
<1>9. FieldRead(val) /\ strs' = <<>>
  BY <1>2 DEF FieldRead
<1>10. PICK r : r = Field(n, f + 1)
  OBVIOUS
<1>11. /\ f + 1 > Len(fs) => r = Message(n + 1)
       /\ f + 1 <= Len(fs) => r = Place(n, f + 1, 0, First[fs[f + 1].kind]) /\ r.part \in {"int", "size", "count"}
  BY <1>1, <1>2, <1>3, <1>10, FieldPlace
<1>12. /\ q = r \/ (r.part = "msgtype" /\ q = Place(r.ev, 0, 0, "done"))
       /\ r.part = "msgtype" => n <= posted
  BY <1>2, <1>10 DEF Handles
<1>13. CASE f < Len(Layout(t))
  <2> DEFINE g == f + 1
             part == First[Layout(t)[g]]
  <2>1. want' = Read(part, g, 1) /\ got' = Append(got, val) /\ log' = log
    BY <1>5, <1>9, <1>13 DEF FieldRead, ReadField
  <2>2. g \in Nat \ {0} /\ g <= Len(fs) /\ g - 1 = f
    BY <1>3, <1>4, <1>13
  <2>3. fs[g].kind = Layout(t)[g] /\ fs[g].kind \in FieldKinds /\ (fs[g].kind = "string" => Len(fs[g].val) = 1)
    BY <1>4, <2>2
  <2>4. r = Place(n, g, 0, part) /\ part \in {"int", "size", "count"} /\ q = r
    BY <1>11, <1>12, <2>2, <2>3 DEF Place
  <2>5. part = "size" => fs[g].kind = "string"
    BY <2>3 DEF First, FieldKinds
  <2> HIDE DEF part, g
  <2>6. /\ want'.part = part /\ want'.field = g /\ want'.count = 1 /\ want'.bytes = Width(part)
        /\ q.ev = n /\ q.field = g /\ q.elem = 0 /\ q.part = part
    BY <2>1, <2>4 DEF Read, Place
  <2>7. Size(q)' = Width(part) /\ ValueOf(q)' = fs[g].val
    BY <1>1, <1>2, <2>4, <2>6 DEF Size, ValueOf
  <2>8. Width(part) \in Nat /\ part \in Parts
    BY <2>4, WireAssumption DEF Width, Parts
  <2>9. ReadsFor(q)'
    <3>1. got' = [h \in 1 .. q.field - 1 |-> ArrivedField(report'[q.ev].fields[h])]
      BY <1>1, <1>2, <1>8, <2>1, <2>2, <2>6
    <3>2. strs' = [k \in 1 .. q.elem |-> Cut(ValueOf(q)'[k])] /\ Len(strs') = 0
      BY <1>9, <2>6
    <3>3. want'.part \in {"size", "text"} => want'.count = Len(ValueOf(q)')
      BY <2>3, <2>4, <2>5, <2>6, <2>7
    <3>4. want'.part \notin {"none", "msgtype", "evtype", "text"}
      BY <2>4, <2>6
    <3>5. q.ev = Len(log') + 1 /\ q.ev <= Len(report') /\ type' = report'[q.ev].type
      BY <1>1, <1>2, <1>3, <1>5, <2>1, <2>6
    <3> QED
      BY <2>6, <2>7, <3>1, <3>2, <3>3, <3>4, <3>5 DEF ReadsFor
  <2>10. Faithful'
    BY <1>1, <2>1 DEF Faithful, Arrived
  <2>11. AreFields(got', Layout(type'))
    <3>1. f \in Nat /\ f <= Len(report[n].fields)
      BY <1>2, <1>3
    <3>2. AreFields([h \in 1..f |-> ArrivedField(report[n].fields[h])], Layout(report[n].type))
      BY <1>1, <1>3, <3>1, ArrivedType
    <3>3. got' = [h \in 1..f |-> ArrivedField(report[n].fields[h])] /\ type' = report[n].type
      BY <1>1, <1>2, <1>5, <1>8, <2>1
    <3> QED
      BY <3>2, <3>3
  <2>12. want' \in [part : Parts \cup {"none"}, field : 0 .. Len(Layout(type')), count : Nat, bytes : Nat]
    BY <1>1, <1>4, <1>5, <2>1, <2>2, <2>8 DEF Read
  <2>13. \A i \in DOMAIN log' : log'[i].type \in 0..3 /\ AreFields(log'[i].vals, Layout(log'[i].type))
    BY <1>1, <2>1 DEF TypeOK
  <2> QED
    BY <1>9, <2>4, <2>6, <2>9, <2>10, <2>11, <2>12, <2>13 DEF Handled
<1>14. CASE ~(f < Len(Layout(t)))
  <2>1. /\ log' = Append(log, [type |-> t, vals |-> Append(got, val)])
        /\ got' = <<>> /\ want' = Nothing
    BY <1>5, <1>9, <1>14 DEF FieldRead
  <2>2. f = Len(fs) /\ f + 1 > Len(fs)
    BY <1>3, <1>4, <1>14
  <2>3. r = Message(n + 1) /\ r.part = "msgtype" /\ r.ev = n + 1 /\ n <= posted
    BY <1>11, <1>12, <2>2 DEF Message, Place
  <2>4. q.ev = n + 1 /\ q.part \in {"msgtype", "done"}
    BY <1>12, <2>3 DEF Message, Place
  <2>5. Arrived(report[n]) = [type |-> t, vals |-> Append(got, val)]
    BY <1>2, <1>8, <2>2 DEF Arrived
  <2>6. PICK E : E = [i \in Nat |-> Arrived(report[i])]
    OBVIOUS
  <2>7. /\ Len(log) \in Nat /\ Len(log) + 1 = n
        /\ log = [i \in 1 .. Len(log) |-> E[i]] /\ E[n] = Arrived(report[n])
    BY <1>1, <1>3, <1>5, <2>6 DEF Faithful
  <2>8. /\ Append(log, E[n]) = [i \in 1..n |-> E[i]]
        /\ Len([i \in 1..n |-> E[i]]) = n
    <3>1. PICK k : k = Len(log)
      OBVIOUS
    <3>2. Append([i \in 1..k |-> E[i]], E[k + 1]) = [i \in 1 .. k + 1 |-> E[i]]
      BY <2>7, <3>1, Appended
    <3>3. Len([i \in 1..n |-> E[i]]) = n
      BY <1>3, Appended
    <3> QED
      BY <2>7, <3>1, <3>2, <3>3
  <2>9. log' = [i \in 1..n |-> Arrived(report[i])] /\ Len(log') = n
    <3>1. log' = Append(log, E[n])
      BY <2>1, <2>5, <2>7
    <3>2. log' = [i \in 1..n |-> E[i]]
      BY <2>8, <3>1
    <3>3. [i \in 1..n |-> E[i]] = [i \in 1..n |-> Arrived(report[i])]
      BY <1>3, <2>6
    <3> QED
      BY <2>8, <3>2, <3>3
  <2>10. Faithful'
    BY <1>1, <1>3, <2>3, <2>9 DEF Faithful, Arrived, TypeOK
  <2>11. ReadsFor(q)'
    BY <1>9, <1>1, <2>1, <2>4, <2>9 DEF ReadsFor, Nothing
  <2>12. Len(Layout(type')) \in Nat
    BY LayoutNotEmpty
  <2>13. want' \in [part : Parts \cup {"none"}, field : 0 .. Len(Layout(type')), count : Nat, bytes : Nat]
         /\ want'.part # "msgtype"
    BY <2>1, <2>12 DEF Nothing
  <2>14. AreFields(got', Layout(type'))
    BY <2>1, <2>12 DEF AreFields
  <2>15. ASSUME NEW i \in DOMAIN log'
         PROVE  log'[i].type \in 0..3 /\ AreFields(log'[i].vals, Layout(log'[i].type))
    <3>1. i \in Nat \ {0} /\ i <= Len(report) /\ log'[i] = Arrived(report[i])
      BY <1>3, <1>4, <2>9, <2>15
    <3>2. Len(report[i].fields) \in Nat
      BY <1>1, <3>1, ReportType
    <3> QED
      <4>1. 0 \in Nat /\ 0 <= Len(report[i].fields)
        BY <3>2
      <4>2. Arrived(report[i]).type \in 0..3
            /\ AreFields(Arrived(report[i]).vals, Layout(Arrived(report[i]).type))
        BY <1>1, <3>1, <4>1, ArrivedType
      <4> QED
        BY <3>1, <4>2
  <2> QED
    BY <1>9, <2>10, <2>11, <2>13, <2>14, <2>15 DEF Handled
<1> QED
  BY <1>13, <1>14
\* A handler that has read k strings of a field goes on to the next string, or has read
\* the field.
LEMMA StringsReads ==
  ASSUME NEW p, NEW q, NEW k \in Nat, Handles(p, q, NextString(p, k)), p.part # "int",
         k <= Len(ValueOf(p)),
         StringsRead([j \in 1..k |-> Cut(ValueOf(p)[j])], Len(ValueOf(p)))
  PROVE  Handled(q)
<1>1. /\ report \in Reports /\ TypeOK /\ report' = report /\ type' = type /\ posted' = posted /\ buf' = <<>>
      /\ IsPlace(p) /\ ReadsFor(p) /\ p.part \in {"count", "size", "text"} /\ Faithful
  BY DEF Handles, TypeOK
<1>2. PICK n, f, v, ss : /\ n = p.ev /\ f = p.field /\ v = ValueOf(p)
                         /\ ss = [j \in 1..k |-> Cut(v[j])]
  OBVIOUS
<1>3. /\ n \in Nat \ {0} /\ n <= Len(report) /\ f \in Nat \ {0} /\ f <= Len(report[n].fields)
      /\ v \in Seq(Strings) /\ Len(v) \in Nat /\ k <= Len(v)
      /\ report[n].fields[f].kind # "int" /\ v = report[n].fields[f].val
  BY <1>1, <1>2, PlaceField DEF ValueOf
<1>4. ss \in Seq(Seq(Nat)) /\ Len(ss) = k /\ StringsRead(ss, Len(v))
  <2>1. \A j \in 1..k : Cut(v[j]) \in Seq(Nat)
    <3> SUFFICES ASSUME NEW j \in 1..k PROVE Cut(v[j]) \in Seq(Nat)
      OBVIOUS
    <3>1. j \in 1 .. Len(v)
      BY <1>3
    <3>2. v[j] \in Strings
      BY <1>3, <3>1, ElementOfSeq
    <3> QED
      BY <3>2, LengthType
  <2> QED
    BY <1>2, <2>1
<1>5. CASE k >= Len(v)
  <2>1. k = Len(v) /\ ~(k < Len(v))
    BY <1>3, <1>5
  <2>2. FieldRead(ss)
    BY <1>4, <1>5 DEF StringsRead
  <2>3. DOMAIN v = 1..k
    BY <1>3, <2>1
  <2>4. ss = ArrivedField(report[n].fields[f])
    BY <1>2, <1>3, <2>3 DEF ArrivedField
  <2>5. NextString(p, k) = Field(p.ev, p.field + 1)
    BY <1>2, <2>1 DEF NextString
  <2>6. Handles(p, q, Field(p.ev, p.field + 1))
    BY <2>5
  <2>7. FieldRead(ArrivedField(report[p.ev].fields[p.field]))
    BY <1>2, <2>2, <2>4
  <2> QED
    BY <2>6, <2>7, FieldReads
<1>6. CASE ~(k >= Len(v))
  <2>1. k < Len(v)
    BY <1>3, <1>6
  <2>2. strs' = ss /\ want' = Read("size", want.field, Len(v)) /\ got' = got /\ log' = log
    BY <1>4, <1>6 DEF StringsRead
  <2>3. q = Place(n, f, k, "size")
    <3>1. NextString(p, k) = Place(n, f, k, "size")
      BY <1>2, <2>1 DEF NextString
    <3> QED
      BY <3>1 DEF Handles, Place
  <2>4. /\ n = Len(log) + 1 /\ want.part = p.part /\ want.field = f /\ type = report[n].type
        /\ got = [g \in 1 .. f - 1 |-> ArrivedField(report[n].fields[g])]
    BY <1>1, <1>2 DEF ReadsFor
  <2>5. /\ q.ev = n /\ q.field = f /\ q.elem = k /\ q.part = "size"
        /\ want'.part = "size" /\ want'.field = f /\ want'.count = Len(v) /\ want'.bytes = SizeBytes
    BY <2>2, <2>3, <2>4 DEF Place, Read, Width
  <2>6. ValueOf(q)' = v /\ Size(q)' = SizeBytes
    BY <1>1, <1>3, <2>5 DEF ValueOf, Size, Width
  <2>7. ReadsFor(q)'
    <3>1. got' = [h \in 1 .. q.field - 1 |-> ArrivedField(report'[q.ev].fields[h])]
      BY <1>1, <2>2, <2>4, <2>5
    <3>2. strs' = [j \in 1 .. q.elem |-> Cut(ValueOf(q)'[j])] /\ Len(strs') = q.elem
      BY <1>2, <1>4, <2>2, <2>5, <2>6
    <3>3. q.ev = Len(log') + 1 /\ q.ev <= Len(report') /\ type' = report'[q.ev].type
      BY <1>1, <1>3, <2>2, <2>4, <2>5
    <3> QED
      BY <2>5, <2>6, <3>1, <3>2, <3>3 DEF ReadsFor
  <2>8. Faithful'
    BY <1>1, <2>2 DEF Faithful, Arrived
  <2>9. want' \in [part : Parts \cup {"none"}, field : 0 .. Len(Layout(type')), count : Nat, bytes : Nat]
    <3>1. want.field \in 0 .. Len(Layout(type))
      BY <1>1 DEF TypeOK
    <3> QED
      BY <1>1, <1>3, <2>2, <3>1, WireAssumption DEF Read, Width, Parts
  <2>10. /\ AreFields(got', Layout(type'))
         /\ \A i \in DOMAIN log' : log'[i].type \in 0..3 /\ AreFields(log'[i].vals, Layout(log'[i].type))
    BY <1>1, <2>2 DEF TypeOK
  <2>11. strs' \in Seq(Seq(Nat)) /\ want'.part # "msgtype"
    BY <1>4, <2>2, <2>5
  <2> QED
    BY <2>7, <2>8, <2>9, <2>10, <2>11 DEF Handled
<1> QED
  BY <1>5, <1>6

\* What the server reads for next is what comes next.
LEMMA ReadStep ==
  ASSUME WireInv, ropen, ropen' = ropen, over' = over, UNCHANGED writerVars, chan' = chan, buf' = <<>>,
         type' \in -1..3, NEW p, NEW q, Taken(p, q), Handled(q)
  PROVE  WireInv'
<1>1. /\ report' = report /\ wpc' = wpc /\ at' = at /\ sent' = sent /\ posted' = posted
  BY DEF writerVars
<1>2. TypeOK /\ WriterInv /\ (over => ~ropen)
  BY DEF WireInv
<1>3. TypeOK'
  <2>1. want'.bytes \in Nat /\ Len(buf') <= want'.bytes /\ buf' \in Seq(Bytes)
    BY DEF Handled
  <2> QED
    BY <1>1, <1>2, <2>1 DEF TypeOK, Handled
<1>4. WriterInv'
  BY <1>2, SameWriter
<1>5. FlightInv' /\ ReaderInv' /\ Faithful'
  BY DEF Taken, Handled, ReaderInv
<1> QED
  BY <1>2, <1>3, <1>4, <1>5 DEF WireInv

\* The server reads the message type, and takes EVENT for EVENT and DONE for DONE.
LEMMA ReadMsgTypeStep ==
  ASSUME WireInv, ReadMsgType
  PROVE  WireInv'
<1>1. /\ Complete("msgtype") /\ UNCHANGED writerVars /\ chan' = chan /\ buf' = <<>> /\ ropen
      /\ type' = type /\ got' = got /\ strs' = strs /\ over' = over /\ log' = log /\ want.part = "msgtype"
  BY DEF ReadMsgType, Complete, Reading
<1>2. report' = report /\ wpc' = wpc /\ at' = at /\ sent' = sent /\ posted' = posted
  BY <1>1 DEF writerVars
<1>3. PICK p, q : Taken(p, q)
  BY <1>1, Completed DEF Parts
<1>4. /\ IsPlace(p) /\ ReadsFor(p) /\ p.part \in {"msgtype", "done"} /\ p.ev = Len(log) + 1
      /\ got = <<>> /\ strs = <<>> /\ Follows(p, q) /\ AsNumber(buf) = Number(p)
      /\ p.part # "done" => p.ev <= Len(report)
      /\ p.part = "done" => p.ev = posted + 1
  BY <1>1, <1>3 DEF Taken, ReadsFor
<1>5. TypeOK /\ WriterInv /\ Faithful /\ (over => ~ropen)
  BY DEF WireInv
<1>6. TypeOK => /\ AreFields(got', Layout(type')) /\ strs' \in Seq(Seq(Nat)) /\ type' \in -1..3
                /\ \A i \in DOMAIN log' : log'[i].type \in 0..3 /\ AreFields(log'[i].vals, Layout(log'[i].type))
  BY <1>1 DEF TypeOK
<1>7. Len(Layout(type)) \in Nat
  BY LayoutNotEmpty
<1>8. Faithful'
  BY <1>1, <1>2, <1>5 DEF Faithful, Arrived
<1>9. CASE p.part = "msgtype"
  <2>1. want' = Read("evtype", 0, 0) /\ ropen' = ropen
    BY <1>4, <1>9, Numbers DEF ReadMsgType, VOYEUR_MSG_EVENT
  <2>2. q = Place(p.ev, 0, 0, "evtype")
    <3>1. After(p) = Place(p.ev, 0, 0, "evtype")
      BY <1>9, Afters
    <3> QED
      BY <1>4, <3>1 DEF Follows, Place
  <2>3. /\ q.ev = p.ev /\ q.field = 0 /\ q.elem = 0 /\ q.part = "evtype"
        /\ want'.part = "evtype" /\ want'.field = 0 /\ want'.count = 0 /\ want'.bytes = IntBytes
    BY <2>1, <2>2 DEF Place, Read, Width
  <2>4. Size(q)' = IntBytes
    BY <2>3 DEF Size, Width
  <2>5. ReadsFor(q)'
    BY <1>1, <1>2, <1>4, <1>9, <2>3, <2>4 DEF ReadsFor
  <2>6. want' \in [part : Parts \cup {"none"}, field : 0 .. Len(Layout(type')), count : Nat, bytes : Nat]
    BY <1>1, <1>7, <2>1, WireAssumption DEF Read, Width, Parts
  <2>7. Handled(q)
    BY <1>5, <1>6, <1>8, <2>3, <2>5, <2>6 DEF Handled
  <2> QED
    BY <1>1, <1>3, <1>5, <1>6, <2>1, <2>7, ReadStep
<1>10. CASE p.part = "done"
  <2>1. want' = Nothing /\ ropen' = FALSE
    BY <1>4, <1>10, Numbers DEF ReadMsgType, VOYEUR_MSG_EVENT
  <2>2. posted = Len(log)
    <3>1. posted \in Nat /\ Len(log) \in 0..posted
      BY <1>5 DEF Faithful, TypeOK
    <3>2. Len(log) + 1 = posted + 1
      BY <1>4, <1>10
    <3> QED
      BY <3>1, <3>2
  <2>3. TypeOK'
    <3>1. want' \in [part : Parts \cup {"none"}, field : 0 .. Len(Layout(type')), count : Nat, bytes : Nat]
          /\ Len(buf') <= want'.bytes /\ buf' \in Seq(Bytes)
      BY <1>1, <1>7, <2>1 DEF Nothing
    <3> QED
      BY <1>1, <1>2, <1>5, <1>6, <2>1, <3>1 DEF TypeOK
  <2>4. WriterInv'
    BY <1>1, <1>5, <2>1, SameWriter
  <2> QED
    BY <1>1, <1>2, <1>5, <1>8, <2>1, <2>2, <2>3, <2>4 DEF WireInv
<1> QED
  BY <1>4, <1>9, <1>10

\* It reads the event type, and calls the handler of the event that was sent.
LEMMA ReadEventTypeStep ==
  ASSUME WireInv, ReadEventType
  PROVE  WireInv'
<1>1. /\ Complete("evtype") /\ UNCHANGED writerVars /\ chan' = chan /\ buf' = <<>> /\ ropen /\ ropen' = ropen
      /\ type' = AsNumber(buf) /\ got' = got /\ strs' = strs /\ over' = over /\ log' = log
      /\ want.part = "evtype"
  BY DEF ReadEventType, Complete, Reading
<1>2. report' = report /\ wpc' = wpc /\ at' = at /\ sent' = sent /\ posted' = posted
  BY <1>1 DEF writerVars
<1>3. PICK p, q : Taken(p, q)
  BY <1>1, Completed DEF Parts
<1>4. /\ IsPlace(p) /\ ReadsFor(p) /\ p.part = "evtype" /\ p.ev = Len(log) + 1 /\ p.ev <= Len(report)
      /\ got = <<>> /\ strs = <<>> /\ Follows(p, q) /\ AsNumber(buf) = Number(p)
  BY <1>1, <1>3 DEF Taken, ReadsFor
<1>5. TypeOK /\ Faithful /\ report \in Reports
  BY DEF WireInv, TypeOK
<1>6. PICK n, fs, t : n = p.ev /\ fs = report[n].fields /\ t = report[n].type
  OBVIOUS
<1>7. n \in Nat \ {0} /\ n <= Len(report)
  BY <1>4, <1>6 DEF IsPlace, Places
<1>8. /\ t \in 0..3 /\ Len(fs) = Len(Layout(t)) /\ Len(fs) \in Nat \ {0}
      /\ fs[1].kind = Layout(t)[1] /\ fs[1].kind \in FieldKinds
      /\ fs[1].kind = "string" => Len(fs[1].val) = 1
  <2>1. 1 \in Nat \ {0} /\ 1 <= Len(report[n].fields)
    BY <1>5, <1>7, ReportType
  <2> QED
    BY <1>5, <1>6, <1>7, <2>1, ReportType
<1>9. type' = t
  BY <1>1, <1>4, <1>6, Numbers
<1>10. Layout(t) # <<>>
  BY <1>8, LayoutNotEmpty
<1>11. PICK part : part = First[Layout(t)[1]]
  OBVIOUS
<1>12. want' = Read(part, 1, 1)
  <2>1. IF Layout(t) = <<>> THEN want' = Nothing ELSE want' = Read(First[Layout(t)[1]], 1, 1)
    BY <1>9 DEF ReadEventType, ReadField
  <2> QED
    BY <1>10, <1>11, <2>1
<1>13. part \in {"int", "size", "count"} /\ (part = "size" => fs[1].kind = "string")
  BY <1>8, <1>11 DEF First, FieldKinds
<1>14. q = Place(n, 1, 0, part)
  <2>1. After(p) = Field(n, 1)
    BY <1>4, <1>6, Afters
  <2>2. Field(n, 1) = Place(n, 1, 0, First[fs[1].kind])
    BY <1>5, <1>6, <1>7, <1>8, FieldPlace
  <2>3. After(p) = Place(n, 1, 0, part)
    BY <1>8, <1>11, <2>1, <2>2
  <2> QED
    BY <1>4, <1>13, <2>3 DEF Follows, Place
<1>15. /\ want'.part = part /\ want'.field = 1 /\ want'.count = 1 /\ want'.bytes = Width(part)
       /\ q.ev = n /\ q.field = 1 /\ q.elem = 0 /\ q.part = part
  BY <1>12, <1>14 DEF Read, Place
<1>16. Size(q)' = Width(part) /\ ValueOf(q)' = fs[1].val
  BY <1>2, <1>6, <1>13, <1>15 DEF Size, ValueOf
<1>17. Width(part) \in Nat /\ part \in Parts
  BY <1>13, WireAssumption DEF Width, Parts
<1>18. ReadsFor(q)'
  <2>1. got' = [h \in 1 .. q.field - 1 |-> ArrivedField(report'[q.ev].fields[h])]
    BY <1>1, <1>4, <1>15
  <2>2. strs' = [k \in 1 .. q.elem |-> Cut(ValueOf(q)'[k])] /\ Len(strs') = 0
    BY <1>1, <1>4, <1>15
  <2>3. want'.part \in {"size", "text"} => want'.count = Len(ValueOf(q)')
    BY <1>8, <1>13, <1>15, <1>16
  <2>4. want'.part \notin {"none", "msgtype", "evtype", "text"}
    BY <1>13, <1>15
  <2>5. q.ev = Len(log') + 1 /\ q.ev <= Len(report') /\ type' = report'[q.ev].type
    BY <1>1, <1>2, <1>4, <1>6, <1>7, <1>9, <1>15
  <2> QED
    BY <1>15, <1>16, <2>1, <2>2, <2>3, <2>4, <2>5 DEF ReadsFor
<1>19. Handled(q)
  <2>1. Faithful'
    BY <1>1, <1>2, <1>5 DEF Faithful, Arrived
  <2>2. want' \in [part : Parts \cup {"none"}, field : 0 .. Len(Layout(type')), count : Nat, bytes : Nat]
        /\ want'.part # "msgtype"
    BY <1>8, <1>9, <1>12, <1>13, <1>15, <1>17 DEF Read
  <2>3. AreFields(got', Layout(type')) /\ strs' \in Seq(Seq(Nat))
    BY <1>1, <1>4, <1>8, <1>9 DEF AreFields
  <2>4. \A i \in DOMAIN log' : log'[i].type \in 0..3 /\ AreFields(log'[i].vals, Layout(log'[i].type))
    BY <1>1, <1>5 DEF TypeOK
  <2> QED
    BY <1>18, <2>1, <2>2, <2>3, <2>4 DEF Handled
<1>20. type' \in -1..3
  BY <1>8, <1>9
<1> QED
  BY <1>1, <1>3, <1>19, <1>20, ReadStep
\* The reads of a handler.
LEMMA ReadIntReads ==
  ASSUME WireInv, ReadInt, report' = report, type' = type, posted' = posted, NEW p, NEW q, Taken(p, q)
  PROVE  Handled(q)
<1>1. /\ Complete("int") /\ FieldRead(AsNumber(buf)) /\ buf' = <<>> /\ want.part = "int"
      /\ TypeOK /\ Faithful /\ report \in Reports
  BY DEF WireInv, TypeOK, ReadInt, Complete
<1>2. /\ IsPlace(p) /\ ReadsFor(p) /\ p.part = "int" /\ Follows(p, q) /\ AsNumber(buf) = Number(p)
      /\ After(p).part = "msgtype" => p.ev <= posted
  BY <1>1 DEF Taken, ReadsFor
<1>3. After(p) = Field(p.ev, p.field + 1)
  BY <1>2, Afters
<1>4. Handles(p, q, Field(p.ev, p.field + 1))
  BY <1>1, <1>2, <1>3 DEF Handles, Follows
<1>5. AsNumber(buf) = ArrivedField(report[p.ev].fields[p.field])
  <2>1. report[p.ev].fields[p.field].kind = "int"
    BY <1>1, <1>2, PlaceField
  <2>2. AsNumber(buf) = report[p.ev].fields[p.field].val
    BY <1>2, Numbers DEF ValueOf
  <2> QED
    BY <2>1, <2>2 DEF ArrivedField
<1>6. FieldRead(ArrivedField(report[p.ev].fields[p.field]))
  <2>1. PICK x : x = AsNumber(buf)
    OBVIOUS
  <2>2. FieldRead(x)
    BY <1>1, <2>1
  <2> QED
    BY <1>5, <2>1, <2>2
<1> QED
  BY <1>4, <1>6, FieldReads

\* The strings that the server has after this one.
LEMMA StringsSoFar ==
  ASSUME report \in Reports, NEW p, IsPlace(p), ReadsFor(p), p.part \in {"size", "text"}
  PROVE  /\ p.elem \in Nat /\ p.elem + 1 <= Len(ValueOf(p)) /\ want.count = Len(ValueOf(p))
         /\ Append(strs, Cut(StringOf(p))) = [j \in 1 .. p.elem + 1 |-> Cut(ValueOf(p)[j])]
<1>1. p.elem \in Nat /\ p.elem < Len(ValueOf(p)) /\ Len(ValueOf(p)) \in Nat
  BY PlaceField
<1>2. want.part = p.part
  BY DEF ReadsFor
<1>3. strs = [j \in 1 .. p.elem |-> Cut(ValueOf(p)[j])] /\ want.count = Len(ValueOf(p))
  BY <1>2 DEF ReadsFor
<1>4. PICK G : G = [j \in Nat |-> Cut(ValueOf(p)[j])]
  OBVIOUS
<1>5. /\ strs = [j \in 1 .. p.elem |-> G[j]]
      /\ [j \in 1 .. p.elem + 1 |-> G[j]] = [j \in 1 .. p.elem + 1 |-> Cut(ValueOf(p)[j])]
      /\ G[p.elem + 1] = Cut(StringOf(p))
  BY <1>1, <1>3, <1>4 DEF StringOf
<1>6. Append([j \in 1 .. p.elem |-> G[j]], G[p.elem + 1]) = [j \in 1 .. p.elem + 1 |-> G[j]]
  BY <1>1, Appended
<1> QED
  BY <1>1, <1>3, <1>5, <1>6

LEMMA ReadCountReads ==
  ASSUME WireInv, ReadCount, report' = report, type' = type, posted' = posted, NEW p, NEW q, Taken(p, q)
  PROVE  Handled(q)
<1>1. /\ Complete("count") /\ StringsRead(<<>>, AsNumber(buf)) /\ buf' = <<>> /\ want.part = "count"
      /\ TypeOK /\ Faithful /\ report \in Reports
  BY DEF WireInv, TypeOK, ReadCount, Complete
<1>2. /\ IsPlace(p) /\ ReadsFor(p) /\ p.part = "count" /\ Follows(p, q) /\ AsNumber(buf) = Number(p)
      /\ After(p).part = "msgtype" => p.ev <= posted
  BY <1>1 DEF Taken, ReadsFor
<1>3. After(p) = NextString(p, 0)
  BY <1>2, Afters
<1>4. Handles(p, q, NextString(p, 0))
  BY <1>1, <1>2, <1>3 DEF Handles, Follows
<1>5. Len(ValueOf(p)) \in Nat /\ 0 <= Len(ValueOf(p)) /\ AsNumber(buf) = Len(ValueOf(p))
  <2>1. Len(ValueOf(p)) \in Nat
    BY <1>1, <1>2, PlaceField
  <2> QED
    BY <1>2, <2>1, Numbers
<1>6. [j \in 1..0 |-> Cut(ValueOf(p)[j])] = <<>>
  OBVIOUS
<1>7. StringsRead([j \in 1..0 |-> Cut(ValueOf(p)[j])], Len(ValueOf(p)))
  BY <1>1, <1>5, <1>6
<1> QED
  BY <1>2, <1>4, <1>5, <1>7, StringsReads

LEMMA ReadContentReads ==
  ASSUME WireInv, ReadContent, report' = report, type' = type, posted' = posted, NEW p, NEW q, Taken(p, q)
  PROVE  Handled(q)
<1>1. /\ Complete("text") /\ StringsRead(Append(strs, AsText(buf)), want.count) /\ buf' = <<>>
      /\ want.part = "text" /\ TypeOK /\ Faithful /\ report \in Reports
  BY DEF WireInv, TypeOK, ReadContent, Complete
<1>2. /\ IsPlace(p) /\ ReadsFor(p) /\ p.part = "text" /\ Follows(p, q) /\ AsText(buf) = Cut(StringOf(p))
      /\ After(p).part = "msgtype" => p.ev <= posted
  BY <1>1 DEF Taken, ReadsFor
<1>3. PICK k : k = p.elem + 1
  OBVIOUS
<1>4. k \in Nat /\ k <= Len(ValueOf(p)) /\ want.count = Len(ValueOf(p))
      /\ Append(strs, Cut(StringOf(p))) = [j \in 1..k |-> Cut(ValueOf(p)[j])]
  BY <1>1, <1>2, <1>3, StringsSoFar
<1>5. After(p) = NextString(p, k)
  BY <1>2, <1>3, Afters
<1>6. Handles(p, q, NextString(p, k))
  BY <1>1, <1>2, <1>5 DEF Handles, Follows
<1>7. StringsRead([j \in 1..k |-> Cut(ValueOf(p)[j])], Len(ValueOf(p)))
  BY <1>1, <1>2, <1>4
<1> QED
  BY <1>2, <1>4, <1>6, <1>7, StringsReads

LEMMA ReadSizeReads ==
  ASSUME WireInv, ReadSize, report' = report, type' = type, posted' = posted, NEW p, NEW q, Taken(p, q)
  PROVE  Handled(q)
<1>1. /\ Complete("size") /\ buf' = <<>> /\ want.part = "size"
      /\ IF AsNumber(buf) = 0 THEN StringsRead(Append(strs, <<>>), want.count)
         ELSE want' = ReadText(AsNumber(buf)) /\ UNCHANGED <<got, strs, log>>
      /\ TypeOK /\ Faithful /\ report \in Reports
  BY DEF WireInv, TypeOK, ReadSize, Complete
<1>2. /\ IsPlace(p) /\ ReadsFor(p) /\ p.part = "size" /\ Follows(p, q) /\ AsNumber(buf) = Number(p)
      /\ After(p).part = "msgtype" => p.ev <= posted
  BY <1>1 DEF Taken, ReadsFor
<1>3. PICK s, n : s = StringOf(p) /\ n = Length(s)
  OBVIOUS
<1>4. /\ s \in Strings /\ n \in Nat /\ AsNumber(buf) = n
      /\ Cut(s) \in Seq(Nat) /\ Len(Cut(s)) = n
  BY <1>1, <1>2, <1>3, PlaceField, LengthType, Numbers
<1>5. PICK k : k = p.elem + 1
  OBVIOUS
<1>6. k \in Nat /\ k <= Len(ValueOf(p)) /\ want.count = Len(ValueOf(p))
      /\ Append(strs, Cut(s)) = [j \in 1..k |-> Cut(ValueOf(p)[j])]
  BY <1>1, <1>2, <1>3, <1>5, StringsSoFar
<1>7. CASE n = 0
  <2>1. Cut(s) = <<>>
    BY <1>4, <1>7
  <2>2. After(p) = NextString(p, k)
    <3>1. ~(Length(StringOf(p)) > 0)
      BY <1>3, <1>7
    <3> QED
      BY <1>2, <1>5, <3>1, Afters
  <2>3. Handles(p, q, NextString(p, k))
    BY <1>1, <1>2, <2>2 DEF Handles, Follows
  <2>4. StringsRead(Append(strs, <<>>), want.count)
    BY <1>1, <1>4, <1>7
  <2>5. StringsRead([j \in 1..k |-> Cut(ValueOf(p)[j])], Len(ValueOf(p)))
    BY <1>6, <2>1, <2>4
  <2> QED
    BY <1>2, <1>6, <2>3, <2>5, StringsReads
<1>8. CASE n # 0
  <2>1. want' = ReadText(n) /\ got' = got /\ strs' = strs /\ log' = log
    BY <1>1, <1>4, <1>8
  <2>2. q = Place(p.ev, p.field, p.elem, "text")
    <3>1. Length(StringOf(p)) > 0
      BY <1>3, <1>4, <1>8
    <3>2. After(p) = Place(p.ev, p.field, p.elem, "text")
      BY <1>2, <3>1, Afters
    <3> QED
      BY <1>2, <3>2 DEF Follows, Place
  <2>3. /\ p.ev = Len(log) + 1 /\ p.field = want.field /\ p.elem = Len(strs) /\ p.ev <= Len(report)
        /\ type = report[p.ev].type
        /\ got = [f \in 1 .. p.field - 1 |-> ArrivedField(report[p.ev].fields[f])]
        /\ strs = [j \in 1 .. p.elem |-> Cut(ValueOf(p)[j])]
        /\ want.count = Len(ValueOf(p))
    BY <1>1, <1>2 DEF ReadsFor
  <2>4. /\ q.ev = p.ev /\ q.field = p.field /\ q.elem = p.elem /\ q.part = "text"
        /\ want'.part = "text" /\ want'.field = want.field /\ want'.count = want.count /\ want'.bytes = n
    BY <2>1, <2>2 DEF Place, ReadText
  <2>5. ValueOf(q)' = ValueOf(p) /\ Size(q)' = n
    BY <1>3, <2>4 DEF ValueOf, StringOf, Size
  <2>6. ReadsFor(q)'
    BY <2>1, <2>3, <2>4, <2>5 DEF ReadsFor
  <2>7. Faithful'
    BY <1>1, <2>1 DEF Faithful, Arrived
  <2>8. want' \in [part : Parts \cup {"none"}, field : 0 .. Len(Layout(type')), count : Nat, bytes : Nat]
    <3>1. want.field \in 0 .. Len(Layout(type)) /\ want.count \in Nat
      BY <1>1 DEF TypeOK
    <3> QED
      BY <1>4, <2>1, <3>1 DEF ReadText, Parts
  <2>9. /\ AreFields(got', Layout(type')) /\ strs' \in Seq(Seq(Nat))
        /\ \A i \in DOMAIN log' : log'[i].type \in 0..3 /\ AreFields(log'[i].vals, Layout(log'[i].type))
    BY <1>1, <2>1 DEF TypeOK
  <2> QED
    BY <2>4, <2>6, <2>7, <2>8, <2>9 DEF Handled
<1> QED
  BY <1>7, <1>8

LEMMA HandlerStep ==
  ASSUME WireInv, Handler
  PROVE  WireInv'
<1>1. /\ UNCHANGED writerVars /\ chan' = chan /\ type' = type /\ ropen' = ropen /\ over' = over
      /\ ReadInt \/ ReadCount \/ ReadSize \/ ReadContent
  BY DEF Handler
<1>2. report' = report /\ posted' = posted
  BY <1>1 DEF writerVars
<1>3. PICK part \in Parts : Complete(part)
  <2>1. \E part \in {"int", "count", "size", "text"} : Complete(part)
    BY <1>1 DEF ReadInt, ReadCount, ReadSize, ReadContent
  <2> QED
    BY <2>1 DEF Parts
<1>4. ropen /\ buf' = <<>>
  BY <1>3 DEF Complete, Reading
<1>5. PICK p, q : Taken(p, q)
  BY <1>1, <1>3, Completed
<1>6. Handled(q)
  BY <1>1, <1>2, <1>5, ReadIntReads, ReadCountReads, ReadSizeReads, ReadContentReads
<1>7. type' \in -1..3
  BY <1>1 DEF WireInv, TypeOK
<1> QED
  BY <1>1, <1>4, <1>5, <1>6, <1>7, ReadStep

-----------------------------------------------------------------------------
(* The theorems. *)

\* WireInv is inductive.
LEMMA WireStart ==
  ASSUME Init
  PROVE  WireInv
<1>1. /\ report \in Reports /\ wpc = "idle" /\ at = Message(1) /\ sent = 0 /\ posted = 0
      /\ chan = <<>> /\ want = Nothing /\ buf = <<>> /\ type = -1 /\ got = <<>> /\ strs = <<>>
      /\ ropen = TRUE /\ over = FALSE /\ log = <<>>
  BY DEF Init
<1>2. IsPlace(at) /\ at.ev = 1 /\ at.part = "msgtype"
  <2>1. 1 \in Nat \ {0}
    OBVIOUS
  <2> QED
    BY <1>1, <2>1, MessagePlace
<1>3. Len(Layout(type)) \in Nat
  BY LayoutNotEmpty
<1>4. TypeOK
  <2>1. at \in Places
    BY <1>2 DEF IsPlace
  <2>2. want \in [part : Parts \cup {"none"}, field : 0 .. Len(Layout(type)), count : Nat, bytes : Nat]
        /\ want.bytes = 0
    BY <1>1, <1>3 DEF Nothing
  <2>3. AreFields(got, Layout(type))
    BY <1>1, <1>3 DEF AreFields
  <2>4. Len(chan) <= BufCap /\ Len(buf) <= want.bytes /\ chan \in Seq(Bytes) /\ buf \in Seq(Bytes)
        /\ strs \in Seq(Seq(Nat))
    BY <1>1, <2>2, WireAssumption
  <2>5. \A i \in DOMAIN log : log[i].type \in 0..3 /\ AreFields(log[i].vals, Layout(log[i].type))
    <3>1. DOMAIN log = {}
      <4>1. <<>> \in Seq(Nat) /\ Len(<<>>) = 0
        BY EmptySeq
      <4>2. DOMAIN <<>> = 1..0
        BY <4>1, LenProperties
      <4>3. log = <<>>
        BY <1>1
      <4> QED
        BY <4>2, <4>3
    <3> QED
      BY <3>1
  <2>6. type \in -1..3 /\ ropen \in BOOLEAN /\ over \in BOOLEAN /\ sent \in Nat /\ posted \in Nat
    <3>1. -1 \in -1..3 /\ 0 \in Nat
      OBVIOUS
    <3>2. ropen \in BOOLEAN /\ over \in BOOLEAN
      BY <1>1
    <3> QED
      BY <1>1, <3>1, <3>2, Zenon
  <2> QED
    BY <1>1, <2>1, <2>2, <2>3, <2>4, <2>5, <2>6 DEF TypeOK
<1>5. WriterInv
  <2>1. Size(at) \in Nat \ {0}
    BY <1>1, <1>2, SizeType
  <2> QED
    BY <1>1, <1>2, <2>1 DEF WriterInv
<1>6. Faithful
  BY <1>1 DEF Faithful
<1>7. flight = <<>> /\ At[1] = at /\ Ix[1] = 1
  <2>1. flight = <<>>
    BY <1>1 DEF flight
  <2> QED
    BY <1>1, <2>1 DEF At, Ix
<1>8. FlightInv
  <2>1. BytesInv /\ Len(flight) = 0
    BY <1>7 DEF BytesInv
  <2>2. Chain(At, Ix, 0)
    BY <1>7 DEF Chain
  <2> QED
    BY <2>1, <2>2 DEF FlightInv
<1>9. ReaderInv
  BY <1>1, <1>2, <1>7 DEF ReaderInv, ReadsFor, Nothing
<1> QED
  BY <1>1, <1>4, <1>5, <1>6, <1>8, <1>9 DEF WireInv

LEMMA WireStep ==
  ASSUME WireInv, [Next]_vars
  PROVE  WireInv'
<1>1. CASE BeginEvent \/ Close \/ Die
  BY <1>1, BeginEventStep
<1>2. CASE Send
  BY <1>2, SendStep
<1>3. CASE SendFails
  BY <1>3, SendFailsStep
<1>4. CASE WriteDone
  BY <1>4, WriteDoneStep
<1>5. CASE StartMessage
  BY <1>5, StartMessageStep
<1>6. CASE Receive
  BY <1>6, ReceiveStep
<1>7. CASE EndOfFile
  BY <1>7, EndOfFileStep
<1>8. CASE ReadMsgType
  BY <1>8, ReadMsgTypeStep
<1>9. CASE ReadEventType
  BY <1>9, ReadEventTypeStep
<1>10. CASE Handler
  BY <1>10, HandlerStep
<1>11. CASE Stop
  BY <1>11, StopStep
<1>12. CASE UNCHANGED vars
  <2>1. /\ report' = report /\ wpc' = wpc /\ at' = at /\ sent' = sent /\ posted' = posted /\ chan' = chan
        /\ want' = want /\ buf' = buf /\ type' = type /\ got' = got /\ strs' = strs
        /\ ropen' = ropen /\ over' = over /\ log' = log
        /\ UNCHANGED writerVars /\ UNCHANGED readerVars
    BY <1>12 DEF vars, writerVars, readerVars
  <2>2. TypeOK'
    BY <2>1 DEF WireInv, TypeOK, AreFields
  <2>3. WriterInv' /\ Faithful'
    BY <2>1, SameWriter DEF WireInv, Faithful, Arrived
  <2>4. ASSUME FlightInv, ReaderInv PROVE FlightInv' /\ ReaderInv'
    <3>1. flight' = flight
      BY <2>1 DEF flight
    <3>2. FlightInv' /\ At' = At /\ Ix' = Ix
      BY <2>1, <2>4, <3>1, SameFlight
    <3>3. PICK p : p = At[1]
      OBVIOUS
    <3>4. ReadsFor(p)'
      BY <2>1, <2>4, <3>3, SameReader DEF ReaderInv
    <3> QED
      BY <2>1, <2>4, <3>1, <3>2, <3>3, <3>4 DEF ReaderInv
  <2>5. GivenUp => GivenUp'
    BY <2>1 DEF GivenUp
  <2> QED
    BY <2>1, <2>2, <2>3, <2>4, <2>5 DEF WireInv
<1> QED
  BY <1>1, <1>2, <1>3, <1>4, <1>5, <1>6, <1>7, <1>8, <1>9, <1>10, <1>11, <1>12 DEF Next, ServerStep
\* Every call of do_read() reads what one call of do_write() wrote, on every
\* connection and in every state: the invariant behind the other theorems.
THEOREM ReadsMatchWrites == Spec => []WireInv
<1>1. Init => WireInv
  BY WireStart
<1>2. WireInv /\ [Next]_vars => WireInv'
  BY WireStep
<1> QED
  BY <1>1, <1>2, PTL DEF Spec

\* What the handlers have read has the types of their fields, and neither a read nor
\* the socket holds more than it can.
THEOREM WireTypes == Spec => []TypeOK
<1>1. WireInv => TypeOK
  BY DEF WireInv
<1> QED
  BY <1>1, ReadsMatchWrites, PTL

\* The callbacks are those of the events that were sent, in order and with every value.
THEOREM CallbacksAreFaithful == Spec => []Faithful
<1>1. WireInv => Faithful
  BY DEF WireInv
<1> QED
  BY <1>1, ReadsMatchWrites, PTL

\* A process outside of the interposers never has the server waiting inside a message.
THEOREM WaitsOnlyForWriters == Spec => []NeverStarves
<1>1. WireInv => NeverStarves
  <2> SUFFICES ASSUME WireInv, Reading, Needed > 0, chan = <<>>, wpc # "closed"
               PROVE  wpc \in {"event", "done"}
    BY DEF NeverStarves
  <2>1. ~GivenUp /\ WriterInv /\ TypeOK /\ ropen /\ FlightInv /\ ReaderInv /\ want # Nothing
    BY DEF GivenUp, WireInv, Reading
  <2>2. ReadsFor(at) /\ sent = Len(buf)
    BY <2>1, Waiting
  <2>3. SUFFICES ASSUME wpc \in {"idle", "over"} PROVE FALSE
    BY <2>1 DEF TypeOK
  <2>4. at.part = "msgtype" /\ sent = 0
    BY <2>1, <2>3 DEF WriterInv
  <2>5. want.part = "msgtype"
    BY <2>1, <2>2, <2>4 DEF ReadsFor
  <2>6. buf = <<>>
    <3>1. buf \in Seq(Bytes) /\ Len(buf) = 0
      BY <2>1, <2>2, <2>4 DEF TypeOK
    <3> QED
      BY <3>1, EmptySeq
  <2>7. flight = <<>>
    BY <2>6 DEF flight
  <2> QED
    BY <2>1, <2>5, <2>7 DEF ReaderInv
<1> QED
  BY <1>1, ReadsMatchWrites, PTL

-----------------------------------------------------------------------------
(* A connection is a queue of events. *)

\* What a step does to what the channel sees.
LEMMA ChannelSteps ==
  ASSUME WireInv, [Next]_vars
  PROVE  \/ posted' = posted /\ Len(log') = Len(log) /\ over' = over
         \/ posted' = posted + 1 /\ Len(log') = Len(log) /\ over' = over
         \/ posted' = posted /\ Len(log') = Len(log) + 1 /\ over' = over /\ ~over
         \/ posted' = posted /\ Len(log') = Len(log) /\ over' = TRUE
<1>1. CASE Send
  <2>1. log' = log /\ over' = over /\ ropen /\ wpc \in {"event", "done"}
        /\ posted' = (IF wpc' = "idle" THEN at.ev ELSE posted)
    BY <1>1 DEF Send, readerVars
  <2>2. posted = at.ev - 1 /\ at.ev \in Nat
    BY <2>1 DEF WireInv, WriterInv, TypeOK, Places
  <2> QED
    BY <2>1, <2>2
<1>2. CASE Handler
  <2>1. posted' = posted /\ over' = over
    BY <1>2 DEF Handler, writerVars
  <2>2. ~over
    BY <1>2 DEF Handler, ReadInt, ReadCount, ReadSize, ReadContent, Complete, Reading, WireInv
  <2>3. log' = log \/ \E e : log' = Append(log, e)
    <3>1. ASSUME NEW v, FieldRead(v) PROVE log' = log \/ \E e : log' = Append(log, e)
      BY <3>1 DEF FieldRead
    <3>2. ASSUME NEW ss, NEW n, StringsRead(ss, n) PROVE log' = log \/ \E e : log' = Append(log, e)
      <4>1. FieldRead(ss) \/ log' = log
        BY <3>2 DEF StringsRead
      <4> QED
        BY <3>1, <4>1
    <3>3. CASE ReadInt
      <4>1. PICK v : v = AsNumber(buf)
        OBVIOUS
      <4>2. FieldRead(v)
        BY <3>3, <4>1 DEF ReadInt
      <4> QED
        BY <3>1, <4>2
    <3>4. CASE ReadCount \/ ReadSize \/ ReadContent
      <4>1. log' = log \/ \E ss, n : StringsRead(ss, n)
        <5>1. ReadCount => StringsRead(<<>>, AsNumber(buf))
          BY DEF ReadCount
        <5>2. ReadContent => StringsRead(Append(strs, AsText(buf)), want.count)
          BY DEF ReadContent
        <5>3. ReadSize => StringsRead(Append(strs, <<>>), want.count) \/ log' = log
          BY DEF ReadSize
        <5>4. PICK a, b, c, d, e : a = <<>> /\ b = AsNumber(buf) /\ c = Append(strs, AsText(buf))
                                   /\ d = want.count /\ e = Append(strs, <<>>)
          OBVIOUS
        <5>5. StringsRead(a, b) \/ StringsRead(c, d) \/ StringsRead(e, d) \/ log' = log
          BY <3>4, <5>1, <5>2, <5>3, <5>4
        <5> QED
          BY <5>5
      <4> QED
        BY <3>2, <4>1
    <3> QED
      BY <1>2, <3>3, <3>4 DEF Handler
  <2>4. ASSUME NEW e, log' = Append(log, e) PROVE Len(log') = Len(log) + 1
    <3>1. PICK k, E : k = Len(log) /\ E = [i \in Nat |-> IF i <= k THEN Arrived(report[i]) ELSE e]
      OBVIOUS
    <3>2. k \in Nat /\ log = [i \in 1..k |-> E[i]] /\ E[k + 1] = e
      BY <3>1 DEF WireInv, Faithful
    <3>3. log' = [i \in 1 .. k + 1 |-> E[i]] /\ k + 1 \in Nat
      BY <2>4, <3>2, Appended
    <3>4. Len([i \in 1 .. k + 1 |-> E[i]]) = k + 1
      BY <3>3, Appended
    <3> QED
      BY <3>1, <3>3, <3>4
  <2> QED
    BY <2>1, <2>2, <2>3, <2>4
<1>3. CASE Stop
  BY <1>3 DEF Stop, writerVars
<1>4. CASE BeginEvent \/ SendFails \/ WriteDone \/ Close \/ Die
  BY <1>4 DEF BeginEvent, SendFails, WriteDone, Close, Die, readerVars
<1>5. CASE StartMessage \/ Receive \/ EndOfFile \/ ReadMsgType \/ ReadEventType
  BY <1>5 DEF StartMessage, Receive, EndOfFile, ReadMsgType, ReadEventType, writerVars
<1>6. CASE UNCHANGED vars
  BY <1>6 DEF vars, writerVars, readerVars
<1> QED
  BY <1>1, <1>2, <1>3, <1>4, <1>5, <1>6 DEF Next, ServerStep

\* The abstract channel counts as FiniteSets does.
LEMMA SameCardinality == \A S : Channel!Cardinality(S) = Cardinality(S)
  BY DEF Channel!Cardinality, Cardinality

\* What the abstract channel has delivered is the callbacks made.
LEMMA DeliveredIsLength ==
  ASSUME Len(log) \in Nat
  PROVE  Channel!Delivered(Null) = Len(log)
<1>1. PICK n : n = Len(log)
  OBVIOUS
<1>2. {i \in DOMAIN [j \in 1..n |-> <<Null, j>>] : [j \in 1..n |-> <<Null, j>>][i][1] = Null} = 1..n
  OBVIOUS
<1>3. Cardinality(1..n) = n
  <2>1. n \in Nat /\ n \in Int /\ 1 \in Int
    BY <1>1
  <2>2. Cardinality(1..n) = IF 1 > n THEN 0 ELSE n - 1 + 1
    BY <2>1, FS_Interval
  <2> QED
    BY <2>1, <2>2
<1> QED
  BY <1>1, <1>2, <1>3, SameCardinality DEF Channel!Delivered

\* Unless the server ends, it closes a connection only when everything arrived.
LEMMA NeverLost ==
  ASSUME WireInv
  PROVE  {c \in {Null} : ~ropen /\ ~over /\ Len(log) < posted} = {}
  BY DEF WireInv, TypeOK

\* Every step is one of the abstract channel, or a stutter.
LEMMA WireImplements ==
  ASSUME WireInv, WireInv', [Next]_vars
  PROVE  [Channel!Next]_(Channel!chan)
<1>1. PICK a, b, m, n, lo, lo1 :
         /\ a = posted /\ b = posted' /\ m = Len(log) /\ n = Len(log')
         /\ lo = {c \in {Null} : ~ropen /\ ~over /\ Len(log) < posted}
         /\ lo1 = {c \in {Null} : ~ropen' /\ ~over' /\ Len(log') < posted'}
  OBVIOUS
<1>2. a \in Nat /\ b \in Nat /\ m \in 0..a /\ n \in 0..b
  BY <1>1 DEF WireInv, TypeOK, Faithful
<1>3. lo = {} /\ lo1 = {}
  <2>1. lo = {}
    BY <1>1, NeverLost
  <2>2. lo1 = {}
    BY <1>1 DEF WireInv, TypeOK
  <2> QED
    BY <2>1, <2>2
<1>4. Channel!Delivered(Null) = m
  BY <1>1, <1>2, DeliveredIsLength
<1>5. CASE b = a /\ n = m /\ over' = over
  BY <1>1, <1>3, <1>5 DEF Channel!chan
<1>6. CASE b = a + 1 /\ n = m /\ over' = over
  <2>1. [c \in {Null} |-> b] = [[c \in {Null} |-> a] EXCEPT ![Null] = @ + 1]
    BY <1>6
  <2>2. Channel!Post(Null)
    BY <1>1, <1>3, <1>6, <2>1 DEF Channel!Post
  <2> QED
    BY <2>2 DEF Channel!Next
<1>7. CASE b = a /\ n = m + 1 /\ over' = over /\ ~over
  <2>1. [i \in 1..n |-> <<Null, i>>] = Append([i \in 1..m |-> <<Null, i>>], <<Null, m + 1>>)
    <3>1. PICK F : F = [i \in Nat |-> <<Null, i>>]
      OBVIOUS
    <3>2. Append([i \in 1..m |-> F[i]], F[m + 1]) = [i \in 1 .. m + 1 |-> F[i]]
      BY <1>2, Appended
    <3>3. F[m + 1] = <<Null, m + 1>> /\ [i \in 1..m |-> F[i]] = [i \in 1..m |-> <<Null, i>>]
          /\ [i \in 1 .. m + 1 |-> F[i]] = [i \in 1 .. m + 1 |-> <<Null, i>>]
      BY <1>2, <3>1
    <3> QED
      BY <1>7, <3>2, <3>3
  <2>2. m < [c \in {Null} |-> a][Null]
    BY <1>2, <1>7
  <2>3. Channel!Deliver(Null)
    BY <1>1, <1>3, <1>4, <1>7, <2>1, <2>2 DEF Channel!Deliver
  <2> QED
    BY <2>3 DEF Channel!Next
<1>8. CASE b = a /\ n = m /\ over' = TRUE
  <2>1. Channel!Stop
    BY <1>1, <1>3, <1>8 DEF Channel!Stop
  <2> QED
    BY <2>1 DEF Channel!Next
<1> QED
  BY <1>1, <1>5, <1>6, <1>7, <1>8, ChannelSteps

\* A connection is an event channel, however send() and read() split what is written:
\* each event that was sent in full is called back once and in order unless the server
\* stops, and none is given up.
THEOREM WireImplementsChannel == Spec => ImplementsChannel
<1>1. Init => Channel!Init
  BY DEF Init, Channel!Init
<1>2. WireInv /\ WireInv' /\ [Next]_vars => [Channel!Next]_(Channel!chan)
  BY WireImplements
<1> QED
  BY <1>1, <1>2, ReadsMatchWrites, PTL DEF Spec, ImplementsChannel, Channel!Spec
===============================================================================
