---------------------------- MODULE ImportProofs ----------------------------
(***************************************************************************)
(* An import that reports success leaves one dataset behind, for every     *)
(* export and any number of processes that start, index and learn while it *)
(* runs.                                                                   *)
(***************************************************************************)
EXTENDS OfflineProofs

Step == File \cup {"open", "delete", "create", "index", "success"}

(* The order of the steps of a script, whichever of them it has.           *)
Rank(step) ==
  CASE step = "raw" -> 1 [] step = "manifest" -> 2 [] step = "pairs" -> 3
    [] step = "samples" -> 4 [] step = "report" -> 5 [] step = "open" -> 6
    [] step = "delete" -> 7 [] step = "create" -> 8 [] step = "index" -> 9
    [] step = "success" -> 10

Ordered(s) == \A i, j \in 1..Len(s) : i < j => Rank(s[i]) < Rank(s[j])
Among(s) == {s[i] : i \in 1..Len(s)}
Owed == Among(script.todo)
Whole == ToIndex(Result(script.export))

(* A script does its steps in their order and leaves none out.             *)
OrderInv ==
  Running =>
    /\ script.todo \in Seq(Step) /\ Ordered(script.todo)
    /\ script.index => /\ "samples" \in Owed => "delete" \in Owed
                       /\ "delete" \in Owed => "create" \in Owed
                       /\ "create" \in Owed => "index" \in Owed

(* What it has written is there, and nobody else changes it.               *)
FilesInv ==
  Running =>
    LET e == script.export IN
    /\ "raw" \notin Owed => raw = RawRecords(e)
    /\ "manifest" \notin Owed => manifest = FreshConsent(e)
    /\ "pairs" \notin Owed /\ e.kind = "ocr" => pairs = Pairs(e)
    /\ "samples" \notin Owed => {s \in samples : s.source = "import"} = Result(e)

(* No process has a handle of a collection that is still to come.          *)
HandleInv ==
  /\ collection.number \in Nat
  /\ \A p \in Process : service[p].handle \in Nat /\ service[p].handle <= collection.number

(* Once the old collection is deleted, whoever may still write to the new  *)
(* one has read the new samples.                                           *)
NewIndexInv ==
  Running /\ script.index /\ "delete" \notin Owed =>
    /\ collection.docs \subseteq Whole
    /\ "create" \notin Owed => collection.exists
    /\ "index" \notin Owed => Whole \subseteq collection.docs
    /\ \A p \in Process :
         service[p].at = "loaded" /\ ~Stale(p) => ToIndex(service[p].loaded) \subseteq Whole

ImportInv == OrderInv /\ FilesInv /\ HandleInv /\ NewIndexInv

-----------------------------------------------------------------------------
(* What a script writes of an export                                       *)

LEMMA ExportLines ==
  ASSUME NEW e \in Export
  PROVE  /\ Len(e.lines) \in Nat
         /\ Targets(e) \in SUBSET (1..Len(e.lines))
<1>1. e.lines \in Seq(Line)
  BY ExportAssumption
<1>2. DOMAIN e.lines = 1..Len(e.lines) /\ Len(e.lines) \in Nat
  BY <1>1, LenProperties
<1> QED
  BY <1>2 DEF Targets, Kept

(* The whole of a file is written: no record is behind the last line.      *)
LEMMA RecordsFit ==
  ASSUME NEW e \in Export
  PROVE  \A x \in RawRecords(e) : x.at \in Nat /\ x.at <= Len(e.lines)
<1> SUFFICES ASSUME NEW x \in RawRecords(e) PROVE x.at \in Nat /\ x.at <= Len(e.lines)
  OBVIOUS
<1>1. PICK i \in Targets(e) : x.at = Place(Targets(e), i)
  BY DEF RawRecords
<1> QED
  BY <1>1, ExportLines, PlaceBounded

LEMMA ResultsFit ==
  ASSUME NEW e \in Export
  PROVE  \A x \in Result(e) : x.at \in Nat /\ x.at <= Len(e.lines) /\ x.source = "import"
<1> SUFFICES ASSUME NEW x \in Result(e)
             PROVE  x.at \in Nat /\ x.at <= Len(e.lines) /\ x.source = "import"
  OBVIOUS
<1>1. PICK r \in RawRecords(e) : x.at = r.at /\ x.source = "import"
  BY DEF Result, Imported
<1> QED
  BY <1>1, RecordsFit

LEMMA PairsFit ==
  ASSUME NEW e \in Export
  PROVE  \A x \in Pairs(e) : x.at \in Nat /\ x.at <= Len(e.lines)
<1> SUFFICES ASSUME NEW x \in Pairs(e) PROVE x.at \in Nat /\ x.at <= Len(e.lines)
  OBVIOUS
<1> DEFINE Asks(i) == {j \in Kept(e) : j < i /\ e.lines[j].role = "self"}
           answers == {i \in Targets(e) : Asks(i) # {}}
           Latest(S) == CHOOSE j \in S : \A k \in S : k <= j
           pair(i) == [at |-> Place(answers, i), persona |-> e.persona,
                       self |-> AsSaid(e.lines[Latest(Asks(i))].text),
                       reply |-> AsSaid(e.lines[i].text)]
<1>0. x \in {pair(i) : i \in answers}
  BY Zenon DEF Pairs
<1>1. \E i \in answers : x.at = Place(answers, i)
  <2> HIDE DEF answers, Latest, Asks
  <2> QED
    BY <1>0
<1>2. answers \in SUBSET (1..Len(e.lines)) /\ Len(e.lines) \in Nat
  BY ExportLines
<1> QED
  BY <1>1, <1>2, PlaceBounded

(* Samples of one import with one id are one sample. *)
LEMMA ResultIds ==
  ASSUME NEW e \in Export, NEW x \in Result(e), NEW y \in Result(e), Id(x) = Id(y)
  PROVE  x = y
<1> DEFINE T == Targets(e)
           Raw(i) == [at |-> Place(T, i), consent |-> e.consent, persona |-> e.persona,
                      text |-> AsSaid(e.lines[i].text)]
           Made(r) == [at |-> r.at, consent |-> r.consent, persona |-> r.persona,
                     text |-> Redacted(r.text), source |-> "import",
                     usage |-> "style_simulation", active |-> ~FreshConsent(e).revoked]
<1>1. PICK i \in T : x = Made(Raw(i))
  BY DEF Result, Imported, RawRecords
<1>2. PICK j \in T : y = Made(Raw(j))
  BY DEF Result, Imported, RawRecords
<1>3. Place(T, i) = Place(T, j)
  BY <1>1, <1>2 DEF Id
<1>4. i \in Int /\ j \in Int
  BY ExportLines
<1>5. i = j
  <2>1. T \in SUBSET (1..Len(e.lines)) /\ Len(e.lines) \in Nat
    BY ExportLines
  <2>2. ~(i < j) /\ ~(j < i)
    BY <1>3, <2>1, PlaceInjective
  <2> QED
    BY <1>4, <2>2
<1> QED
  BY <1>1, <1>2, <1>5

(* Adding samples of the export to samples of the export changes none.     *)
LEMMA UpsertOfWhole ==
  ASSUME NEW e \in Export, NEW D, NEW S,
         D \subseteq ToIndex(Result(e)), S \subseteq ToIndex(Result(e))
  PROVE  Upserted(D, S) = D \cup S
<1>1. ASSUME NEW d \in D, NEW s \in S, Id(s) = Id(d)
      PROVE  d \in S
  <2>1. d \in Result(e) /\ s \in Result(e)
    BY DEF ToIndex
  <2> QED
    BY <1>1, <2>1, ResultIds
<1> QED
  BY <1>1 DEF Upserted

(* The answers learned beside them are not indexed. *)
LEMMA IndexOfFile ==
  ASSUME NEW S, NEW e \in Export, \A s \in S : Authorized(s) \/ Own(s),
         {s \in S : s.source = "import"} = Result(e)
  PROVE  ToIndex(S) = ToIndex(Result(e))
<1>1. \A s \in S : s.source = "import" \/ ~Indexable(s)
  BY DEF Authorized, Own, Indexable
<1>2. \A s \in ToIndex(S) : s \in Result(e)
  BY <1>1 DEF ToIndex
<1>3. Result(e) \subseteq S
  OBVIOUS
<1> QED
  BY <1>2, <1>3 DEF ToIndex

-----------------------------------------------------------------------------
(* The steps of a script                                                   *)

LEMMA OrderedConcat ==
  ASSUME NEW s \in Seq(Step), NEW t \in Seq(Step), Ordered(s), Ordered(t),
         \A a \in Among(s), b \in Among(t) : Rank(a) < Rank(b)
  PROVE  s \o t \in Seq(Step) /\ Ordered(s \o t) /\ Among(s \o t) = Among(s) \cup Among(t)
<1>1. /\ s \o t \in Seq(Step) /\ Len(s \o t) = Len(s) + Len(t)
      /\ \A i \in 1..Len(s) + Len(t) :
           (s \o t)[i] = IF i <= Len(s) THEN s[i] ELSE t[i - Len(s)]
  BY ConcatProperties
<1>2. Len(s) \in Nat /\ Len(t) \in Nat
  OBVIOUS
<1>3. ASSUME NEW i \in 1..Len(s \o t), NEW j \in 1..Len(s \o t), i < j
      PROVE  Rank((s \o t)[i]) < Rank((s \o t)[j])
  <2>1. CASE j <= Len(s)
    BY <1>1, <1>2, <1>3, <2>1 DEF Ordered
  <2>2. CASE i <= Len(s) /\ ~(j <= Len(s))
    <3>1. s[i] \in Among(s) /\ t[j - Len(s)] \in Among(t)
      BY <1>1, <1>2, <1>3, <2>2 DEF Among
    <3> QED
      BY <1>1, <1>2, <1>3, <2>2, <3>1
  <2>3. CASE ~(i <= Len(s))
    BY <1>1, <1>2, <1>3, <2>3 DEF Ordered
  <2> QED
    BY <1>1, <1>2, <1>3, <2>1, <2>2, <2>3
<1>4. \A i \in 1..Len(s) : s[i] = (s \o t)[i] /\ i \in 1..Len(s \o t)
  BY <1>1, <1>2
<1>5. \A i \in 1..Len(t) : t[i] = (s \o t)[Len(s) + i] /\ Len(s) + i \in 1..Len(s \o t)
  BY <1>1, <1>2
<1>6. \A i \in 1..Len(s \o t) :
        \/ i \in 1..Len(s) /\ (s \o t)[i] = s[i]
        \/ i - Len(s) \in 1..Len(t) /\ (s \o t)[i] = t[i - Len(s)]
  BY <1>1, <1>2
<1>7. Among(s \o t) = Among(s) \cup Among(t)
  BY <1>4, <1>5, <1>6 DEF Among
<1> QED
  BY <1>1, <1>3, <1>7 DEF Ordered

LEMMA OneStep ==
  ASSUME NEW x \in Step
  PROVE  <<x>> \in Seq(Step) /\ Ordered(<<x>>) /\ Among(<<x>>) = {x}
<1>1. Len(<<x>>) = 1 /\ <<x>>[1] = x /\ 1..1 = {1}
  OBVIOUS
<1>2. Among(<<x>>) = {<<x>>[k] : k \in {1}}
  BY <1>1, Zenon DEF Among
<1> QED
  BY <1>1, <1>2 DEF Ordered

LEMMA TwoSteps ==
  ASSUME NEW x \in Step, NEW y \in Step, Rank(x) < Rank(y)
  PROVE  <<x, y>> \in Seq(Step) /\ Ordered(<<x, y>>) /\ Among(<<x, y>>) = {x, y}
<1>1. Len(<<x, y>>) = 2 /\ <<x, y>>[1] = x /\ <<x, y>>[2] = y /\ 1..2 = {1, 2}
  OBVIOUS
<1>2. Among(<<x, y>>) = {<<x, y>>[k] : k \in {1, 2}}
  BY <1>1, Zenon DEF Among
<1> QED
  BY <1>1, <1>2 DEF Ordered

LEMMA StepsInOrder ==
  ASSUME NEW e, NEW index \in BOOLEAN
  PROVE  /\ Steps(e, index) \in Seq(Step) /\ Ordered(Steps(e, index))
         /\ {"raw", "manifest", "samples", "success"} \subseteq Among(Steps(e, index))
         /\ e.kind = "ocr" => "pairs" \in Among(Steps(e, index))
         /\ index => {"delete", "create", "index"} \subseteq Among(Steps(e, index))
<1> DEFINE a == <<"raw", "manifest">>
           b == IF e.kind = "ocr" THEN <<"pairs">> ELSE <<>>
           c == <<"samples", "report">>
           d == IF index THEN <<"open", "delete", "create", "index">> ELSE <<>>
           f == <<"success">>
<1>1. a \in Seq(Step) /\ Ordered(a) /\ Among(a) = {"raw", "manifest"}
  BY TwoSteps DEF Step, File, Rank
<1>2. b \in Seq(Step) /\ Ordered(b) /\ Among(b) = IF e.kind = "ocr" THEN {"pairs"} ELSE {}
  <2>1. CASE e.kind = "ocr"
    <3>1. b = <<"pairs">> /\ "pairs" \in Step
      BY <2>1 DEF Step, File
    <3> QED
      BY <2>1, <3>1, OneStep
  <2>2. CASE e.kind # "ocr"
    BY <2>2 DEF Ordered, Among
  <2> QED
    BY <2>1, <2>2
<1>3. c \in Seq(Step) /\ Ordered(c) /\ Among(c) = {"samples", "report"}
  BY TwoSteps DEF Step, File, Rank
<1>4. d \in Seq(Step) /\ Ordered(d)
      /\ Among(d) = IF index THEN {"open", "delete", "create", "index"} ELSE {}
  <2>1. CASE index
    <3> DEFINE g == <<"open", "delete">>
               h == <<"create", "index">>
    <3>1. g \in Seq(Step) /\ Ordered(g) /\ Among(g) = {"open", "delete"}
      BY TwoSteps DEF Step, File, Rank
    <3>2. h \in Seq(Step) /\ Ordered(h) /\ Among(h) = {"create", "index"}
      BY TwoSteps DEF Step, File, Rank
    <3>3. d = g \o h /\ index
      BY <2>1
    <3> HIDE DEF d, g, h
    <3>4. \A x \in Among(g), y \in Among(h) : Rank(x) < Rank(y)
      BY <3>1, <3>2 DEF Rank
    <3> QED
      <4>1. /\ g \o h \in Seq(Step) /\ Ordered(g \o h)
            /\ Among(g \o h) = Among(g) \cup Among(h)
        BY <3>1, <3>2, <3>4, OrderedConcat
      <4> QED
        BY <3>1, <3>2, <3>3, <4>1
  <2>2. CASE ~index
    BY <2>2 DEF Ordered, Among
  <2> QED
    BY <2>1, <2>2
<1>5. f \in Seq(Step) /\ Ordered(f) /\ Among(f) = {"success"}
  BY OneStep DEF Step, File
<1> HIDE DEF a, b, c, d, f
<1>6. /\ a \o b \in Seq(Step) /\ Ordered(a \o b) /\ Among(a \o b) = Among(a) \cup Among(b)
  <2>1. \A x \in Among(a), y \in Among(b) : Rank(x) < Rank(y)
    BY <1>1, <1>2 DEF Rank
  <2> QED
    BY <1>1, <1>2, <2>1, OrderedConcat
<1>7. /\ (a \o b) \o c \in Seq(Step) /\ Ordered((a \o b) \o c)
      /\ Among((a \o b) \o c) = Among(a) \cup Among(b) \cup Among(c)
  <2>1. \A x \in Among(a \o b), y \in Among(c) : Rank(x) < Rank(y)
    BY <1>1, <1>2, <1>3, <1>6 DEF Rank
  <2> QED
    BY <1>3, <1>6, <2>1, OrderedConcat
<1>8. /\ ((a \o b) \o c) \o d \in Seq(Step) /\ Ordered(((a \o b) \o c) \o d)
      /\ Among(((a \o b) \o c) \o d) = Among(a) \cup Among(b) \cup Among(c) \cup Among(d)
  <2>1. \A x \in Among((a \o b) \o c), y \in Among(d) : Rank(x) < Rank(y)
    BY <1>1, <1>2, <1>3, <1>4, <1>7 DEF Rank
  <2> QED
    BY <1>4, <1>7, <2>1, OrderedConcat
<1>9. /\ (((a \o b) \o c) \o d) \o f \in Seq(Step) /\ Ordered((((a \o b) \o c) \o d) \o f)
      /\ Among((((a \o b) \o c) \o d) \o f)
           = Among(a) \cup Among(b) \cup Among(c) \cup Among(d) \cup Among(f)
  <2>1. \A x \in Among(((a \o b) \o c) \o d), y \in Among(f) : Rank(x) < Rank(y)
    BY <1>1, <1>2, <1>3, <1>4, <1>5, <1>8 DEF Rank
  <2> QED
    BY <1>5, <1>8, <2>1, OrderedConcat
<1>10. Steps(e, index) = (((a \o b) \o c) \o d) \o f
  BY DEF Steps, a, b, c, d, f
<1> QED
  BY <1>1, <1>2, <1>3, <1>4, <1>5, <1>9, <1>10

(* The first of the steps left comes before the others. *)
LEMMA HeadIsNext ==
  ASSUME NEW s \in Seq(Step), s # <<>>, Ordered(s)
  PROVE  /\ Tail(s) \in Seq(Step) /\ Ordered(Tail(s))
         /\ Head(s) \in Among(s) /\ Among(Tail(s)) = Among(s) \ {Head(s)}
         /\ \A x \in Among(Tail(s)) : Rank(Head(s)) < Rank(x)
<1>1. /\ Tail(s) \in Seq(Step) /\ Len(Tail(s)) = Len(s) - 1
      /\ \A i \in 1..Len(Tail(s)) : Tail(s)[i] = s[i + 1]
  BY HeadTailProperties
<1>2. Len(s) \in Nat /\ Len(s) > 0 /\ Head(s) = s[1]
  OBVIOUS
<1>3. Ordered(Tail(s))
  BY <1>1, <1>2 DEF Ordered
<1>4. \A x \in Among(Tail(s)) : x \in Among(s) /\ Rank(Head(s)) < Rank(x)
  BY <1>1, <1>2 DEF Ordered, Among
<1>5. \A i \in 1..Len(s) : i = 1 \/ (i - 1 \in 1..Len(Tail(s)) /\ Tail(s)[i - 1] = s[i])
  BY <1>1, <1>2
<1>6. \A x \in Among(s) : x = Head(s) \/ x \in Among(Tail(s))
  BY <1>2, <1>5 DEF Among
<1>7. Head(s) \in Among(s)
  BY <1>2 DEF Among
<1>8. Head(s) \notin Among(Tail(s))
  <2>1. \A x \in Among(s) : Rank(x) \in Nat
    <3>1. \A i \in 1..Len(s) : s[i] \in Step
      OBVIOUS
    <3> QED
      BY <3>1 DEF Among, Step, File, Rank
  <2> QED
    BY <1>4, <1>7, <2>1
<1> QED
  BY <1>1, <1>3, <1>4, <1>6, <1>7, <1>8

(* A script that goes on. *)
LEMMA DoneStep ==
  ASSUME OrderInv, ScriptShape, NEW f \in Step, Due(f), Done
  PROVE  /\ script'.export = script.export /\ script'.index = script.index
         /\ f \in Owed /\ Owed' = Owed \ {f}
         /\ \A x \in Owed' : Rank(f) < Rank(x)
         /\ OrderInv'
<1>1. /\ Running /\ f = Head(script.todo)
      /\ script.todo \in Seq(Step) /\ script.todo # <<>> /\ Ordered(script.todo)
  BY DEF Due, Running, OrderInv
<1>2. /\ script'.export = script.export /\ script'.index = script.index
      /\ script'.todo = Tail(script.todo)
  BY <1>1 DEF Done, ScriptShape
<1>3. /\ Tail(script.todo) \in Seq(Step) /\ Ordered(Tail(script.todo))
      /\ f \in Owed /\ Among(Tail(script.todo)) = Owed \ {f}
      /\ \A x \in Among(Tail(script.todo)) : Rank(f) < Rank(x)
  BY <1>1, HeadIsNext DEF Owed
<1>4. Owed' = Owed \ {f}
  BY <1>2, <1>3 DEF Owed, Among
<1>5. \A x \in Owed' : Rank(f) < Rank(x)
  BY <1>3, <1>4
<1>6. script.index => /\ "samples" \in Owed' => "delete" \in Owed'
                      /\ "delete" \in Owed' => "create" \in Owed'
                      /\ "create" \in Owed' => "index" \in Owed'
  <2>1. /\ f = "delete" => "samples" \notin Owed'
        /\ f = "create" => "delete" \notin Owed'
        /\ f = "index" => "create" \notin Owed'
    BY <1>5 DEF Rank
  <2> QED
    BY <1>1, <1>4, <2>1 DEF OrderInv
<1>7. OrderInv'
  BY <1>2, <1>3, <1>6 DEF OrderInv, Ordered
<1> QED
  BY <1>2, <1>3, <1>4, <1>5, <1>7

-----------------------------------------------------------------------------
(* The invariant                                                           *)

LEMMA ImportInvInit == StyleInit => ImportInv
BY DEF StyleInit, ImportInv, OrderInv, FilesInv, HandleInv, NewIndexInv, Running, NoScript, Off

(* What a step that only touches learned answers leaves alone. *)
LEMMA FilesRest ==
  ASSUME OrderInv, FilesInv, UNCHANGED <<script, raw, manifest, pairs>>,
         {s \in samples' : s.source = "import"} = {s \in samples : s.source = "import"}
  PROVE  OrderInv' /\ FilesInv'
<1>1. Owed' = Owed /\ (Running' <=> Running)
  BY DEF Owed, Running, Among
<1>2. OrderInv'
  BY <1>1 DEF OrderInv, Ordered
<1> QED
  BY <1>1, <1>2 DEF FilesInv

LEMMA IndexRests ==
  ASSUME HandleInv, NewIndexInv, UNCHANGED <<script, collection, service>>
  PROVE  HandleInv' /\ NewIndexInv'
<1>1. Owed' = Owed /\ (Running' <=> Running)
  BY DEF Owed, Running, Among
<1>2. Whole' = Whole /\ \A p \in Process : Stale(p)' <=> Stale(p)
  BY DEF Whole, Stale
<1>3. HandleInv'
  BY DEF HandleInv
<1> QED
  BY <1>1, <1>2, <1>3 DEF NewIndexInv

LEMMA StartStep ==
  ASSUME ImportInv, NEW e \in Export, NEW overwrite \in BOOLEAN, NEW index \in BOOLEAN,
         ScriptStarts(e, overwrite, index)
  PROVE  ImportInv'
<1>1. /\ script'.todo = Steps(e, index) /\ script'.export = e /\ script'.index = index
      /\ UNCHANGED <<collection, service>>
  BY DEF ScriptStarts
<1>2. /\ script'.todo \in Seq(Step) /\ Ordered(script'.todo)
      /\ {"raw", "manifest", "samples"} \subseteq Owed'
      /\ e.kind = "ocr" => "pairs" \in Owed'
      /\ index => {"delete", "create", "index"} \subseteq Owed'
  <2>1. Owed' = Among(Steps(e, index))
    BY <1>1 DEF Owed, Among
  <2> QED
    BY <1>1, <2>1, StepsInOrder
<1>3. OrderInv'
  BY <1>1, <1>2 DEF OrderInv, Ordered
<1>4. FilesInv'
  BY <1>1, <1>2 DEF FilesInv
<1>5. HandleInv'
  BY <1>1 DEF ImportInv, HandleInv
<1>6. NewIndexInv'
  BY <1>1, <1>2 DEF NewIndexInv
<1> QED
  BY <1>3, <1>4, <1>5, <1>6 DEF ImportInv

(* A file opened is a file not yet written, and no other changes. *)
LEMMA OpenStep ==
  ASSUME ImportInv, ScriptShape, NEW f \in File, NEW n, ScriptOpens(f, n)
  PROVE  ImportInv'
<1>1. Running /\ f \in Step /\ f = Head(script.todo) /\ script.todo \in Seq(Step)
      /\ script.todo # <<>> /\ Ordered(script.todo)
  BY DEF ScriptOpens, Due, Step, ImportInv, OrderInv, Running
<1>2. f \in Owed
  BY <1>1, HeadIsNext DEF Owed
<1>3. /\ script'.todo = script.todo /\ script'.export = script.export
      /\ script'.index = script.index /\ UNCHANGED <<collection, service>>
  BY <1>1 DEF ScriptOpens, ScriptShape
<1>4. Owed' = Owed
  BY <1>3 DEF Owed, Among
<1>5. /\ f # "raw" => raw' = raw
      /\ f # "manifest" => manifest' = manifest
      /\ f # "pairs" => pairs' = pairs
      /\ f # "samples" => samples' = samples
  BY DEF ScriptOpens, Put
<1>6. OrderInv'
  BY <1>1, <1>3, <1>4 DEF ImportInv, OrderInv, Ordered
<1>7. FilesInv'
  BY <1>1, <1>2, <1>3, <1>4, <1>5 DEF ImportInv, FilesInv
<1>8. HandleInv'
  BY <1>3 DEF ImportInv, HandleInv
<1>9. NewIndexInv'
  BY <1>1, <1>3, <1>4 DEF ImportInv, NewIndexInv, Whole, Stale
<1> QED
  BY <1>6, <1>7, <1>8, <1>9 DEF ImportInv

LEMMA WriteStep ==
  ASSUME ImportInv, ScriptShape, NEW f \in File, ScriptWrites(f)
  PROVE  ImportInv'
<1> DEFINE e == script.export
<1>1. Running /\ e \in Export /\ f \in Step /\ Due(f) /\ Done /\ OrderInv
  BY DEF ScriptWrites, Due, Step, ImportInv, ScriptShape
<1>2. /\ script'.export = e /\ script'.index = script.index
      /\ f \in Owed /\ Owed' = Owed \ {f} /\ OrderInv'
  BY <1>1, DoneStep
<1>3. UNCHANGED <<collection, service>>
  BY DEF ScriptWrites
<1>4. FilesInv'
  <2>1. f = "raw" => raw' = RawRecords(e)
    BY <1>1, RecordsFit DEF ScriptWrites, Put
  <2>2. f = "pairs" => pairs' = Pairs(e)
    BY <1>1, PairsFit DEF ScriptWrites, Put
  <2>3. f = "samples" => {s \in samples' : s.source = "import"} = Result(e)
    BY <1>1, ResultsFit DEF ScriptWrites, Put
  <2>4. f = "manifest" => manifest' = FreshConsent(e)
    BY DEF ScriptWrites
  <2>5. /\ f # "raw" => raw' = raw
        /\ f # "manifest" => manifest' = manifest
        /\ f # "pairs" => pairs' = pairs
        /\ f # "samples" => samples' = samples
    BY DEF ScriptWrites, Put
  <2>6. /\ "raw" \notin Owed' => raw' = RawRecords(e)
        /\ "manifest" \notin Owed' => manifest' = FreshConsent(e)
        /\ "pairs" \notin Owed' /\ e.kind = "ocr" => pairs' = Pairs(e)
    BY <1>1, <1>2, <2>1, <2>2, <2>4, <2>5 DEF ImportInv, FilesInv
  <2>7. "samples" \notin Owed' => {s \in samples' : s.source = "import"} = Result(e)
    BY <1>1, <1>2, <2>3, <2>5 DEF ImportInv, FilesInv
  <2> QED
    BY <1>2, <2>6, <2>7 DEF FilesInv
<1>5. HandleInv'
  BY <1>3 DEF ImportInv, HandleInv
<1>6. NewIndexInv'
  <2>1. /\ "delete" \notin Owed' => "delete" \notin Owed
        /\ "create" \notin Owed' => "create" \notin Owed
        /\ "index" \notin Owed' => "index" \notin Owed
    BY <1>2 DEF File
  <2>2. Whole' = Whole /\ \A p \in Process : Stale(p)' <=> Stale(p)
    BY <1>2, <1>3 DEF Whole, Stale
  <2> QED
    BY <1>1, <1>2, <1>3, <2>1, <2>2 DEF ImportInv, NewIndexInv
<1> QED
  BY <1>2, <1>4, <1>5, <1>6 DEF ImportInv

(* A collection is opened as it is or made anew, with a number no handle   *)
(* has.                                                                    *)
LEMMA Opened ==
  ASSUME HandleInv, CollectionShape, collection' = GetOrCreate(collection)
  PROVE  /\ collection'.exists /\ collection'.number \in Nat
         /\ collection.number <= collection'.number
         /\ \/ collection.exists /\ collection' = collection
            \/ ~collection.exists /\ collection'.docs = {} /\ collection'.number = collection.number + 1
BY DEF HandleInv, CollectionShape, GetOrCreate

LEMMA IndexStep ==
  ASSUME ImportInv, StyleInv, NEW step \in {"open", "delete", "create", "index"},
         ScriptIndexes(step)
  PROVE  ImportInv'
<1> DEFINE e == script.export
<1>0. OrderInv /\ FilesInv /\ HandleInv /\ NewIndexInv /\ ScriptShape /\ CollectionShape
  BY DEF ImportInv, StyleInv
<1>1. Running /\ e \in Export /\ step \in Step /\ Due(step) /\ Done
  BY <1>0 DEF ScriptIndexes, Due, Step, ScriptShape
<1>2. /\ script'.export = e /\ script'.index = script.index
      /\ step \in Owed /\ Owed' = Owed \ {step} /\ OrderInv'
  BY <1>0, <1>1, DoneStep
<1>3. UNCHANGED <<fileVars, service>> /\ ChangesCollection(step)
  BY DEF ScriptIndexes
<1>4. FilesInv'
  BY <1>0, <1>1, <1>2, <1>3 DEF FilesInv, fileVars
<1>5. Whole' = Whole /\ Whole = ToIndex(Result(e))
  BY <1>2 DEF Whole
<1>6. CASE step \in {"open", "create"}
  <2>1. collection' = GetOrCreate(collection)
    BY <1>3, <1>6 DEF ChangesCollection
  <2>2. /\ collection'.exists /\ collection'.number \in Nat
        /\ collection.number <= collection'.number
        /\ \/ collection.exists /\ collection' = collection
           \/ /\ ~collection.exists /\ collection'.docs = {}
              /\ collection'.number = collection.number + 1
    BY <1>0, <2>1, Opened
  <2>3. HandleInv'
    BY <1>0, <1>3, <2>2 DEF HandleInv
  <2>4. /\ "delete" \notin Owed' => "delete" \notin Owed
        /\ "index" \notin Owed' => "index" \notin Owed
    BY <1>2, <1>6
  <2>5. NewIndexInv'
    <3>1. CASE collection.exists /\ collection' = collection
      <4>1. \A p \in Process : Stale(p)' <=> Stale(p)
        BY <1>3, <3>1 DEF Stale
      <4> QED
        BY <1>0, <1>1, <1>2, <1>3, <1>5, <2>2, <2>4, <3>1, <4>1 DEF NewIndexInv
    <3>2. CASE /\ ~collection.exists /\ collection'.docs = {}
               /\ collection'.number = collection.number + 1
      <4>1. \A p \in Process : service'[p].handle # collection'.number
        BY <1>0, <1>3, <3>2 DEF HandleInv
      <4>2. script.index /\ "delete" \notin Owed => "create" \in Owed /\ "index" \in Owed
        BY <1>0, <1>1, <3>2 DEF NewIndexInv, OrderInv
      <4>3. script.index /\ "delete" \notin Owed => "index" \in Owed'
        BY <1>2, <1>6, <4>2
      <4> QED
        BY <1>2, <2>2, <2>4, <3>2, <4>1, <4>3 DEF NewIndexInv, Stale
    <3> QED
      BY <2>2, <3>1, <3>2
  <2> QED
    BY <1>2, <1>4, <2>3, <2>5 DEF ImportInv
<1>7. CASE step = "delete"
  <2>1. collection'.docs = {} /\ ~collection'.exists /\ collection'.number = collection.number
    BY <1>0, <1>3, <1>7 DEF ChangesCollection, CollectionShape
  <2>2. HandleInv'
    BY <1>0, <1>3, <2>1 DEF HandleInv
  <2>3. script.index => "create" \in Owed' /\ "index" \in Owed'
    BY <1>0, <1>1, <1>2, <1>7 DEF OrderInv
  <2>4. NewIndexInv'
    BY <1>2, <2>1, <2>3 DEF NewIndexInv, Stale
  <2> QED
    BY <1>2, <1>4, <2>2, <2>4 DEF ImportInv
<1>8. CASE step = "index"
  <2>1. /\ collection'.docs = Upserted(collection.docs, ToIndex(Result(e)))
        /\ collection'.exists = collection.exists /\ collection'.number = collection.number
    BY <1>0, <1>3, <1>8 DEF ChangesCollection, CollectionShape
  <2>2. HandleInv'
    BY <1>0, <1>3, <2>1 DEF HandleInv
  <2>3. script.index /\ "delete" \notin Owed =>
          /\ collection'.docs = Whole
          /\ "create" \notin Owed => collection.exists
    BY <1>0, <1>1, <1>5, <2>1, UpsertOfWhole DEF NewIndexInv
  <2>4. \A p \in Process : Stale(p)' <=> Stale(p)
    BY <1>3, <2>1 DEF Stale
  <2>5. NewIndexInv'
    BY <1>0, <1>1, <1>2, <1>3, <1>5, <1>8, <2>1, <2>3, <2>4 DEF NewIndexInv
  <2> QED
    BY <1>2, <1>4, <2>2, <2>5 DEF ImportInv
<1> QED
  BY <1>6, <1>7, <1>8

LEMMA ServiceOf ==
  ASSUME ServiceShape, NEW p \in Process, NEW v, service' = [service EXCEPT ![p] = v]
  PROVE  service'[p] = v /\ \A q \in Process : q # p => service'[q] = service[q]
BY DEF ServiceShape

LEMMA OpensStep ==
  ASSUME ImportInv, StyleInv, NEW p \in Process, StoreOpens(p)
  PROVE  ImportInv'
<1>0. /\ OrderInv /\ FilesInv /\ HandleInv /\ NewIndexInv
      /\ ScriptShape /\ CollectionShape /\ ServiceShape
  BY DEF ImportInv, StyleInv
<1>1. UNCHANGED <<fileVars, script>> /\ collection' = GetOrCreate(collection)
  BY DEF StoreOpens
<1>2. /\ service'[p].at = "opened" /\ service'[p].handle = collection'.number
      /\ \A q \in Process : q # p => service'[q] = service[q]
  <2>1. PICK v : /\ v = [at |-> "opened", handle |-> collection'.number,
                         loaded |-> {}, pairs |-> {}]
                 /\ service' = [service EXCEPT ![p] = v]
    BY DEF StoreOpens
  <2>2. service'[p] = v /\ \A q \in Process : q # p => service'[q] = service[q]
    BY <1>0, <2>1, ServiceOf
  <2> QED
    BY <2>1, <2>2
<1>3. OrderInv' /\ FilesInv'
  BY <1>0, <1>1, FilesRest DEF fileVars
<1>4. /\ collection'.exists /\ collection'.number \in Nat
      /\ collection.number <= collection'.number
      /\ \/ collection.exists /\ collection' = collection
         \/ /\ ~collection.exists /\ collection'.docs = {}
            /\ collection'.number = collection.number + 1
  BY <1>0, <1>1, Opened
<1>5. HandleInv'
  BY <1>0, <1>2, <1>4 DEF HandleInv
<1>6. Owed' = Owed /\ Whole' = Whole /\ (Running' <=> Running)
  BY <1>1 DEF Owed, Whole, Running, Among
<1>7. NewIndexInv'
  <2>1. CASE collection.exists /\ collection' = collection
    <3>1. \A q \in Process : service'[q].at = "loaded" =>
             service'[q] = service[q] /\ (Stale(q)' <=> Stale(q))
      BY <1>2, <2>1 DEF Stale
    <3> QED
      BY <1>0, <1>1, <1>4, <1>6, <2>1, <3>1 DEF NewIndexInv
  <2>2. CASE /\ ~collection.exists /\ collection'.docs = {}
             /\ collection'.number = collection.number + 1
    <3>1. \A q \in Process : service'[q].at = "loaded" => service'[q].handle # collection'.number
      BY <1>0, <1>2, <2>2 DEF HandleInv
    <3>2. Running /\ script.index /\ "delete" \notin Owed => "index" \in Owed
      BY <1>0, <2>2 DEF NewIndexInv, OrderInv
    <3> QED
      BY <1>1, <1>4, <1>6, <2>2, <3>1, <3>2 DEF NewIndexInv, Stale
  <2> QED
    BY <1>4, <2>1, <2>2
<1> QED
  BY <1>3, <1>5, <1>7 DEF ImportInv

LEMMA LoadsStep ==
  ASSUME ImportInv, StyleInv, NEW p \in Process, StoreLoads(p)
  PROVE  ImportInv'
<1>0. /\ OrderInv /\ FilesInv /\ HandleInv /\ NewIndexInv
      /\ ScriptShape /\ FileSound /\ ServiceShape
  BY DEF ImportInv, StyleInv
<1>1. UNCHANGED <<fileVars, script, collection>>
  BY DEF StoreLoads
<1>2. /\ service'[p].handle = service[p].handle /\ service'[p].loaded = samples
      /\ \A q \in Process : q # p => service'[q] = service[q]
  <2>1. PICK v : /\ v = [at |-> "loaded", handle |-> service[p].handle,
                         loaded |-> samples, pairs |-> {}]
                 /\ service' = [service EXCEPT ![p] = v]
    BY <1>0 DEF StoreLoads, ServiceShape
  <2>2. service'[p] = v /\ \A q \in Process : q # p => service'[q] = service[q]
    BY <1>0, <2>1, ServiceOf
  <2> QED
    BY <2>1, <2>2
<1>3. OrderInv' /\ FilesInv'
  BY <1>0, <1>1, FilesRest DEF fileVars
<1>4. HandleInv'
  BY <1>0, <1>1, <1>2 DEF HandleInv
<1>5. Owed' = Owed /\ Whole' = Whole /\ (Running' <=> Running)
  BY <1>1 DEF Owed, Whole, Running, Among
<1>6. Running /\ script.index /\ "delete" \notin Owed => ToIndex(samples) = Whole
  BY <1>0, IndexOfFile DEF OrderInv, FilesInv, FileSound, ScriptShape, Whole
<1>7. NewIndexInv'
  <2>1. \A q \in Process : Stale(q)' <=> Stale(q)
    BY <1>1, <1>2 DEF Stale
  <2> QED
    BY <1>0, <1>1, <1>2, <1>5, <1>6, <2>1 DEF NewIndexInv
<1> QED
  BY <1>3, <1>4, <1>7 DEF ImportInv

LEMMA IndexesStep ==
  ASSUME ImportInv, StyleInv, NEW p \in Process, StoreIndexes(p)
  PROVE  ImportInv'
<1>0. /\ OrderInv /\ FilesInv /\ HandleInv /\ NewIndexInv
      /\ ScriptShape /\ CollectionShape /\ ServiceShape
  BY DEF ImportInv, StyleInv
<1> DEFINE L == ToIndex(service[p].loaded)
<1>1. UNCHANGED <<fileVars, script>> /\ service[p].at = "loaded"
  BY DEF StoreIndexes
<1>2. /\ service'[p].handle = service[p].handle /\ service'[p].at = "up"
      /\ \A q \in Process : q # p => service'[q] = service[q]
  <2>1. PICK v : /\ v = [at |-> "up", handle |-> service[p].handle,
                         loaded |-> service[p].loaded, pairs |-> pairs]
                 /\ service' = [service EXCEPT ![p] = v]
    BY <1>0 DEF StoreIndexes, ServiceShape
  <2>2. service'[p] = v /\ \A q \in Process : q # p => service'[q] = service[q]
    BY <1>0, <2>1, ServiceOf
  <2> QED
    BY <2>1, <2>2
<1>3. OrderInv' /\ FilesInv'
  BY <1>0, <1>1, FilesRest DEF fileVars
<1>4. /\ collection'.exists = collection.exists /\ collection'.number = collection.number
      /\ \/ collection'.docs = collection.docs
         \/ ~Stale(p) /\ collection'.docs = Upserted(collection.docs, L)
  BY <1>0 DEF StoreIndexes, CollectionShape
<1>5. HandleInv'
  BY <1>0, <1>2, <1>4 DEF HandleInv
<1>6. Owed' = Owed /\ Whole' = Whole /\ (Running' <=> Running)
  BY <1>1 DEF Owed, Whole, Running, Among
<1>7. ASSUME Running, script.index, "delete" \notin Owed
      PROVE  collection.docs \subseteq collection'.docs /\ collection'.docs \subseteq Whole
  <2>1. collection.docs \subseteq Whole /\ (~Stale(p) => L \subseteq Whole)
    BY <1>0, <1>1, <1>7 DEF NewIndexInv
  <2>2. ~Stale(p) => Upserted(collection.docs, L) = collection.docs \cup L
    BY <1>0, <1>7, <2>1, UpsertOfWhole DEF Whole, ScriptShape
  <2> QED
    BY <1>4, <2>1, <2>2
<1>8. NewIndexInv'
  <2>1. \A q \in Process : Stale(q)' <=> Stale(q)
    BY <1>2, <1>4 DEF Stale
  <2>2. \A q \in Process : service'[q].at = "loaded" => service'[q] = service[q]
    BY <1>2
  <2> QED
    BY <1>0, <1>1, <1>4, <1>6, <1>7, <2>1, <2>2 DEF NewIndexInv
<1> QED
  BY <1>3, <1>5, <1>8 DEF ImportInv

LEMMA StopsStep ==
  ASSUME ImportInv, StyleInv, NEW p \in Process, StoreStops(p)
  PROVE  ImportInv'
<1>0. OrderInv /\ FilesInv /\ HandleInv /\ NewIndexInv /\ ServiceShape
  BY DEF ImportInv, StyleInv
<1>1. UNCHANGED <<fileVars, script, collection>>
  BY DEF StoreStops
<1>2. /\ service'[p].handle = 0 /\ service'[p].at = "off"
      /\ \A q \in Process : q # p => service'[q] = service[q]
  <2>1. PICK v : v = Off /\ service' = [service EXCEPT ![p] = v]
    BY DEF StoreStops
  <2>2. service'[p] = v /\ \A q \in Process : q # p => service'[q] = service[q]
    BY <1>0, <2>1, ServiceOf
  <2> QED
    BY <2>1, <2>2 DEF Off
<1>3. OrderInv' /\ FilesInv'
  BY <1>0, <1>1, FilesRest DEF fileVars
<1>4. HandleInv'
  BY <1>0, <1>1, <1>2 DEF HandleInv
<1>5. Owed' = Owed /\ Whole' = Whole /\ (Running' <=> Running)
  BY <1>1 DEF Owed, Whole, Running, Among
<1>6. NewIndexInv'
  <2>1. \A q \in Process : service'[q].at = "loaded" =>
           service'[q] = service[q] /\ (Stale(q)' <=> Stale(q))
    BY <1>1, <1>2 DEF Stale
  <2> QED
    BY <1>0, <1>1, <1>5, <2>1 DEF NewIndexInv
<1> QED
  BY <1>3, <1>4, <1>6 DEF ImportInv

-----------------------------------------------------------------------------
LEMMA ImportInvStep == ImportInv /\ StyleInv /\ [StyleNext]_styleVars => ImportInv'
<1> SUFFICES ASSUME ImportInv, StyleInv, [StyleNext]_styleVars PROVE ImportInv'
  OBVIOUS
<1>0. OrderInv /\ FilesInv /\ HandleInv /\ NewIndexInv /\ ScriptShape
  BY DEF ImportInv, StyleInv
<1>1. ASSUME UNCHANGED <<script, raw, manifest, pairs, collection, service>>,
             {s \in samples' : s.source = "import"} = {s \in samples : s.source = "import"}
      PROVE  ImportInv'
  BY <1>0, <1>1, FilesRest, IndexRests DEF ImportInv
<1>2. ASSUME UNCHANGED <<collection, service>>, ~Running'
      PROVE  ImportInv'
  BY <1>0, <1>2 DEF ImportInv, OrderInv, FilesInv, HandleInv, NewIndexInv
<1>3. CASE UNCHANGED styleVars \/ Elsewhere
  BY <1>1, <1>3 DEF styleVars, fileVars, Elsewhere
<1>4. CASE ScriptNext
  <2>1. ASSUME ScriptEnds
        PROVE  ImportInv'
    BY <1>2, <2>1 DEF ScriptEnds, NoScript, Running
  <2> QED
    BY <1>0, <1>4, <2>1, StartStep, OpenStep, WriteStep, IndexStep DEF ScriptNext
<1>5. CASE OperatorNext
  BY <1>2, <1>5 DEF OperatorNext, EditConsent, Reimport, Running
<1>6. ASSUME NEW p \in Process, StoreNext(p)
      PROVE  ImportInv'
  <2>1. ASSUME NEW persona \in Persona, Retrieve(p, persona)
        PROVE  ImportInv'
    BY <1>1, <2>1 DEF Retrieve, fileVars
  <2>2. ASSUME NEW n \in Reply, NEW persona \in Persona, NEW t \in Answer, Learn(p, n, persona, t)
        PROVE  ImportInv'
    BY <1>1, <2>2 DEF Learn, Learned
  <2> QED
    BY <1>6, <2>1, <2>2, OpensStep, LoadsStep, IndexesStep, StopsStep DEF StoreNext
<1> QED
  BY <1>3, <1>4, <1>5, <1>6 DEF StyleNext

(* When success is due nothing else is owed. *)
LEMMA ImportInvSuffices == ImportInv /\ StyleInv => ImportIsWhole
<1> SUFFICES ASSUME ImportInv, StyleInv, Due("success") PROVE ImportIsWhole
  BY DEF ImportIsWhole
<1>1. /\ Running /\ Head(script.todo) = "success" /\ script.todo \in Seq(Step)
      /\ script.todo # <<>> /\ Ordered(script.todo)
  BY DEF Due, Running, ImportInv, OrderInv
<1>2. \A x \in Owed : x = "success" \/ Rank("success") < Rank(x)
  BY <1>1, HeadIsNext DEF Owed
<1>3. \A x \in {"raw", "manifest", "pairs", "samples", "delete", "index"} : x \notin Owed
  BY <1>2 DEF Rank
<1>4. {s \in samples : s.source = "import"} = Result(script.export)
  BY <1>1, <1>3 DEF ImportInv, FilesInv
<1>5. script.index => collection.docs = ToIndex(samples)
  <2>1. script.index => collection.docs = Whole
    BY <1>1, <1>3 DEF ImportInv, NewIndexInv
  <2>2. ToIndex(samples) = Whole
    BY <1>1, <1>4, IndexOfFile DEF StyleInv, ScriptShape, FileSound, Whole
  <2> QED
    BY <2>1, <2>2
<1> QED
  BY <1>1, <1>3, <1>4, <1>5 DEF ImportInv, FilesInv, ImportIsWhole

(* Of the dataset alone: whatever processes start, index, learn and stop   *)
(* between the writes of a script (import_wechat_style.py and              *)
(* build_wechat_style_from_ocr.py, main), what it reports done is whole.   *)
THEOREM DatasetIsWhole == StyleSpec => []ImportIsWhole
<1>1. StyleSpec => [](StyleInv /\ ImportInv)
  BY StyleInvInit, StyleInvStep, ImportInvInit, ImportInvStep, PTL DEF StyleSpec
<1> QED
  BY <1>1, ImportInvSuffices, PTL

(* An evaluation that runs beside the script changes nothing of that       *)
(* (eval/runner.py, _build_real_eval_runtime).                             *)
THEOREM AlwaysWhole == Spec => []ImportIsWhole
BY EvalIsOneMoreProcess, DatasetIsWhole

-----------------------------------------------------------------------------
(* The types of the dataset                                                *)
RawRecord == [at : Nat, consent : Consent, persona : Persona, text : Written]

DatasetTypes ==
  /\ files \subseteq File
  /\ raw \subseteq RawRecord
  /\ manifest \in Manifest \cup {Unreadable}
  /\ samples \subseteq Sample
  /\ collection.exists \in BOOLEAN /\ collection.docs \subseteq Sample
  /\ \A p \in Process : /\ service[p].at \in {"off", "opened", "loaded", "up"}
                        /\ service[p].loaded \subseteq Sample

LEMMA TextIsWritten ==
  ASSUME NEW t \in Text
  PROVE  AsSaid(t) \in Written
BY DEF AsSaid, Written

LEMMA RecordsTyped ==
  ASSUME NEW e \in Export
  PROVE  RawRecords(e) \subseteq RawRecord
<1> SUFFICES ASSUME NEW x \in RawRecords(e) PROVE x \in RawRecord
  OBVIOUS
<1>1. PICK i \in Targets(e) :
        x = [at |-> Place(Targets(e), i), consent |-> e.consent, persona |-> e.persona,
             text |-> AsSaid(e.lines[i].text)]
  BY DEF RawRecords
<1>2. e.consent \in Consent /\ e.persona \in Persona
      /\ e.lines \in Seq(Line)
  BY ExportAssumption
<1>3. i \in 1..Len(e.lines) /\ Len(e.lines) \in Nat /\ Place(Targets(e), i) \in Nat
  BY ExportLines, PlaceBounded
<1>4. e.lines[i].text \in Text
  <2>1. e.lines[i] \in Line
    BY <1>2, <1>3, ElementOfSeq
  <2> QED BY <2>1 DEF Line
<1> QED
  BY <1>1, <1>2, <1>3, <1>4, TextIsWritten DEF RawRecord

LEMMA ImportedTyped ==
  ASSUME NEW R, R \subseteq RawRecord, NEW m, m.revoked \in BOOLEAN
  PROVE  Imported(R, m) \subseteq Sample
<1> SUFFICES ASSUME NEW x \in Imported(R, m) PROVE x \in Sample
  OBVIOUS
<1>1. PICK r \in R :
        x = [at |-> r.at, consent |-> r.consent, persona |-> r.persona,
             text |-> Redacted(r.text), source |-> "import",
             usage |-> "style_simulation", active |-> ~m.revoked]
  BY DEF Imported
<1>2. r.at \in Nat /\ r.consent \in Consent /\ r.persona \in Persona /\ Redacted(r.text) \in Written
  BY DEF RawRecord, Redacted, Written
<1> QED
  BY <1>1, <1>2 DEF Sample

LEMMA ResultTyped ==
  ASSUME NEW e \in Export
  PROVE  Result(e) \subseteq Sample
<1>1. FreshConsent(e).revoked \in BOOLEAN BY DEF FreshConsent
<1> QED BY <1>1, RecordsTyped, ImportedTyped DEF Result

LEMMA DatasetTypesInit == StyleInit => DatasetTypes
BY DEF StyleInit, DatasetTypes, Off

(* A service that changes into one of the right type. *)
LEMMA ServiceTyped ==
  ASSUME ServiceShape, DatasetTypes, NEW p \in Process,
         NEW a \in {"off", "opened", "loaded", "up"}, NEW h, NEW L \in SUBSET Sample, NEW P,
         service' = [service EXCEPT ![p] = [at |-> a, handle |-> h, loaded |-> L, pairs |-> P]]
  PROVE  \A q \in Process : /\ service'[q].at \in {"off", "opened", "loaded", "up"}
                            /\ service'[q].loaded \subseteq Sample
<1>1. service' = [q \in Process |-> IF q = p THEN [at |-> a, handle |-> h, loaded |-> L, pairs |-> P]
                                             ELSE service[q]]
  BY DEF ServiceShape
<1> QED
  BY <1>1 DEF DatasetTypes

LEMMA CollectionTyped ==
  ASSUME CollectionShape, DatasetTypes, NEW S \in SUBSET Sample,
         \/ collection' = GetOrCreate(collection)
         \/ collection' = [collection EXCEPT !.exists = FALSE, !.docs = {}]
         \/ collection' = [collection EXCEPT !.docs = Upserted(@, S)]
         \/ UNCHANGED collection
  PROVE  collection'.exists \in BOOLEAN /\ collection'.docs \subseteq Sample
<1>1. \/ collection' = GetOrCreate(collection)
      \/ collection'.exists = FALSE /\ collection'.docs = {}
      \/ collection'.exists = collection.exists /\ collection'.docs = Upserted(collection.docs, S)
      \/ UNCHANGED collection
  BY DEF CollectionShape
<1>2. GetOrCreate(collection).exists \in BOOLEAN /\ GetOrCreate(collection).docs \subseteq Sample
  BY DEF DatasetTypes, GetOrCreate
<1>3. Upserted(collection.docs, S) \subseteq Sample
  BY DEF DatasetTypes, Upserted
<1> QED
  BY <1>1, <1>2, <1>3 DEF DatasetTypes

LEMMA ScriptTypes ==
  ASSUME StyleInv, DatasetTypes, ScriptNext
  PROVE  DatasetTypes'
<1> USE DEF DatasetTypes
<1>1. ASSUME (\E e, overwrite, index : ScriptStarts(e, overwrite, index)) \/ ScriptEnds
      PROVE  DatasetTypes'
  BY <1>1 DEF ScriptStarts, ScriptEnds, fileVars
<1>2. ASSUME NEW f \in File, NEW n, ScriptOpens(f, n) \/ ScriptWrites(f)
      PROVE  DatasetTypes'
  <2>1. script.export \in Export
    BY <1>2 DEF ScriptOpens, ScriptWrites, Due, StyleInv, ScriptShape
  <2>2. files' = files \cup {f} /\ raw' \subseteq RawRecord /\ samples' \subseteq Sample
    BY <1>2, <2>1, RecordsTyped, ResultTyped DEF ScriptOpens, ScriptWrites, Put
  <2>3. manifest' \in Manifest \cup {Unreadable}
    <3>1. FreshConsent(script.export) \in Manifest
      BY <2>1, ExportAssumption DEF FreshConsent, Manifest, Usage
    <3> QED BY <1>2, <3>1 DEF ScriptOpens, ScriptWrites
  <2>4. UNCHANGED <<collection, service>>
    BY <1>2 DEF ScriptOpens, ScriptWrites
  <2> QED BY <2>2, <2>3, <2>4
<1>3. ASSUME NEW step, ScriptIndexes(step)
      PROVE  DatasetTypes'
  <2>1. ToIndex(Result(script.export)) \subseteq Sample
    BY <1>3, ResultTyped DEF ScriptIndexes, Due, StyleInv, ScriptShape, ToIndex
  <2>2. collection'.exists \in BOOLEAN /\ collection'.docs \subseteq Sample
    <3> HIDE DEF DatasetTypes
    <3> QED BY <1>3, <2>1, CollectionTyped DEF ScriptIndexes, ChangesCollection, StyleInv
  <2> QED BY <1>3, <2>2 DEF ScriptIndexes, fileVars
<1> QED
  BY <1>1, <1>2, <1>3 DEF ScriptNext

LEMMA OperatorTypes ==
  ASSUME DatasetTypes, OperatorNext
  PROVE  DatasetTypes'
<1>1. manifest \in Manifest
  BY DEF OperatorNext, EditConsent, Reimport, DatasetTypes
<1>2. ASSUME NEW usage \in Usage, NEW revoked \in BOOLEAN, EditConsent(usage, revoked)
      PROVE  DatasetTypes'
  <2>1. manifest' \in Manifest
    BY <1>1, <1>2 DEF EditConsent, Manifest
  <2> QED BY <1>2, <2>1 DEF EditConsent, DatasetTypes
<1>3. ASSUME Reimport
      PROVE  DatasetTypes'
  <2>1. samples' \subseteq Sample
    BY <1>1, <1>3, ImportedTyped DEF Reimport, Manifest, DatasetTypes
  <2> QED BY <1>3, <2>1 DEF Reimport, DatasetTypes, File
<1> QED
  BY <1>2, <1>3 DEF OperatorNext

LEMMA StoreTypes ==
  ASSUME StyleInv, DatasetTypes, NEW p \in Process, StoreNext(p)
  PROVE  DatasetTypes'
<1>1. ASSUME StoreOpens(p)
      PROVE  DatasetTypes'
  <2>1. collection'.exists \in BOOLEAN /\ collection'.docs \subseteq Sample
    BY <1>1, CollectionTyped DEF StoreOpens, StyleInv
  <2>2. \A q \in Process : /\ service'[q].at \in {"off", "opened", "loaded", "up"}
                           /\ service'[q].loaded \subseteq Sample
    <3>1. PICK h, L : L = {} /\ service' = [service EXCEPT ![p] = [at |-> "opened", handle |-> h,
                                                                    loaded |-> L, pairs |-> L]]
      BY <1>1 DEF StoreOpens
    <3> QED BY <3>1, ServiceTyped DEF StyleInv
  <2> QED BY <1>1, <2>1, <2>2 DEF StoreOpens, fileVars, DatasetTypes
<1>2. ASSUME StoreLoads(p)
      PROVE  DatasetTypes'
  <2>1. service' = [service EXCEPT ![p] = [at |-> "loaded", handle |-> service[p].handle,
                                           loaded |-> samples, pairs |-> {}]]
    BY <1>2 DEF StoreLoads, StyleInv, ServiceShape
  <2>2. samples \in SUBSET Sample BY DEF DatasetTypes
  <2>3. \A q \in Process : /\ service'[q].at \in {"off", "opened", "loaded", "up"}
                           /\ service'[q].loaded \subseteq Sample
    BY <2>1, <2>2, ServiceTyped DEF StyleInv
  <2> QED BY <1>2, <2>3 DEF StoreLoads, fileVars, DatasetTypes
<1>3. ASSUME StoreIndexes(p)
      PROVE  DatasetTypes'
  <2>1. service[p].loaded \in SUBSET Sample /\ ToIndex(service[p].loaded) \in SUBSET Sample
    BY DEF DatasetTypes, ToIndex
  <2>2. service' = [service EXCEPT ![p] = [at |-> "up", handle |-> service[p].handle,
                                           loaded |-> service[p].loaded, pairs |-> pairs]]
    BY <1>3 DEF StoreIndexes, StyleInv, ServiceShape
  <2>3. \A q \in Process : /\ service'[q].at \in {"off", "opened", "loaded", "up"}
                           /\ service'[q].loaded \subseteq Sample
    BY <2>1, <2>2, ServiceTyped DEF StyleInv
  <2>4. collection'.exists \in BOOLEAN /\ collection'.docs \subseteq Sample
    BY <1>3, <2>1, CollectionTyped DEF StoreIndexes, StyleInv
  <2> QED BY <1>3, <2>3, <2>4 DEF StoreIndexes, fileVars, DatasetTypes
<1>4. ASSUME StoreStops(p)
      PROVE  DatasetTypes'
  BY <1>4 DEF StoreStops, Off, fileVars, DatasetTypes, StyleInv, ServiceShape
<1>5. ASSUME NEW persona \in Persona, Retrieve(p, persona)
      PROVE  DatasetTypes'
  BY <1>5 DEF Retrieve, fileVars, DatasetTypes
<1>6. ASSUME NEW n \in Reply, NEW persona \in Persona, NEW t \in Answer, Learn(p, n, persona, t)
      PROVE  DatasetTypes'
  <2>1. n \in Nat /\ t \in Text BY ReplyAssumption
  <2>2. Learned(n, persona, t) \in Sample
    <3>1. Redacted(AsSaid(t)) \in Written BY <2>1 DEF Redacted, AsSaid, Written
    <3> QED BY <2>1, <3>1 DEF Learned, Sample
  <2> QED BY <1>6, <2>2 DEF Learn, DatasetTypes, File
<1> QED
  BY <1>1, <1>2, <1>3, <1>4, <1>5, <1>6 DEF StoreNext

LEMMA DatasetTypesStep == StyleInv /\ DatasetTypes /\ [StyleNext]_styleVars => DatasetTypes'
<1> SUFFICES ASSUME StyleInv, DatasetTypes, [StyleNext]_styleVars PROVE DatasetTypes'
  OBVIOUS
<1>1. ASSUME Elsewhere \/ UNCHANGED styleVars
      PROVE  DatasetTypes'
  BY <1>1 DEF DatasetTypes, Elsewhere, styleVars, fileVars
<1> QED
  BY <1>1, ScriptTypes, OperatorTypes, StoreTypes DEF StyleNext

(* Type correctness of the dataset and the evaluation: a sample in the     *)
(* file, in a process and in the index is one of an import or a learned    *)
(* answer, and the results are rows of cases.                              *)
THEOREM OfflineTypeOK == Spec => []TypeOK
<1>1. StyleSpec => [](StyleInv /\ ImportInv /\ DatasetTypes)
  BY StyleInvInit, StyleInvStep, ImportInvInit, ImportInvStep, DatasetTypesInit, DatasetTypesStep,
     PTL DEF StyleSpec
<1>2. Spec => []EvalInv
  BY EvalInvInit, EvalInvStep, PTL DEF Spec
<1>3. StyleInv /\ ImportInv /\ DatasetTypes /\ EvalInv => TypeOK
  <2> SUFFICES ASSUME StyleInv, ImportInv, DatasetTypes, EvalInv PROVE TypeOK
    OBVIOUS
  <2>1. \A x \in raw : x.at \in Nat /\ x.consent \in Consent /\ x.text \in Written
    BY DEF DatasetTypes, RawRecord
  <2>2. Running => script.export \in Export
    BY DEF StyleInv, ScriptShape
  <2>3. collection.number \in Nat
    BY DEF ImportInv, HandleInv
  <2>4. \A i \in DOMAIN results : IsRow(results[i])
    <3>1. \A i \in DOMAIN results : results[i] \in Row
      BY LenProperties, ElementOfSeq DEF EvalInv, OneEach
    <3> QED BY <3>1 DEF Row, IsRow
  <2>5. verdict \in [Range(Case) -> {"unseen", "running", "passed", "failed", "raised"}]
    BY DEF EvalInv, Verdict
  <2> QED BY <2>1, <2>2, <2>3, <2>4, <2>5 DEF DatasetTypes, TypeOK
<1> QED
  BY <1>1, <1>2, <1>3, EvalIsOneMoreProcess, PTL
=============================================================================
