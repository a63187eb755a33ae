------------------------------ MODULE MCOffline ------------------------------
EXTENDS OfflineProps, TLC

Says(role, text) == [role |-> role, text |-> text, dated |-> "in"]
Late(line)    == [line EXCEPT !.dated = "out"]
Undated(line) == [line EXCEPT !.dated = "none"]

(* Three exports of one person: screenshots, with a repeated line and a    *)
(* phone number; copied text, in which a line is spoilt by redaction and   *)
(* one names nobody, so that the ids of the samples of the two overlap and *)
(* their texts differ; and copied text of two people that is imported      *)
(* without a speaker's name.                                               *)
Screenshots ==
  [kind |-> "ocr", filtered |-> TRUE, consent |-> "c", persona |-> "p",
   lines |-> <<Says("self", "hello"), Says("target", "yes"), Says("target", "yes"),
               Undated(Says("target", "call 138"))>>]
Copied ==
  [kind |-> "text", filtered |-> TRUE, consent |-> "c", persona |-> "p",
   lines |-> <<Says("target", "12:30"), Says("target", "tel 138"), Late(Says("target", "no")),
               Says("other", "hello"), Says("target", "call 138"),
               Undated(Says("unnamed", "haha"))>>]
Everybodys ==
  [kind |-> "text", filtered |-> FALSE, consent |-> "c", persona |-> "p",
   lines |-> <<Says("other", "no"), Late(Says("target", "hello")), Says("target", "call 138")>>]

MCText == {"hello", "yes", "no", "haha", "call 138", "tel 138", "12:30"}
MCExport == {Screenshots, Copied, Everybodys}
MCCase == <<"style", "plain">>

(* Bound: the first evaluation runs beside the last steps of an import of  *)
(* the screenshots, those on the collection, or after it; the second one   *)
(* when no script runs, with nothing learned; both with the service down   *)
(* and the consent as the script wrote it.  The rest of the style dataset  *)
(* is explored before the first evaluation.                                *)
EvalScope ==
  evals > 0 =>
    /\ imports = 1 /\ files = File
    /\ Running => script.export = Screenshots /\ Head(script.todo) \notin File
    /\ evals > 1 => ~Running /\ samples = Result(Screenshots)
    /\ service["service"] = Off
    /\ manifest = FreshConsent(Screenshots) /\ raw = RawRecords(Screenshots)

(* Bound: the export of everybody's lines is imported after another one;   *)
(* a service that starts then brings it into the index, and neither is the *)
(* consent edited then nor is there anything learned.                      *)
ExportScope ==
  /\ Running /\ script.export = Everybodys => imports > 1 /\ ~script.index
  /\ raw = RawRecords(Everybodys) =>
       /\ manifest \in {FreshConsent(Everybodys), Unreadable}
       /\ \A x \in samples : x.source = "import"
=============================================================================
