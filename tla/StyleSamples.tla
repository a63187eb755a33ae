---------------------------- MODULE StyleSamples ----------------------------
(***************************************************************************)
(* From the export of a chat to style samples: what the two import scripts *)
(* (scripts/data/import_wechat_style.py, build_wechat_style_from_ocr.py)   *)
(* keep of an export, what the importer makes of it                        *)
(* (agent_service/governance), and what the style index accepts            *)
(* (agent_service/style).                                                  *)
(*                                                                         *)
(* A text is told from another by what is said, by whether it is style at  *)
(* all, and by whether personal data are in it.  A file of records is the  *)
(* set of them, each with its place; the lines a torn file still has are   *)
(* those up to some place.                                                 *)
(***************************************************************************)
EXTENDS Naturals, Sequences, FiniteSets

CONSTANTS
  Text,     \* what may be said
  Noise,    \* texts that are no style: dates, amounts, code, placeholders
  Private,  \* texts with an address, a phone or an id number in them
  Spoilt,   \* those of Private that read as code once it is blotted out
  Persona,  \* style personas
  Consent,  \* ids of consents
  Export,   \* exported chats, each with the arguments it is imported with
  Reply,    \* messages of a friend whose answers are learned from
  Answer    \* texts the agent answers with

(* Style simulation: allowed and not forbidden, or not. *)
Usage == {"allowed", "refused"}

(* A line: whose name it carries, the person asked for's, the operator's,  *)
(* somebody else's or none that is recognised; what it says; and whether   *)
(* it is dated, in the range asked for or out of it.                       *)
Line == [role : {"self", "target", "other", "unnamed"}, text : Text, dated : {"in", "out", "none"}]

ASSUME TextAssumption == Noise \subseteq Text /\ Private \subseteq Text /\ Spoilt \subseteq Private
ASSUME ExportAssumption ==
  \A e \in Export :
    /\ e.kind \in {"text", "ocr"} /\ e.persona \in Persona /\ e.consent \in Consent
    /\ e.filtered \in BOOLEAN
    /\ e.lines \in Seq(Line)
ASSUME ReplyAssumption == Reply \subseteq Nat /\ Answer \subseteq Text

-----------------------------------------------------------------------------
(* A text as a file has it: clean when there are no personal data in it. *)
Written == [of : Text, clean : BOOLEAN]
AsSaid(t) == [of |-> t, clean |-> t \notin Private]

(* PiiRedactor.redact *)
Redacted(w) == [of |-> w.of, clean |-> TRUE]

(* is_learnable_style_text *)
Learnable(w) == w.of \notin Noise /\ ~(w.clean /\ w.of \in Spoilt)

-----------------------------------------------------------------------------
(* --speaker-name of the script for copied text is optional.  Without it   *)
(* the lines of everybody pass; with it, those that name somebody else do  *)
(* not, and a line in which no speaker is recognised does.                 *)
SpeakerPasses(e, i) == ~e.filtered \/ e.lines[i].role \in {"target", "unnamed"}

(* Lines of an export that become messages: not dated out of the range,    *)
(* where a line without a date is taken to be in it, and style as they     *)
(* stand.  Of copied text those the speaker passes; of OCR lines all, each *)
(* said once.                                                              *)
Kept(e) ==
  LET style == {i \in DOMAIN e.lines :
                  e.lines[i].dated # "out" /\ Learnable(AsSaid(e.lines[i].text))}
      Said(i) == <<e.lines[i].role, e.lines[i].text>>
  IN IF e.kind = "text" THEN {i \in style : SpeakerPasses(e, i)}
     ELSE {i \in style : \A j \in style : j < i => Said(j) # Said(i)}

(* Messages that become records of the subject: of copied text all that    *)
(* were kept, of OCR lines those of the speaker asked for.                 *)
Targets(e) == {i \in Kept(e) : e.kind = "text" \/ e.lines[i].role = "target"}
Place(S, i) == Cardinality({j \in S : j <= i})

RawRecords(e) ==
  {[at |-> Place(Targets(e), i), consent |-> e.consent, persona |-> e.persona,
    text |-> AsSaid(e.lines[i].text)] : i \in Targets(e)}

(* Mutant: the manifest says nothing of the usage.                         *)
FreshConsentOpen(e) == [consent |-> e.consent, usage |-> "unset", revoked |-> FALSE]
(* The consent a script writes: fresh, whatever was there before.          *)
FreshConsent(e) == [consent |-> e.consent, usage |-> "allowed", revoked |-> FALSE]

(* What the persona answered to the last thing said to it, as it was said. *)
Pairs(e) ==
  LET Asks(i) == {j \in Kept(e) : j < i /\ e.lines[j].role = "self"}
      answers == {i \in Targets(e) : Asks(i) # {}}
      Last(S) == CHOOSE j \in S : \A k \in S : k <= j
  IN IF e.kind = "text" THEN {}
     ELSE {[at |-> Place(answers, i), persona |-> e.persona,
            self |-> AsSaid(e.lines[Last(Asks(i))].text),
            reply |-> AsSaid(e.lines[i].text)] : i \in answers}

-----------------------------------------------------------------------------
(* A sample: its id is <<source, consent, at>>.  The code also has a flag  *)
(* "revoked", which is the negation of active in every sample it writes.   *)
Sample == [at : Nat, consent : Consent \cup {"runtime"}, persona : Persona, text : Written,
           source : {"import", "agent_runtime_reply"},
           usage : {"style_simulation", "style_feedback"}, active : BOOLEAN]
Id(s) == <<s.source, s.consent, s.at>>

(* _rejection_reason, and the text that is no style once redacted. *)
Accepted(r, m) == m.consent = r.consent /\ m.usage = "allowed" /\ Learnable(Redacted(r.text))

(* Mutant: the text is checked for personal data and stored as it was.     *)
ImportedUnredacted(records, m) ==
  {[at |-> r.at, consent |-> r.consent, persona |-> r.persona, text |-> r.text,
    source |-> "import", usage |-> "style_simulation", active |-> ~m.revoked] :
     r \in {x \in records : Accepted(x, m)}}
(* StyleDataImporter.import_records: samples of a revoked consent are kept *)
(* for audit, inactive.                                                    *)
Imported(records, m) ==
  {[at |-> r.at, consent |-> r.consent, persona |-> r.persona, text |-> Redacted(r.text),
    source |-> "import", usage |-> "style_simulation", active |-> ~m.revoked] :
     r \in {x \in records : Accepted(x, m)}}

Result(e) == Imported(RawRecords(e), FreshConsent(e))

(* StyleLearningStore.learn_reply: an answer of the agent's own. *)
Learned(n, p, t) ==
  [at |-> n, consent |-> "runtime", persona |-> p, text |-> Redacted(AsSaid(t)),
   source |-> "agent_runtime_reply", usage |-> "style_feedback", active |-> TRUE]

(* What StyleStore.index_samples takes of the samples it is given. *)
Indexable(s) ==
  /\ s.active
  /\ s.usage = "style_simulation"
  /\ s.source # "agent_runtime_reply"
  /\ Learnable(s.text)
ToIndex(S) == {s \in S : Indexable(s)}

Upserted(docs, S) == {d \in docs : \A s \in S : Id(s) # Id(d)} \cup S
=============================================================================
