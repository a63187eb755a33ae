---------------------------- MODULE OfflineProps ----------------------------
(***************************************************************************)
(* What the style dataset and the evaluation promise.                      *)
(***************************************************************************)
EXTENDS EvalRunner

IsRow(r) == r.case \in Range(Case) /\ r.passed \in BOOLEAN

TypeOK ==
  /\ files \subseteq File
  /\ \A x \in raw : x.at \in Nat /\ x.consent \in Consent /\ x.text \in Written
  /\ manifest \in Manifest \cup {Unreadable}
  /\ samples \subseteq Sample
  /\ collection.number \in Nat /\ collection.exists \in BOOLEAN /\ collection.docs \subseteq Sample
  /\ \A p \in Process : /\ service[p].at \in {"off", "opened", "loaded", "up"}
                        /\ service[p].loaded \subseteq Sample
  /\ Running => script.export \in Export
  /\ verdict \in [Range(Case) -> {"unseen", "running", "passed", "failed", "raised"}]
  /\ \A i \in DOMAIN results : IsRow(results[i])

(* A sample says what a line says of an export that is imported under its  *)
(* consent for its persona, and the line was asked for: it is not dated    *)
(* out of the range, and it names the speaker.  What the scripts cannot    *)
(* tell is excepted and no more: a line of copied text with no speaker in  *)
(* it, and copied text that is imported for whoever speaks in it.          *)
AskedFor(x) ==
  \E e \in Export : \E i \in DOMAIN e.lines :
    /\ e.consent = x.consent /\ e.persona = x.persona
    /\ e.lines[i].text = x.text.of
    /\ e.lines[i].dated # "out"
    /\ \/ e.lines[i].role = "target"
       \/ e.kind = "text" /\ (e.lines[i].role = "unnamed" \/ ~e.filtered)

(* Whatever scripts, operator and processes have done to the files and the *)
(* index, torn files and stale loads included: a style sample that is put  *)
(* into a prompt was asked for under the consent it carries, for that      *)
(* persona, is without personal data and still reads as style, and is      *)
(* never an answer the agent gave itself, though its answers may be        *)
(* appended to the same samples file (by default they go to one of their   *)
(* own, config.py:109).                                                    *)
RetrievedIsAuthorized ==
  \A x \in retrieved.samples :
    /\ x.persona = retrieved.persona
    /\ x.source = "import" /\ x.usage = "style_simulation"
    /\ x.text.clean /\ Learnable(x.text)
    /\ AskedFor(x)

(* When an import script reports success it has left one dataset behind,   *)
(* all of it of its own export, whatever was there and whatever started    *)
(* while it ran: raw records, a fresh consent, samples, pairs, and, if     *)
(* asked for, an index with the samples of the file and no others.         *)
ImportIsWhole ==
  Due("success") =>
    LET e == script.export IN
    /\ raw = RawRecords(e)
    /\ manifest = FreshConsent(e)
    /\ {s \in samples : s.source = "import"} = Result(e)
    /\ e.kind = "ocr" => pairs = Pairs(e)
    /\ script.index => collection.docs = ToIndex(samples)

(* A sample the process itself has loaded as revoked is never retrieved:   *)
(* "The import pipeline [...] keeps revocation/active metadata for         *)
(* retrieval filtering" (README.md:180).                                   *)
RevokedIsNotRetrieved ==
  \A x \in retrieved.samples : \A s \in service[retrieved.by].loaded :
    Id(s) = Id(x) => s.active

(* An evaluation that completes has written one row for each case it       *)
(* selected and for no other, though with fail-fast it may stop at a case  *)
(* that failed; resumed, it has kept the rows there were of those cases.   *)
(* One that ends before it writes has not touched the rows.                *)
EvalKeepsAndCompletes ==
  [][eval.at # "off" /\ eval'.at = "off" =>
       CASE eval'.outcome = "written" ->
              LET rows == Range(results')
                  cases == {r.case : r \in rows}
              IN /\ Len(results') = Cardinality(cases)
                 /\ cases \subseteq Range(eval.selected)
                 /\ \/ cases = Range(eval.selected)
                    \/ eval.failFast /\ \E r \in rows : ~r.passed
                 /\ eval.resume =>
                      {r \in Range(eval.before) : r.case \in Range(eval.selected)} \subseteq rows
         [] eval'.outcome = "failed" -> results' = eval.before
         [] OTHER -> TRUE]_vars
=============================================================================
