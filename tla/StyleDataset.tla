---------------------------- MODULE StyleDataset ----------------------------
(***************************************************************************)
(* The style dataset of a machine: the files an import script writes, the  *)
(* operator who edits the consent, the collection of the style index, and  *)
(* the processes that load the files into it and retrieve from it.         *)
(*                                                                         *)
(* A script is a sequence of writes and may die between any two of them or *)
(* within one; a process that starts reads whatever is there then.         *)
(***************************************************************************)
EXTENDS StyleSamples

CONSTANTS
  Process,     \* processes with a style store, "eval" may be one of them
  MinSamples,  \* fewer than these are no style
  TopK,        \* samples retrieved at most
  PairTopK,    \* pairs retrieved at most
  MaxImports,  \* bound: runs of the scripts
  Torn         \* bound: numbers of lines a torn file may have

ASSUME StoreAssumption == TopK \in Nat \ {0} /\ MinSamples \in Nat \ {0} /\ PairTopK \in Nat \ {0}
ASSUME TornAssumption == Torn \subseteq Nat

VARIABLES
  files,       \* names of the files there are
  raw,         \* lines of the raw records file
  manifest,    \* the consent in the consent manifest
  samples,     \* lines of the samples file
  pairs,       \* lines of the pairs file
  script,      \* the import script that runs, if one does
  imports,     \* number of script runs so far
  collection,  \* the collection of the style index
  service,     \* the style store of each process
  retrieved    \* answer to the query of the last step

fileVars  == <<files, raw, manifest, samples, pairs>>
styleVars == <<fileVars, script, imports, collection, service, retrieved>>

File == {"raw", "manifest", "pairs", "samples", "report"}
Unreadable == [consent |-> "none", usage |-> "allowed", revoked |-> FALSE]
Manifest == [consent : Consent, usage : Usage, revoked : BOOLEAN]
NoScript == [todo |-> <<>>]
Off == [at |-> "off", handle |-> 0, loaded |-> {}, pairs |-> {}]
Nothing == [by |-> "none", persona |-> "none", samples |-> {}, pairs |-> {}]

StyleInit ==
  /\ files = {} /\ raw = {} /\ manifest = Unreadable /\ samples = {} /\ pairs = {}
  /\ script = NoScript
  /\ imports = 0
  /\ collection = [number |-> 0, exists |-> FALSE, docs |-> {}]
  /\ service = [p \in Process |-> Off]
  /\ retrieved = Nothing

Running == script.todo # <<>>
Due(step) == Running /\ Head(script.todo) = step
Done == script' = [script EXCEPT !.todo = Tail(@), !.open = FALSE]

GetOrCreate(c) == IF c.exists THEN c ELSE [number |-> c.number + 1, exists |-> TRUE, docs |-> {}]

-----------------------------------------------------------------------------
(* The import scripts *)

Outputs(e) == {"raw", "manifest", "samples", "report"} \cup (IF e.kind = "ocr" THEN {"pairs"} ELSE {})
Steps(e, index) ==
  <<"raw", "manifest">> \o (IF e.kind = "ocr" THEN <<"pairs">> ELSE <<>>)
    \o <<"samples", "report">> \o (IF index THEN <<"open", "delete", "create", "index">> ELSE <<>>)
    \o <<"success">>

(* Existing files, and an export with nothing of the speaker, are errors   *)
(* before the first write.                                                 *)
ScriptStarts(e, overwrite, index) ==
  /\ ~Running /\ imports < MaxImports
  /\ overwrite \/ Outputs(e) \cap files = {}
  /\ Targets(e) # {}
  /\ script' = [todo |-> Steps(e, index), open |-> FALSE, export |-> e, index |-> index]
  /\ imports' = imports + 1
  /\ retrieved' = Nothing
  /\ UNCHANGED <<fileVars, collection, service>>

(* A file of the script with its lines up to place n.                      *)
Put(f, n) ==
  LET e == script.export
      Upto(S) == {x \in S : x.at <= n}
  IN /\ files' = files \cup {f}
     /\ raw' = IF f = "raw" THEN Upto(RawRecords(e)) ELSE raw
     /\ pairs' = IF f = "pairs" THEN Upto(Pairs(e)) ELSE pairs
     /\ samples' = IF f = "samples" THEN Upto(Result(e)) ELSE samples

(* write_text opens the file, which empties it, and writes; in between the *)
(* file is torn.                                                           *)
ScriptOpens(f, n) ==
  /\ Due(f) /\ ~script.open
  /\ n < Len(script.export.lines)
  /\ Put(f, n)
  /\ manifest' = IF f = "manifest" THEN Unreadable ELSE manifest
  /\ script' = [script EXCEPT !.open = TRUE]
  /\ retrieved' = Nothing
  /\ UNCHANGED <<imports, collection, service>>

ScriptWrites(f) ==
  /\ Due(f) /\ script.open
  /\ Put(f, Len(script.export.lines))
  /\ manifest' = IF f = "manifest" THEN FreshConsent(script.export) ELSE manifest
  /\ Done
  /\ retrieved' = Nothing
  /\ UNCHANGED <<imports, collection, service>>

(* Mutant: the samples are added to those of the collection there is.      *)
KeepsCollection(step) ==
  \/ step \in {"open", "create"} /\ collection' = GetOrCreate(collection)
  \/ step = "delete" /\ UNCHANGED collection
  \/ step = "index" /\ collection' = [collection EXCEPT !.docs = Upserted(@, ToIndex(Result(script.export)))]
(* The store of the script is built; replace_samples deletes the           *)
(* collection and makes it anew.                                           *)
ChangesCollection(step) ==
  \/ step \in {"open", "create"} /\ collection' = GetOrCreate(collection)
  \/ step = "delete" /\ collection' = [collection EXCEPT !.exists = FALSE, !.docs = {}]
  \/ step = "index" /\ collection' = [collection EXCEPT !.docs = Upserted(@, ToIndex(Result(script.export)))]

ScriptIndexes(step) ==
  /\ Due(step)
  /\ ChangesCollection(step)
  /\ Done
  /\ retrieved' = Nothing
  /\ UNCHANGED <<fileVars, imports, service>>

(* The script reports success and ends; or it is killed, cannot write, or  *)
(* gets no embeddings, and what it has written stays.                      *)
ScriptEnds ==
  /\ Running
  /\ script' = NoScript
  /\ retrieved' = Nothing
  /\ UNCHANGED <<fileVars, imports, collection, service>>

-----------------------------------------------------------------------------
(* The operator, when no script runs: edits the consent, and imports the   *)
(* records there are again.                                                *)
EditConsent(usage, revoked) ==
  /\ ~Running /\ manifest # Unreadable
  /\ manifest' = [manifest EXCEPT !.usage = usage, !.revoked = revoked]
  /\ retrieved' = Nothing
  /\ UNCHANGED <<files, raw, samples, pairs, script, imports, collection, service>>

Reimport ==
  /\ ~Running /\ manifest # Unreadable
  /\ samples' = Imported(raw, manifest)
  /\ files' = files \cup {"samples", "report"}
  /\ retrieved' = Nothing
  /\ UNCHANGED <<raw, manifest, pairs, script, imports, collection, service>>

-----------------------------------------------------------------------------
(* A process with a style store *)

Stale(p) == ~collection.exists \/ service[p].handle # collection.number

(* build_style_store: the collection is opened, the samples file read and  *)
(* indexed.                                                                *)
StoreOpens(p) ==
  /\ service[p].at = "off"
  /\ collection' = GetOrCreate(collection)
  /\ service' = [service EXCEPT ![p] = [at |-> "opened", handle |-> collection'.number,
                                          loaded |-> {}, pairs |-> {}]]
  /\ retrieved' = Nothing
  /\ UNCHANGED <<fileVars, script, imports>>

StoreLoads(p) ==
  /\ service[p].at = "opened"
  /\ service' = [service EXCEPT ![p] = [at |-> "loaded", handle |-> @.handle,
                                          loaded |-> samples, pairs |-> {}]]
  /\ retrieved' = Nothing
  /\ UNCHANGED <<fileVars, script, imports, collection>>

(* Samples are added and never removed.  The call needs the collection     *)
(* only when there is something to add; the pairs are read next.           *)
StoreIndexes(p) ==
  /\ service[p].at = "loaded"
  /\ \/ ToIndex(service[p].loaded) = {} /\ UNCHANGED collection
     \/ /\ ToIndex(service[p].loaded) # {} /\ ~Stale(p)
        /\ collection' = [collection EXCEPT !.docs = Upserted(@, ToIndex(service[p].loaded))]
  /\ service' = [service EXCEPT ![p] = [at |-> "up", handle |-> @.handle,
                                          loaded |-> @.loaded, pairs |-> pairs]]
  /\ retrieved' = Nothing
  /\ UNCHANGED <<fileVars, script, imports>>

(* The process stops or dies, or its start fails: no embeddings, or the    *)
(* collection it holds was deleted.                                        *)
StoreStops(p) ==
  /\ service[p].at # "off"
  /\ service' = [service EXCEPT ![p] = Off]
  /\ retrieved' = Nothing
  /\ UNCHANGED <<fileVars, script, imports, collection>>

(* The samples nearest to a query: too few of them are none.               *)
Found(persona) ==
  LET candidates == {d \in collection.docs : d.persona = persona /\ d.active}
      nearest == {S \in SUBSET candidates :
                    Cardinality(S) = IF Cardinality(candidates) < TopK
                                       THEN Cardinality(candidates) ELSE TopK}
  IN {IF Cardinality(S) < MinSamples THEN {} ELSE S : S \in nearest}

FoundPairs(p, persona) ==
  {S \in SUBSET {x \in service[p].pairs : x.persona = persona} : Cardinality(S) <= PairTopK}

(* retrieve_style_context of a request.  A collection that was deleted     *)
(* raises: the request fails.                                              *)
Retrieve(p, persona) ==
  /\ service[p].at = "up" /\ ~Stale(p)
  /\ \E S \in Found(persona), P \in FoundPairs(p, persona) :
       retrieved' = [by |-> p, persona |-> persona, samples |-> S, pairs |-> P]
  /\ UNCHANGED <<fileVars, script, imports, collection, service>>

(* An answer is learned: appended to the samples, when the file of learned *)
(* replies is that file; by default it is one nobody reads.                *)
Learn(p, n, persona, t) ==
  /\ service[p].at = "up"
  /\ Learnable(AsSaid(t))
  /\ \A s \in samples : Id(s) # Id(Learned(n, persona, t))
  /\ samples' = samples \cup {Learned(n, persona, t)}
  /\ files' = files \cup {"samples"}
  /\ retrieved' = Nothing
  /\ UNCHANGED <<raw, manifest, pairs, script, imports, collection, service>>

-----------------------------------------------------------------------------
ScriptNext ==
  \/ \E e \in Export, overwrite, index \in BOOLEAN : ScriptStarts(e, overwrite, index)
  \/ \E f \in File : (\E n \in Torn : ScriptOpens(f, n)) \/ ScriptWrites(f)
  \/ \E step \in {"open", "delete", "create", "index"} : ScriptIndexes(step)
  \/ ScriptEnds
OperatorNext ==
  \/ \E usage \in Usage, revoked \in BOOLEAN : EditConsent(usage, revoked)
  \/ Reimport
StoreNext(p) ==
  \/ StoreOpens(p) \/ StoreLoads(p) \/ StoreIndexes(p) \/ StoreStops(p)
  \/ \E persona \in Persona : Retrieve(p, persona)
  \/ \E n \in Reply, persona \in Persona, t \in Answer : Learn(p, n, persona, t)

(* Anything else the processes do. *)
Elsewhere == retrieved' = Nothing /\ UNCHANGED <<fileVars, script, imports, collection, service>>

StyleNext == ScriptNext \/ OperatorNext \/ Elsewhere \/ \E p \in Process : StoreNext(p)

StyleSpec == StyleInit /\ [][StyleNext]_styleVars
=============================================================================
