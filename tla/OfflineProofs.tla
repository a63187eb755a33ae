---------------------------- MODULE OfflineProofs ----------------------------
(***************************************************************************)
(* What is put into a prompt as style is authorized, for every export,     *)
(* consent, persona and number of processes; and the evaluation is one     *)
(* more process on the style dataset.                                      *)
(***************************************************************************)
EXTENDS OfflineProps, FiniteSetTheorems, SequenceTheorems, TLAPS

Authorized(x) ==
  /\ x.source = "import" /\ x.usage = "style_simulation"
  /\ x.text.clean /\ Learnable(x.text)
  /\ AskedFor(x)
Own(x) == x.source = "agent_runtime_reply"

(* Every place a text of an export passes through on its way to a prompt.  *)
RawAskedFor     == \A x \in raw : AskedFor(x)
FileSound   == \A x \in samples : Authorized(x) \/ Own(x)
LoadedSound == \A p \in Process : \A x \in service[p].loaded : Authorized(x) \/ Own(x)
IndexSound  == \A x \in collection.docs : Authorized(x)

(* The records these are kept in.                                          *)
ScriptShape ==
  Running => /\ script = [todo |-> script.todo, open |-> script.open,
                          export |-> script.export, index |-> script.index]
             /\ script.export \in Export
ServiceShape ==
  service = [p \in Process |-> [at |-> service[p].at, handle |-> service[p].handle,
                                loaded |-> service[p].loaded, pairs |-> service[p].pairs]]
CollectionShape ==
  collection = [number |-> collection.number, exists |-> collection.exists, docs |-> collection.docs]

StyleInv ==
  /\ ScriptShape /\ ServiceShape /\ CollectionShape
  /\ RawAskedFor /\ FileSound /\ LoadedSound /\ IndexSound
  /\ RetrievedIsAuthorized

-----------------------------------------------------------------------------
(* What a script makes of an export was asked for.                         *)
LEMMA RecordsWereAskedFor ==
  ASSUME NEW e \in Export
  PROVE  \A x \in RawRecords(e) : AskedFor(x)
<1> SUFFICES ASSUME NEW x \in RawRecords(e) PROVE AskedFor(x)
  OBVIOUS
<1>1. PICK i \in Targets(e) :
        x = [at |-> Place(Targets(e), i), consent |-> e.consent, persona |-> e.persona,
             text |-> AsSaid(e.lines[i].text)]
  BY DEF RawRecords
<1>2. /\ i \in DOMAIN e.lines /\ e.lines[i].dated # "out"
      /\ \/ e.lines[i].role = "target"
         \/ e.kind = "text" /\ (e.lines[i].role = "unnamed" \/ ~e.filtered)
  <2>1. i \in Kept(e) /\ (e.kind = "text" \/ e.lines[i].role = "target")
    BY DEF Targets
  <2>2. i \in DOMAIN e.lines /\ e.lines[i].dated # "out"
    BY <2>1 DEF Kept
  <2>3. CASE e.kind = "text"
    BY <2>1, <2>2, <2>3 DEF Kept, SpeakerPasses
  <2>4. CASE e.kind # "text"
    BY <2>1, <2>2, <2>4
  <2> QED
    BY <2>3, <2>4
<1>3. x.consent = e.consent /\ x.persona = e.persona /\ x.text.of = e.lines[i].text
  BY <1>1 DEF AsSaid
<1> QED
  BY <1>2, <1>3 DEF AskedFor

(* What the importer makes of such records may go into a prompt.           *)
LEMMA ImportedIsAuthorized ==
  ASSUME NEW R, \A r \in R : AskedFor(r), NEW m
  PROVE  \A x \in Imported(R, m) : Authorized(x)
<1> SUFFICES ASSUME NEW x \in Imported(R, m) PROVE Authorized(x)
  OBVIOUS
<1>1. PICK r \in R :
        /\ Accepted(r, m)
        /\ x = [at |-> r.at, consent |-> r.consent, persona |-> r.persona,
                text |-> Redacted(r.text), source |-> "import",
                usage |-> "style_simulation", active |-> ~m.revoked]
  BY DEF Imported
<1>2. x.source = "import" /\ x.usage = "style_simulation" /\ x.consent = r.consent
      /\ x.persona = r.persona /\ x.text = Redacted(r.text)
  BY <1>1
<1>3. Learnable(x.text)
  BY <1>1, <1>2 DEF Accepted
<1>4. PICK e \in Export : \E i \in DOMAIN e.lines :
        /\ e.consent = r.consent /\ e.persona = r.persona
        /\ e.lines[i].text = r.text.of
        /\ e.lines[i].dated # "out"
        /\ \/ e.lines[i].role = "target"
           \/ e.kind = "text" /\ (e.lines[i].role = "unnamed" \/ ~e.filtered)
  BY DEF AskedFor
<1> QED
  BY <1>2, <1>3, <1>4 DEF Authorized, AskedFor, Redacted

LEMMA ResultIsAuthorized ==
  ASSUME NEW e \in Export
  PROVE  \A x \in Result(e) : Authorized(x)
<1> HIDE DEF Authorized
<1> QED
  BY RecordsWereAskedFor, ImportedIsAuthorized DEF Result

LEMMA ToIndexIsAuthorized ==
  ASSUME NEW S, \A x \in S : Authorized(x) \/ Own(x)
  PROVE  \A x \in ToIndex(S) : Authorized(x)
BY DEF ToIndex, Indexable, Own

LEMMA UpsertIsAuthorized ==
  ASSUME NEW D, NEW S, \A x \in D : Authorized(x), \A x \in S : Authorized(x)
  PROVE  \A x \in Upserted(D, S) : Authorized(x)
BY DEF Upserted

-----------------------------------------------------------------------------
LEMMA StyleInvInit == StyleInit => StyleInv
BY DEF StyleInit, StyleInv, ScriptShape, ServiceShape, CollectionShape, RawAskedFor, FileSound,
       LoadedSound, IndexSound, RetrievedIsAuthorized, NoScript, Running, Off, Nothing

(* The script: its export stays the one it was started with. *)
LEMMA PutSound ==
  ASSUME StyleInv, Running, NEW f \in File, NEW n, Put(f, n)
  PROVE  RawAskedFor' /\ FileSound'
<1>0. script.export \in Export
  BY DEF StyleInv, ScriptShape
<1>1. \A x \in RawRecords(script.export) : AskedFor(x)
  BY <1>0, RecordsWereAskedFor
<1>2. \A x \in Result(script.export) : Authorized(x)
  BY <1>0, ResultIsAuthorized
<1>3. \A x \in raw' : x \in raw \/ x \in RawRecords(script.export)
  BY DEF Put
<1>4. \A x \in samples' : x \in samples \/ x \in Result(script.export)
  BY DEF Put
<1>5. RawAskedFor'
  BY <1>1, <1>3 DEF StyleInv, RawAskedFor, AskedFor
<1>6. FileSound'
  BY <1>2, <1>4 DEF StyleInv, FileSound, Authorized, Own, AskedFor
<1> QED
  BY <1>5, <1>6

LEMMA ScriptStep ==
  ASSUME StyleInv, ScriptNext
  PROVE  StyleInv'
<1> USE DEF StyleInv
<1>1. ASSUME NEW e \in Export, NEW overwrite, NEW index, ScriptStarts(e, overwrite, index)
      PROVE  StyleInv'
  BY <1>1 DEF ScriptStarts, fileVars, ScriptShape, ServiceShape, CollectionShape, RawAskedFor,
     FileSound, LoadedSound, IndexSound, RetrievedIsAuthorized, Nothing, Authorized, Own,
     AskedFor
<1>2. ASSUME NEW f \in File, NEW n, ScriptOpens(f, n)
      PROVE  StyleInv'
  <2>1. RawAskedFor' /\ FileSound'
    BY <1>2, PutSound DEF ScriptOpens, Due
  <2> QED
    BY <1>2, <2>1 DEF ScriptOpens, Due, Running, ScriptShape, ServiceShape, CollectionShape,
       LoadedSound, IndexSound, RetrievedIsAuthorized, Nothing, Authorized, Own, AskedFor
<1>3. ASSUME NEW f \in File, ScriptWrites(f)
      PROVE  StyleInv'
  <2>1. RawAskedFor' /\ FileSound'
    BY <1>3, PutSound DEF ScriptWrites, Due
  <2> QED
    BY <1>3, <2>1 DEF ScriptWrites, Due, Done, Running, ScriptShape, ServiceShape,
       CollectionShape, LoadedSound, IndexSound, RetrievedIsAuthorized, Nothing, Authorized,
       Own, AskedFor
<1>4. ASSUME NEW step, ScriptIndexes(step)
      PROVE  StyleInv'
  <2>1. ScriptShape'
    BY <1>4 DEF ScriptIndexes, Due, Done, Running, ScriptShape
  <2>2. \A x \in ToIndex(Result(script.export)) : Authorized(x)
    BY <1>4, ResultIsAuthorized DEF ScriptIndexes, Due, ScriptShape, ToIndex
  <2>3. CollectionShape' /\ IndexSound'
    <3>1. CASE collection' = GetOrCreate(collection)
      BY <3>1 DEF GetOrCreate, CollectionShape, IndexSound
    <3>2. CASE collection' = [collection EXCEPT !.exists = FALSE, !.docs = {}]
      BY <3>2 DEF CollectionShape, IndexSound
    <3>3. CASE collection' = [collection EXCEPT !.docs = Upserted(@, ToIndex(Result(script.export)))]
      <4>1. CollectionShape' /\ collection'.docs = Upserted(collection.docs, ToIndex(Result(script.export)))
        BY <3>3 DEF CollectionShape
      <4>2. \A x \in collection'.docs : Authorized(x)
        BY <4>1, <2>2, UpsertIsAuthorized DEF IndexSound
      <4> QED
        BY <4>1, <4>2 DEF IndexSound, Authorized, AskedFor
    <3> QED
      BY <1>4, <3>1, <3>2, <3>3 DEF ScriptIndexes, ChangesCollection
  <2> QED
    BY <1>4, <2>1, <2>3 DEF ScriptIndexes, fileVars, ServiceShape, RawAskedFor, FileSound,
       LoadedSound, RetrievedIsAuthorized, Nothing, Authorized, Own, AskedFor
<1>5. ASSUME ScriptEnds
      PROVE  StyleInv'
  BY <1>5 DEF ScriptEnds, NoScript, Running, fileVars, ScriptShape, ServiceShape,
     CollectionShape, RawAskedFor, FileSound, LoadedSound, IndexSound, RetrievedIsAuthorized,
     Nothing, Authorized, Own, AskedFor
<1> QED
  BY <1>1, <1>2, <1>3, <1>4, <1>5 DEF ScriptNext

LEMMA OperatorStep ==
  ASSUME StyleInv, OperatorNext
  PROVE  StyleInv'
<1> USE DEF StyleInv
<1>1. ASSUME NEW usage, NEW revoked, EditConsent(usage, revoked)
      PROVE  StyleInv'
  BY <1>1 DEF EditConsent, ScriptShape, Running, ServiceShape, CollectionShape, RawAskedFor,
     FileSound, LoadedSound, IndexSound, RetrievedIsAuthorized, Nothing, Authorized, Own,
     AskedFor
<1>2. ASSUME Reimport
      PROVE  StyleInv'
  <2>1. \A x \in samples' : Authorized(x)
    BY <1>2, ImportedIsAuthorized DEF Reimport, RawAskedFor
  <2> QED
    BY <1>2, <2>1 DEF Reimport, ScriptShape, Running, ServiceShape, CollectionShape, RawAskedFor,
       FileSound, LoadedSound, IndexSound, RetrievedIsAuthorized, Nothing, Authorized, Own,
       AskedFor
<1> QED
  BY <1>1, <1>2 DEF OperatorNext

LEMMA ServiceUpdate ==
  ASSUME ServiceShape, LoadedSound, NEW p \in Process, NEW a, NEW h, NEW L, NEW P,
         \A x \in L : Authorized(x) \/ Own(x),
         service' = [service EXCEPT ![p] = [at |-> a, handle |-> h, loaded |-> L, pairs |-> P]]
  PROVE  ServiceShape' /\ LoadedSound'
<1>1. service' = [q \in Process |-> IF q = p THEN [at |-> a, handle |-> h, loaded |-> L, pairs |-> P]
                                             ELSE service[q]]
  BY DEF ServiceShape
<1>2. ServiceShape'
  BY <1>1 DEF ServiceShape
<1>3. ASSUME NEW q \in Process, NEW x \in service'[q].loaded
      PROVE  Authorized(x) \/ Own(x)
  <2>1. x \in L \/ x \in service[q].loaded
    BY <1>1, <1>3
  <2> QED
    BY <2>1 DEF LoadedSound
<1> QED
  BY <1>2, <1>3 DEF LoadedSound, Authorized, Own, AskedFor

LEMMA StoreStep ==
  ASSUME StyleInv, NEW p \in Process, StoreNext(p)
  PROVE  StyleInv'
<1> USE DEF StyleInv
<1>1. ASSUME StoreOpens(p)
      PROVE  StyleInv'
  <2>1. CollectionShape' /\ IndexSound'
    BY <1>1 DEF StoreOpens, GetOrCreate, CollectionShape, IndexSound, Authorized, AskedFor
  <2>2. ServiceShape' /\ LoadedSound'
    <3>1. PICK h, L : /\ L = {}
                      /\ service' = [service EXCEPT ![p] = [at |-> "opened", handle |-> h,
                                                            loaded |-> L, pairs |-> L]]
      BY <1>1 DEF StoreOpens
    <3>2. \A x \in L : Authorized(x) \/ Own(x)
      BY <3>1
    <3> QED
      BY <3>1, <3>2, ServiceUpdate
  <2> QED
    BY <1>1, <2>1, <2>2 DEF StoreOpens, fileVars, ScriptShape, Running, RawAskedFor, FileSound,
       RetrievedIsAuthorized, Nothing, Authorized, Own, AskedFor
<1>2. ASSUME StoreLoads(p)
      PROVE  StyleInv'
  <2>1. ServiceShape' /\ LoadedSound'
    <3>1. service' = [service EXCEPT ![p] = [at |-> "loaded", handle |-> service[p].handle,
                                             loaded |-> samples, pairs |-> {}]]
      BY <1>2 DEF StoreLoads, ServiceShape
    <3> QED
      BY <3>1, ServiceUpdate DEF FileSound
  <2> QED
    BY <1>2, <2>1 DEF StoreLoads, fileVars, ScriptShape, Running, CollectionShape, RawAskedFor,
       FileSound, IndexSound, RetrievedIsAuthorized, Nothing, Authorized, Own, AskedFor
<1>3. ASSUME StoreIndexes(p)
      PROVE  StyleInv'
  <2>1. ServiceShape' /\ LoadedSound'
    <3>1. service' = [service EXCEPT ![p] = [at |-> "up", handle |-> service[p].handle,
                                             loaded |-> service[p].loaded, pairs |-> pairs]]
      BY <1>3 DEF StoreIndexes, ServiceShape
    <3> QED
      BY <3>1, ServiceUpdate DEF LoadedSound
  <2>2. \A x \in ToIndex(service[p].loaded) : Authorized(x)
    BY ToIndexIsAuthorized DEF LoadedSound
  <2>3. CollectionShape' /\ IndexSound'
    <3>1. CASE UNCHANGED collection
      BY <3>1 DEF CollectionShape, IndexSound, Authorized, AskedFor
    <3>2. CASE collection' = [collection EXCEPT !.docs = Upserted(@, ToIndex(service[p].loaded))]
      <4>1. CollectionShape' /\ collection'.docs = Upserted(collection.docs, ToIndex(service[p].loaded))
        BY <3>2 DEF CollectionShape
      <4>2. \A x \in collection'.docs : Authorized(x)
        BY <4>1, <2>2, UpsertIsAuthorized DEF IndexSound
      <4> QED
        BY <4>1, <4>2 DEF IndexSound, Authorized, AskedFor
    <3> QED
      BY <1>3, <3>1, <3>2 DEF StoreIndexes
  <2> QED
    BY <1>3, <2>1, <2>3 DEF StoreIndexes, fileVars, ScriptShape, Running, RawAskedFor, FileSound,
       RetrievedIsAuthorized, Nothing, Authorized, Own, AskedFor
<1>4. ASSUME StoreStops(p)
      PROVE  StyleInv'
  <2>1. ServiceShape' /\ LoadedSound'
    BY <1>4 DEF StoreStops, Off, ServiceShape, LoadedSound, Authorized, Own, AskedFor
  <2> QED
    BY <1>4, <2>1 DEF StoreStops, fileVars, ScriptShape, Running, CollectionShape, RawAskedFor,
       FileSound, IndexSound, RetrievedIsAuthorized, Nothing, Authorized, Own, AskedFor
<1>5. ASSUME NEW persona \in Persona, Retrieve(p, persona)
      PROVE  StyleInv'
  <2>1. PICK S \in Found(persona), P \in FoundPairs(p, persona) :
          retrieved' = [by |-> p, persona |-> persona, samples |-> S, pairs |-> P]
    BY <1>5 DEF Retrieve
  <2>2. \A x \in S : x \in collection.docs /\ x.persona = persona
    BY DEF Found
  <2>3. RetrievedIsAuthorized'
    BY <2>1, <2>2 DEF RetrievedIsAuthorized, IndexSound, Authorized, AskedFor
  <2> QED
    BY <1>5, <2>3 DEF Retrieve, fileVars, ScriptShape, Running, ServiceShape, CollectionShape,
       RawAskedFor, FileSound, LoadedSound, IndexSound, Authorized, Own, AskedFor
<1>6. ASSUME NEW n \in Reply, NEW persona \in Persona, NEW t \in Answer, Learn(p, n, persona, t)
      PROVE  StyleInv'
  <2>1. FileSound'
    BY <1>6 DEF Learn, Learned, FileSound, Authorized, Own, AskedFor
  <2> QED
    BY <1>6, <2>1 DEF Learn, ScriptShape, Running, ServiceShape, CollectionShape, RawAskedFor,
       LoadedSound, IndexSound, RetrievedIsAuthorized, Nothing, Authorized, Own, AskedFor
<1> QED
  BY <1>1, <1>2, <1>3, <1>4, <1>5, <1>6 DEF StoreNext

LEMMA StyleInvStep == StyleInv /\ [StyleNext]_styleVars => StyleInv'
<1> SUFFICES ASSUME StyleInv, [StyleNext]_styleVars PROVE StyleInv'
  OBVIOUS
<1>1. ASSUME Elsewhere \/ UNCHANGED styleVars
      PROVE  StyleInv'
  BY <1>1 DEF StyleInv, Elsewhere, styleVars, fileVars, ScriptShape, Running, ServiceShape,
     CollectionShape, RawAskedFor, FileSound, LoadedSound, IndexSound, RetrievedIsAuthorized,
     Nothing, Authorized, Own, AskedFor
<1> QED
  BY <1>1, ScriptStep, OperatorStep, StoreStep DEF StyleNext

(* On a machine with any number of processes, whatever is exported.        *)
THEOREM DatasetIsAuthorized == StyleSpec => []RetrievedIsAuthorized
<1>1. StyleInv => RetrievedIsAuthorized
  BY DEF StyleInv
<1> QED
  BY <1>1, StyleInvInit, StyleInvStep, PTL DEF StyleSpec

-----------------------------------------------------------------------------
LEMMA EvalStepIsStyleStep == [Next]_vars => [StyleNext]_styleVars
<1> SUFFICES ASSUME [Next]_vars PROVE [StyleNext]_styleVars
  OBVIOUS
<1> USE CaseAssumption
<1>1. ASSUME OthersNext
      PROVE  StyleNext
  BY <1>1 DEF OthersNext, StyleNext
<1>2. ASSUME NEW selected, NEW resume, NEW failFast, NEW workers,
             EvalStarts(selected, resume, failFast, workers)
      PROVE  StyleNext
  BY <1>2 DEF EvalStarts, StyleNext
<1>3. ASSUME EvalBuilds
      PROVE  StyleNext
  BY <1>3 DEF EvalBuilds, StyleNext, StoreNext
<1>4. ASSUME NEW k, CaseStarts(k)
      PROVE  StyleNext
  BY <1>4 DEF CaseStarts, StyleNext
<1>5. ASSUME NEW c, NEW answer, NEW persona \in Persona, CaseAnswers(c, answer, persona)
      PROVE  StyleNext
  BY <1>5 DEF CaseAnswers, StyleNext, StoreNext
<1>6. ASSUME NEW c, CaseRaises(c)
      PROVE  StyleNext
  BY <1>6 DEF CaseRaises, StyleNext
<1>7. ASSUME NEW n \in Reply, NEW persona \in Persona, NEW t \in Answer, EvalLearns(n, persona, t)
      PROVE  StyleNext
  BY <1>7 DEF EvalLearns, StyleNext, StoreNext
<1>8. ASSUME CasesEnd \/ EvalDies \/ EvalWrites
      PROVE  StyleNext
  BY <1>8 DEF CasesEnd, EvalDies, EvalWrites, StyleNext, StoreNext
<1>9. ASSUME NEW n, NEW torn, EvalOpens(n, torn)
      PROVE  StyleNext
  BY <1>9 DEF EvalOpens, StyleNext
<1> QED
  BY <1>1, <1>2, <1>3, <1>4, <1>5, <1>6, <1>7, <1>8, <1>9 DEF Next, EvalNext, vars

(* An evaluation does to the files, the index and the consent nothing that *)
(* a service could not do: the composition implements the dataset          *)
(* (eval/runner.py, _build_real_eval_runtime).                             *)
THEOREM EvalIsOneMoreProcess == Spec => StyleSpec
<1>1. Init => StyleInit
  BY DEF Init
<1> QED
  BY <1>1, EvalStepIsStyleStep, PTL DEF Spec, StyleSpec

(* What a service or an evaluation retrieves as style is authorized        *)
(* (style_store.py, governance/data_manifest.py).                          *)
THEOREM AlwaysAuthorized == Spec => []RetrievedIsAuthorized
BY EvalIsOneMoreProcess, DatasetIsAuthorized
-----------------------------------------------------------------------------
(* Places in a set of numbers                                              *)

LEMMA PlaceBounded ==
  ASSUME NEW n \in Nat, NEW S \in SUBSET (1..n), NEW i
  PROVE  Place(S, i) \in Nat /\ Place(S, i) <= n
<1>1. IsFiniteSet(1..n) /\ Cardinality(1..n) = n
  BY FS_Interval
<1>2. {j \in S : j <= i} \subseteq 1..n
  OBVIOUS
<1>3. IsFiniteSet({j \in S : j <= i})
  BY <1>1, <1>2, FS_Subset
<1> QED
  BY <1>1, <1>2, <1>3, FS_Subset, FS_CardinalityType DEF Place

LEMMA PlaceInjective ==
  ASSUME NEW n \in Nat, NEW S \in SUBSET (1..n), NEW i \in S, NEW j \in S, i < j
  PROVE  Place(S, i) # Place(S, j)
<1> DEFINE A == {k \in S : k <= i}
           B == {k \in S : k <= j}
<1>1. IsFiniteSet(B)
  <2>1. IsFiniteSet(1..n)
    BY FS_Interval
  <2> QED
    BY <2>1, FS_Subset
<1>0. \A k \in S : k \in Int
  OBVIOUS
<1>2. A \subseteq B /\ j \in B /\ j \notin A
  <2>1. i \in Int /\ j \in Int
    BY <1>0
  <2>2. \A k \in S : k <= i => k <= j
    BY <1>0, <2>1
  <2>3. A \subseteq B
    BY <2>2
  <2>4. j \in B
    BY <2>1
  <2>5. j \notin A
    BY <2>1
  <2> QED
    BY <2>3, <2>4, <2>5
<1>3. IsFiniteSet(A) /\ Cardinality(A) <= Cardinality(B) /\ (Cardinality(A) = Cardinality(B) => A = B)
  BY <1>1, <1>2, FS_Subset
<1> QED
  BY <1>2, <1>3 DEF Place

(* The members of a sequence that are in a set come in their order, each   *)
(* as often as before.                                                     *)
LEMMA ThoseAreThere ==
  ASSUME NEW T, NEW s \in Seq(T), NEW S
  PROVE  /\ Those(s, S) \in Seq(T)
         /\ Range(Those(s, S)) = Range(s) \cap S
         /\ IsInjective(s) => IsInjective(Those(s, S))
<1> DEFINE at  == {i \in DOMAIN s : s[i] \in S}
           N   == Cardinality(at)
           pl  == [i \in at |-> Place(at, i)]
           pos == [n \in 1..N |-> CHOOSE i \in at : Place(at, i) = n]
<1>1. DOMAIN s = 1..Len(s) /\ Len(s) \in Nat /\ \A i \in 1..Len(s) : s[i] \in T
  BY LenProperties, ElementOfSeq
<1>2. at \in SUBSET (1..Len(s)) /\ IsFiniteSet(at) /\ N \in Nat
  <2>1. at \in SUBSET (1..Len(s)) BY <1>1
  <2>2. IsFiniteSet(1..Len(s)) BY <1>1, FS_Interval
  <2>3. IsFiniteSet(at) BY <2>1, <2>2, FS_Subset
  <2> HIDE DEF at
  <2> QED BY <2>1, <2>3, FS_CardinalityType
<1>3. ASSUME NEW i \in at PROVE Place(at, i) \in 1..N
  <2>1. {j \in at : j <= i} \in SUBSET at /\ i \in {j \in at : j <= i}
    BY <1>2
  <2>2. IsFiniteSet({j \in at : j <= i}) /\ Cardinality({j \in at : j <= i}) <= N
    BY <1>2, <2>1, FS_Subset
  <2>3. Cardinality({j \in at : j <= i}) \in Nat /\ Cardinality({j \in at : j <= i}) # 0
    BY <2>1, <2>2, FS_CardinalityType, FS_EmptySet
  <2> HIDE DEF at
  <2> QED BY <1>2, <2>2, <2>3 DEF Place
<1>4. pl \in Injection(at, 1..N)
  <2>1. ASSUME NEW i \in at, NEW j \in at, i # j PROVE Place(at, i) # Place(at, j)
    <3>1. i \in Nat /\ j \in Nat BY <1>1
    <3>2. CASE i < j BY <1>1, <1>2, <3>2, PlaceInjective
    <3>3. CASE j < i BY <1>1, <1>2, <3>3, PlaceInjective
    <3> QED BY <2>1, <3>1, <3>2, <3>3
  <2> HIDE DEF at
  <2> QED BY <1>3, <2>1 DEF Injection, IsInjective
<1> HIDE DEF at
<1>5. pl \in Surjection(at, 1..N)
  <2>1. IsFiniteSet(1..N) /\ Cardinality(1..N) = N
    BY <1>2, FS_Interval
  <2> QED BY <1>4, <2>1, FS_Injection
<1>6. ASSUME NEW n \in 1..N PROVE pos[n] \in at /\ Place(at, pos[n]) = n
  <2>1. \E i \in at : Place(at, i) = n
    BY <1>5 DEF Surjection
  <2> QED BY <2>1
<1>7. ASSUME NEW i \in at PROVE pos[Place(at, i)] = i
  <2>1. Place(at, i) \in 1..N BY <1>3
  <2>2. pos[Place(at, i)] \in at /\ Place(at, pos[Place(at, i)]) = Place(at, i)
    BY <1>6, <2>1
  <2> HIDE DEF pos
  <2> QED BY <1>4, <2>2 DEF Injection, IsInjective
<1>8. Those(s, S) = [n \in 1..N |-> s[pos[n]]]
  BY DEF Those, at
<1> HIDE DEF pos, N
<1>9. Those(s, S) \in Seq(T)
  <2>1. \A n \in 1..N : s[pos[n]] \in T
    BY <1>1, <1>2, <1>6
  <2>2. [n \in 1..N |-> s[pos[n]]] \in Seq(T)
    BY <1>2, <2>1, IsASeq
  <2> QED BY <1>8, <2>2
<1>10. Range(Those(s, S)) = Range(s) \cap S
  <2>1. ASSUME NEW x \in Range(Those(s, S)) PROVE x \in Range(s) \cap S
    <3>1. PICK n \in 1..N : x = s[pos[n]]
      BY <1>8 DEF Range
    <3> QED BY <1>6, <3>1 DEF at, Range
  <2>2. ASSUME NEW x \in Range(s) \cap S PROVE x \in Range(Those(s, S))
    <3>1. PICK i \in at : x = s[i]
      BY DEF at, Range
    <3>2. Place(at, i) \in 1..N /\ x = s[pos[Place(at, i)]]
      BY <1>3, <1>7, <3>1 DEF N
    <3> QED BY <1>8, <3>2 DEF Range
  <2> QED BY <2>1, <2>2
<1>11. ASSUME IsInjective(s) PROVE IsInjective(Those(s, S))
  <2> SUFFICES ASSUME NEW m \in 1..N, NEW n \in 1..N, s[pos[m]] = s[pos[n]]
               PROVE  m = n
    BY <1>8 DEF IsInjective
  <2>1. pos[m] \in DOMAIN s /\ pos[n] \in DOMAIN s
    BY <1>6 DEF at
  <2>2. pos[m] = pos[n]
    BY <1>11, <2>1 DEF IsInjective
  <2> QED BY <1>6, <2>2
<1> QED BY <1>9, <1>10, <1>11

-----------------------------------------------------------------------------
(* Rows of results, one for each case.                                     *)
Row == [case : Range(Case), passed : BOOLEAN]
CasesOf(s) == {r.case : r \in Range(s)}
OneEach(s) == s \in Seq(Row) /\ \A i, j \in DOMAIN s : s[i].case = s[j].case => i = j

LEMMA OneEachCounts ==
  ASSUME NEW s, OneEach(s)
  PROVE  Len(s) = Cardinality(CasesOf(s))
<1> DEFINE f == [i \in 1..Len(s) |-> s[i].case]
<1>1. DOMAIN s = 1..Len(s) /\ Len(s) \in Nat
  BY LenProperties DEF OneEach
<1>2. f \in Bijection(1..Len(s), CasesOf(s))
  BY <1>1 DEF OneEach, CasesOf, Range, Bijection, Injection, Surjection, IsInjective
<1>3. ExistsBijection(1..Len(s), CasesOf(s))
  BY <1>2 DEF ExistsBijection
<1>4. IsFiniteSet(1..Len(s)) /\ Cardinality(1..Len(s)) = Len(s)
  <2>1. 1 \in Int /\ Len(s) \in Int BY <1>1
  <2>2. /\ IsFiniteSet(1..Len(s))
        /\ Cardinality(1..Len(s)) = IF 1 > Len(s) THEN 0 ELSE Len(s) - 1 + 1
    BY <2>1, FS_Interval
  <2> QED BY <1>1, <2>2
<1> QED
  BY <1>3, <1>4, FS_Bijection

LEMMA OneEachPrefix ==
  ASSUME NEW s, OneEach(s), NEW n \in Nat, n <= Len(s)
  PROVE  OneEach(SubSeq(s, 1, n))
<1>1. DOMAIN s = 1..Len(s) /\ Len(s) \in Nat /\ \A i \in 1..Len(s) : s[i] \in Row
  BY LenProperties, ElementOfSeq DEF OneEach
<1>2. /\ SubSeq(s, 1, n) \in Seq(Row)
      /\ Len(SubSeq(s, 1, n)) = n
      /\ \A i \in 1..n : SubSeq(s, 1, n)[i] = s[i]
  <2>1. \A i \in 1..n : s[i] \in Row BY <1>1
  <2>2. /\ SubSeq(s, 1, n) \in Seq(Row)
        /\ Len(SubSeq(s, 1, n)) = IF 1 <= n THEN n - 1 + 1 ELSE 0
        /\ \A i \in 1..n - 1 + 1 : SubSeq(s, 1, n)[i] = s[1 + i - 1]
    BY <2>1, SubSeqProperties
  <2>3. \A i \in 1..n : SubSeq(s, 1, n)[i] = s[i]
    <3> SUFFICES ASSUME NEW i \in 1..n PROVE SubSeq(s, 1, n)[i] = s[i]
      OBVIOUS
    <3>1. i \in 1..n - 1 + 1 /\ 1 + i - 1 = i OBVIOUS
    <3> QED BY <2>2, <3>1
  <2> QED BY <2>2, <2>3
<1>3. DOMAIN SubSeq(s, 1, n) = 1..n
  BY <1>2, LenProperties
<1> QED
  BY <1>1, <1>2, <1>3 DEF OneEach

LEMMA OneEachConcat ==
  ASSUME NEW s, OneEach(s), NEW t, OneEach(t), CasesOf(s) \cap CasesOf(t) = {}
  PROVE  OneEach(s \o t) /\ Range(s \o t) = Range(s) \cup Range(t)
<1> DEFINE u == s \o t
<1>1. /\ DOMAIN s = 1..Len(s) /\ Len(s) \in Nat
      /\ DOMAIN t = 1..Len(t) /\ Len(t) \in Nat
  BY LenProperties DEF OneEach
<1>2. /\ u \in Seq(Row)
      /\ Len(u) = Len(s) + Len(t)
      /\ \A i \in 1..Len(s) + Len(t) : u[i] = IF i <= Len(s) THEN s[i] ELSE t[i - Len(s)]
  BY ConcatProperties DEF OneEach
<1>3. DOMAIN u = 1..Len(s) + Len(t)
  BY <1>2, LenProperties
<1> HIDE DEF u
<1>4. ASSUME NEW i \in DOMAIN u
      PROVE  \/ i \in DOMAIN s /\ u[i] = s[i]
             \/ i > Len(s) /\ i - Len(s) \in DOMAIN t /\ u[i] = t[i - Len(s)]
  BY <1>1, <1>2, <1>3
<1>5. ASSUME NEW i \in DOMAIN s PROVE i \in DOMAIN u /\ u[i] = s[i]
  BY <1>1, <1>2, <1>3
<1>6. ASSUME NEW i \in DOMAIN t PROVE i + Len(s) \in DOMAIN u /\ u[i + Len(s)] = t[i]
  <2>1. i + Len(s) \in 1..Len(s) + Len(t) /\ ~(i + Len(s) <= Len(s)) /\ i + Len(s) - Len(s) = i
    BY <1>1
  <2> QED BY <1>2, <1>3, <2>1
<1>7. ASSUME NEW i \in DOMAIN s, NEW j \in DOMAIN t PROVE s[i].case # t[j].case
  BY DEF CasesOf, Range
<1>8. OneEach(u)
  <2> SUFFICES ASSUME NEW i \in DOMAIN u, NEW j \in DOMAIN u, u[i].case = u[j].case
               PROVE  i = j
    BY <1>2 DEF OneEach
  <2>1. i \in Nat /\ j \in Nat BY <1>1, <1>3
  <2>2. CASE i \in DOMAIN s /\ u[i] = s[i]
    BY <1>4, <1>7, <2>2 DEF OneEach
  <2>3. CASE i > Len(s) /\ i - Len(s) \in DOMAIN t /\ u[i] = t[i - Len(s)]
    <3>1. j > Len(s) /\ j - Len(s) \in DOMAIN t /\ u[j] = t[j - Len(s)]
      BY <1>4, <1>7, <2>3
    <3>2. i - Len(s) = j - Len(s) BY <2>3, <3>1 DEF OneEach
    <3> QED BY <1>1, <2>1, <3>2
  <2> QED BY <1>4, <2>2, <2>3
<1>9. Range(u) = Range(s) \cup Range(t)
  BY <1>4, <1>5, <1>6 DEF Range
<1> QED
  BY <1>8, <1>9 DEF u

-----------------------------------------------------------------------------
(* The rows of an evaluation.                                              *)
Verdict == {"unseen", "running", "passed", "failed", "raised"}

(* What it was started with: the cases of the selection are those to do    *)
(* and those whose rows it keeps.                                          *)
PlanInv ==
  /\ eval = [at |-> eval.at, selected |-> eval.selected, pending |-> eval.pending,
             kept |-> eval.kept, failFast |-> eval.failFast, workers |-> eval.workers,
             before |-> eval.before, resume |-> eval.resume]
  /\ eval.at \in {"build", "run", "write", "writing"}
  /\ eval.pending \in Seq(Range(Case)) /\ IsInjective(eval.pending)
  /\ OneEach(eval.kept)
  /\ CasesOf(eval.kept) \subseteq Range(eval.selected)
  /\ Range(eval.pending) = Range(eval.selected) \ CasesOf(eval.kept)
  /\ eval.resume =>
       \A r \in Range(eval.before) : r.case \in Range(eval.selected) => r \in Range(eval.kept)

(* It writes when every case has ended well or badly, or at the first that *)
(* failed; until then the rows are as they were.                           *)
WriteInv ==
  /\ eval.at # "writing" => results = eval.before
  /\ eval.at \in {"write", "writing"} =>
       /\ \A c \in Range(eval.pending) : verdict[c] \in {"unseen", "passed", "failed"}
       /\ \/ \A c \in Range(eval.pending) : verdict[c] # "unseen"
          \/ eval.failFast /\ \E c \in Range(eval.pending) : verdict[c] = "failed"

EvalInv ==
  /\ OneEach(results)
  /\ verdict \in [Range(Case) -> Verdict]
  /\ eval.at # "off" => PlanInv /\ WriteInv

(* The rows it writes: one of each case, the kept ones among them.         *)
LEMMA NewRowsAreEnded ==
  ASSUME eval.pending \in Seq(Range(Case)), IsInjective(eval.pending)
  PROVE  /\ OneEach(NewRows)
         /\ CasesOf(NewRows) = {c \in Range(eval.pending) : Ended(c)}
         /\ \A r \in Range(NewRows) : r.passed = (verdict[r.case] = "passed")
<1> DEFINE ended == Those(eval.pending, {c \in Range(Case) : Ended(c)})
<1>1. /\ ended \in Seq(Range(Case))
      /\ Range(ended) = Range(eval.pending) \cap {c \in Range(Case) : Ended(c)}
      /\ IsInjective(ended)
  BY ThoseAreThere
<1>2. \A c \in Range(eval.pending) : c \in Range(Case)
  BY LenProperties DEF Range
<1>3. NewRows = [i \in DOMAIN ended |->
                   [case |-> ended[i], passed |-> verdict[ended[i]] = "passed"]]
  BY DEF NewRows
<1> HIDE DEF ended
<1>4. DOMAIN ended = 1..Len(ended) /\ Len(ended) \in Nat
      /\ \A i \in DOMAIN ended : ended[i] \in Range(Case)
  BY <1>1, LenProperties
<1>5. NewRows \in Seq(Row)
  <2>1. NewRows \in [1..Len(ended) -> Row]
    BY <1>3, <1>4 DEF Row
  <2> QED BY <1>4, <2>1, SeqDef
<1>6. DOMAIN NewRows = DOMAIN ended
      /\ \A i \in DOMAIN ended : /\ NewRows[i].case = ended[i]
                                 /\ NewRows[i].passed = (verdict[ended[i]] = "passed")
  BY <1>3
<1>7. OneEach(NewRows)
  BY <1>1, <1>5, <1>6 DEF OneEach, IsInjective
<1>8. CasesOf(NewRows) = Range(ended)
  BY <1>6 DEF CasesOf, Range
<1>9. \A r \in Range(NewRows) : r.passed = (verdict[r.case] = "passed")
  BY <1>6 DEF Range
<1> QED
  BY <1>1, <1>2, <1>7, <1>8, <1>9

LEMMA RowsToWrite ==
  ASSUME EvalInv, eval.at \in {"write", "writing"}, NEW rows, rows = Merged(eval.kept, NewRows)
  PROVE  /\ OneEach(rows)
         /\ CasesOf(rows) \subseteq Range(eval.selected)
         /\ Range(eval.kept) \subseteq Range(rows)
         /\ \/ CasesOf(rows) = Range(eval.selected)
            \/ eval.failFast /\ \E r \in Range(rows) : ~r.passed
<1> USE DEF EvalInv, PlanInv, WriteInv
<1>1. /\ OneEach(NewRows)
      /\ CasesOf(NewRows) = {c \in Range(eval.pending) : Ended(c)}
      /\ \A r \in Range(NewRows) : r.passed = (verdict[r.case] = "passed")
  BY NewRowsAreEnded
<1>2. OneEach(rows) /\ Range(rows) = Range(eval.kept) \cup Range(NewRows)
  <2>1. CasesOf(eval.kept) \cap CasesOf(NewRows) = {} BY <1>1
  <2> QED BY <1>1, <2>1, OneEachConcat DEF Merged
<1>3. CasesOf(rows) = CasesOf(eval.kept) \cup CasesOf(NewRows)
  BY <1>2 DEF CasesOf
<1>4. CASE \A c \in Range(eval.pending) : verdict[c] # "unseen"
  <2>1. CasesOf(NewRows) = Range(eval.pending)
    BY <1>1, <1>4 DEF Ended
  <2> QED BY <1>2, <1>3, <2>1
<1>5. CASE eval.failFast /\ \E c \in Range(eval.pending) : verdict[c] = "failed"
  <2>1. PICK c \in Range(eval.pending) : verdict[c] = "failed"
    BY <1>5
  <2>2. c \in CasesOf(NewRows)
    BY <1>1, <2>1 DEF Ended
  <2>3. PICK r \in Range(NewRows) : r.case = c
    BY <2>2 DEF CasesOf
  <2>4. ~r.passed
    BY <1>1, <2>1, <2>3
  <2> QED BY <1>1, <1>2, <1>3, <1>5, <2>3, <2>4
<1> QED
  BY <1>4, <1>5

-----------------------------------------------------------------------------
(* The start of an evaluation.                                             *)
LEMMA SelectedOnce ==
  ASSUME NEW selected \in Selections
  PROVE  selected \in Seq(Range(Case)) /\ IsInjective(selected)
<1>1. PICK s \in SetToSeqs(Range(Case)), n \in 1..Len(Case) : selected = SubSeq(s, 1, n)
  BY DEF Selections
<1>2. /\ DOMAIN Case = 1..Len(Case) /\ Len(Case) \in Nat
      /\ Case \in [1..Len(Case) -> Range(Case)]
  BY CaseAssumption, LenProperties
<1>3. Cardinality(Range(Case)) = Len(Case)
  <2>1. Case \in Bijection(1..Len(Case), Range(Case))
    BY <1>2, CaseAssumption DEF Bijection, Injection, Surjection, Range
  <2>2. 1 \in Int /\ Len(Case) \in Int BY <1>2
  <2>3. /\ IsFiniteSet(1..Len(Case))
        /\ Cardinality(1..Len(Case)) = IF 1 > Len(Case) THEN 0 ELSE Len(Case) - 1 + 1
    BY <2>2, FS_Interval
  <2>4. Cardinality(1..Len(Case)) = Len(Case) BY <1>2, <2>3
  <2>5. ExistsBijection(1..Len(Case), Range(Case)) BY <2>1 DEF ExistsBijection
  <2> QED BY <2>3, <2>4, <2>5, FS_Bijection
<1>4. /\ s \in [1..Len(Case) -> Range(Case)]
      /\ \A i, j \in 1..Len(Case) : i # j => s[i] # s[j]
  BY <1>3 DEF SetToSeqs
<1>5. n \in Nat /\ \A i \in 1..n : i \in 1..Len(Case) /\ s[i] \in Range(Case)
  BY <1>2, <1>4
<1>6. /\ selected \in Seq(Range(Case)) /\ Len(selected) = n
      /\ \A i \in 1..n : selected[i] = s[i]
  <2>1. /\ SubSeq(s, 1, n) \in Seq(Range(Case))
        /\ Len(SubSeq(s, 1, n)) = IF 1 <= n THEN n - 1 + 1 ELSE 0
        /\ \A i \in 1..n - 1 + 1 : SubSeq(s, 1, n)[i] = s[1 + i - 1]
    BY <1>5, SubSeqProperties
  <2>2. \A i \in 1..n : i \in 1..n - 1 + 1 /\ 1 + i - 1 = i BY <1>5
  <2> QED BY <1>1, <1>5, <2>1, <2>2
<1>7. DOMAIN selected = 1..n
  BY <1>6, LenProperties
<1> QED
  BY <1>4, <1>5, <1>6, <1>7 DEF IsInjective

(* With one row for each case the last of a case is the only one.          *)
LEMMA EarlierRowIs ==
  ASSUME OneEach(results), NEW i \in DOMAIN results
  PROVE  EarlierRow(results[i].case) = results[i]
<1> DEFINE at == {j \in DOMAIN results : results[j].case = results[i].case}
<1>1. DOMAIN results = 1..Len(results) /\ Len(results) \in Nat
  BY LenProperties DEF OneEach
<1>2. at = {i} BY DEF OneEach
<1>3. (CHOOSE j \in at : \A k \in at : k <= j) = i
  <2>1. i <= i BY <1>1
  <2> HIDE DEF at
  <2> QED BY <1>2, <2>1
<1> QED
  BY <1>3 DEF EarlierRow

LEMMA KeptRows ==
  ASSUME OneEach(results), NEW known \in Seq(Range(Case)), IsInjective(known),
         Range(known) \subseteq Earlier,
         NEW kept, kept = [i \in DOMAIN known |-> EarlierRow(known[i])]
  PROVE  /\ OneEach(kept)
         /\ CasesOf(kept) = Range(known)
         /\ \A r \in Range(results) : r.case \in Range(known) => r \in Range(kept)
<1>1. /\ DOMAIN known = 1..Len(known) /\ Len(known) \in Nat
      /\ \A i \in DOMAIN results : results[i] \in Row
  BY LenProperties, ElementOfSeq DEF OneEach
<1>2. ASSUME NEW i \in DOMAIN known
      PROVE  \E j \in DOMAIN results : kept[i] = results[j] /\ results[j].case = known[i]
  <2>1. PICK j \in DOMAIN results : known[i] = results[j].case
    BY DEF Earlier, Range
  <2> QED BY <2>1, EarlierRowIs
<1>3. \A i \in DOMAIN known : kept[i] \in Row /\ kept[i].case = known[i]
  BY <1>1, <1>2
<1>4. DOMAIN kept = DOMAIN known OBVIOUS
<1>5. kept \in Seq(Row)
  <2>1. kept \in [1..Len(known) -> Row] BY <1>1, <1>3
  <2> QED BY <1>1, <2>1, SeqDef
<1>6. OneEach(kept)
  BY <1>3, <1>4, <1>5 DEF OneEach, IsInjective
<1>7. CasesOf(kept) = Range(known)
  BY <1>3, <1>4 DEF CasesOf, Range
<1>8. ASSUME NEW r \in Range(results), r.case \in Range(known) PROVE r \in Range(kept)
  <2>1. PICK j \in DOMAIN results : r = results[j] BY DEF Range
  <2>2. PICK i \in DOMAIN known : r.case = known[i] BY <1>8 DEF Range
  <2>3. kept[i] = r BY <2>1, <2>2, EarlierRowIs
  <2> QED BY <1>4, <2>3 DEF Range
<1> QED
  BY <1>6, <1>7, <1>8

LEMMA StartsStep ==
  ASSUME EvalInv, NEW selected \in Selections, NEW resume \in BOOLEAN, NEW failFast,
         NEW workers, EvalStarts(selected, resume, failFast, workers)
  PROVE  EvalInv'
<1> DEFINE existing == IF resume THEN Earlier ELSE {}
           known    == Those(selected, existing)
           pending  == Those(selected, Range(Case) \ existing)
           kept     == [i \in DOMAIN known |-> EarlierRow(known[i])]
<1>1. eval' = [at |-> IF pending = <<>> THEN "write" ELSE "build",
               selected |-> selected, pending |-> pending, kept |-> kept,
               failFast |-> failFast, workers |-> IF failFast THEN 1 ELSE workers,
               before |-> results, resume |-> resume]
      /\ results' = results /\ verdict' = Unseen
  BY DEF EvalStarts
<1>2. selected \in Seq(Range(Case)) /\ IsInjective(selected)
  BY SelectedOnce
<1>3. /\ known \in Seq(Range(Case)) /\ IsInjective(known)
      /\ Range(known) = Range(selected) \cap existing
      /\ pending \in Seq(Range(Case)) /\ IsInjective(pending)
      /\ Range(pending) = Range(selected) \cap (Range(Case) \ existing)
  BY <1>2, ThoseAreThere
<1>4. \A c \in Range(selected) : c \in Range(Case)
  BY <1>2, LenProperties DEF Range
<1>5. OneEach(results) BY DEF EvalInv
<1>6. Range(known) \subseteq Earlier BY <1>3
<1> HIDE DEF known, pending
<1>7. /\ OneEach(kept)
      /\ CasesOf(kept) = Range(known)
      /\ \A r \in Range(results) : r.case \in Range(known) => r \in Range(kept)
  BY <1>3, <1>5, <1>6, KeptRows
<1> HIDE DEF kept
<1>8. resume => \A r \in Range(results) : r.case \in Range(selected) => r \in Range(kept)
  BY <1>3, <1>7 DEF Earlier, Range
<1>9. pending = <<>> => Range(pending) = {}
  BY DEF Range
<1> HIDE DEF existing
<1>10. PlanInv'
  BY <1>1, <1>3, <1>4, <1>7, <1>8 DEF PlanInv
<1>11. WriteInv'
  BY <1>1, <1>9 DEF WriteInv
<1>12. verdict' \in [Range(Case) -> Verdict]
  BY <1>1 DEF Unseen, Verdict
<1> QED
  BY <1>1, <1>5, <1>10, <1>11, <1>12 DEF EvalInv

LEMMA EvalInvInit == Init => EvalInv
<1>1. OneEach(<<>>)
  <2>1. <<>> \in Seq(Row) /\ DOMAIN <<>> = {}
    BY EmptySeq
  <2> QED BY <2>1 DEF OneEach
<1> QED
  BY <1>1 DEF Init, EvalInit, EvalInv, NoEval, Unseen, Verdict

(* A step from one place of the evaluation to another, with what it was    *)
(* started with as it was.                                                 *)
LEMMA PlanKept ==
  ASSUME PlanInv, NEW a \in {"build", "run", "write", "writing"}, eval' = [eval EXCEPT !.at = a]
  PROVE  PlanInv' /\ eval'.at = a /\ eval'.pending = eval.pending /\ eval'.before = eval.before
         /\ eval'.failFast = eval.failFast
<1>1. eval' = [at |-> a, selected |-> eval.selected, pending |-> eval.pending,
               kept |-> eval.kept, failFast |-> eval.failFast, workers |-> eval.workers,
               before |-> eval.before, resume |-> eval.resume]
  BY DEF PlanInv
<1> QED
  BY <1>1 DEF PlanInv

LEMMA RunStep ==
  ASSUME EvalInv, eval.at = "run", NEW c, NEW v \in Verdict,
         verdict' = [verdict EXCEPT ![c] = v], UNCHANGED <<eval, results>>
  PROVE  EvalInv'
<1>1. verdict' \in [Range(Case) -> Verdict]
  BY DEF EvalInv
<1>2. PlanInv' /\ WriteInv'
  BY DEF EvalInv, PlanInv, WriteInv
<1> QED
  BY <1>1, <1>2 DEF EvalInv

LEMMA EvalInvStep == EvalInv /\ [Next]_vars => EvalInv'
<1> SUFFICES ASSUME EvalInv, [Next]_vars PROVE EvalInv'
  OBVIOUS
<1>1. ASSUME UNCHANGED <<eval, verdict, results>>
      PROVE  EvalInv'
  BY <1>1 DEF EvalInv, PlanInv, WriteInv
<1>2. ASSUME NEW selected \in Selections, NEW resume \in BOOLEAN, NEW failFast \in BOOLEAN,
             NEW workers \in Workers, EvalStarts(selected, resume, failFast, workers)
      PROVE  EvalInv'
  BY <1>2, StartsStep
<1>3. ASSUME EvalBuilds
      PROVE  EvalInv'
  <2>1. PlanInv /\ WriteInv /\ eval.at = "build"
    BY <1>3 DEF EvalBuilds, EvalInv
  <2>2. PICK a \in {"build", "run"} : eval' = [eval EXCEPT !.at = a]
    BY <1>3 DEF EvalBuilds
  <2>3. PlanInv' /\ eval'.at = a /\ eval'.before = eval.before
    BY <2>1, <2>2, PlanKept
  <2>4. UNCHANGED <<verdict, results>>
    BY <1>3 DEF EvalBuilds
  <2> QED BY <2>1, <2>3, <2>4 DEF WriteInv, EvalInv
<1>4. ASSUME NEW k \in DOMAIN Case, CaseStarts(k)
      PROVE  EvalInv'
  BY <1>4, RunStep DEF CaseStarts, Verdict
<1>5. ASSUME NEW c \in Range(Case), NEW answer \in {"passed", "failed"}, NEW persona \in Persona,
             CaseAnswers(c, answer, persona)
      PROVE  EvalInv'
  <2>1. eval.at = "run" /\ verdict' = [verdict EXCEPT ![c] = answer]
        /\ UNCHANGED <<eval, results>> /\ answer \in Verdict
    BY <1>5 DEF CaseAnswers, Verdict
  <2> QED BY <2>1, RunStep
<1>6. ASSUME NEW c \in Range(Case), CaseRaises(c)
      PROVE  EvalInv'
  <2>1. eval.at = "run" /\ verdict' = [verdict EXCEPT ![c] = "raised"]
        /\ UNCHANGED <<eval, results>> /\ "raised" \in Verdict
    BY <1>6 DEF CaseRaises, Verdict
  <2> QED BY <2>1, RunStep
<1>7. ASSUME CasesEnd
      PROVE  EvalInv'
  <2>1. PlanInv /\ WriteInv /\ eval.at = "run"
    BY <1>7 DEF CasesEnd, EvalInv
  <2>2. /\ PlanInv' /\ eval'.at = "write" /\ eval'.before = eval.before
        /\ eval'.pending = eval.pending /\ eval'.failFast = eval.failFast
    <3>1. eval' = [eval EXCEPT !.at = "write"] BY <1>7 DEF CasesEnd
    <3> QED BY <2>1, <3>1, PlanKept
  <2>3. UNCHANGED <<verdict, results>>
    BY <1>7 DEF CasesEnd
  <2>4. \A c \in Range(eval.pending) : verdict[c] \in {"unseen", "passed", "failed"}
    <3>1. \A c \in Range(eval.pending) : c \in Range(Case)
      BY <2>1, LenProperties DEF PlanInv, Range
    <3>2. \A c \in Range(eval.pending) : verdict[c] \notin {"running", "raised"}
      BY <1>7 DEF CasesEnd, Of
    <3> QED BY <3>1, <3>2 DEF EvalInv, Verdict
  <2>5. \/ \A c \in Range(eval.pending) : verdict[c] # "unseen"
        \/ eval.failFast /\ \E c \in Range(eval.pending) : verdict[c] = "failed"
    <3>1. CASE Of("unseen") = {}
      BY <3>1 DEF Of
    <3>2. CASE Stopped
      <4>1. \A k \in DOMAIN eval.pending : verdict[eval.pending[k]] # "raised"
        BY <1>7 DEF CasesEnd, Of, Range
      <4> QED BY <3>2, <4>1 DEF Stopped, Of
    <3> QED BY <1>7, <3>1, <3>2 DEF CasesEnd
  <2> QED BY <2>1, <2>2, <2>3, <2>4, <2>5 DEF WriteInv, EvalInv
<1>8. ASSUME EvalDies
      PROVE  EvalInv'
  BY <1>8 DEF EvalDies, EvalInv, NoEval, Unseen, Verdict
<1>9. ASSUME NEW n \in 0..(Len(Case) - 1), NEW torn \in BOOLEAN, EvalOpens(n, torn)
      PROVE  EvalInv'
  <2> DEFINE rows == Merged(eval.kept, NewRows)
  <2>1. PlanInv /\ WriteInv /\ eval.at = "write"
    BY <1>9 DEF EvalOpens, EvalInv
  <2>2. /\ PlanInv' /\ eval'.at = "writing" /\ eval'.pending = eval.pending
        /\ eval'.failFast = eval.failFast
    <3>1. eval' = [eval EXCEPT !.at = "writing"] BY <1>9 DEF EvalOpens
    <3> QED BY <2>1, <3>1, PlanKept
  <2>3. results' = SubSeq(rows, 1, n) /\ n < Len(rows) /\ verdict' = verdict
    BY <1>9 DEF EvalOpens
  <2>4. OneEach(rows)
    BY <2>1, RowsToWrite
  <2> HIDE DEF rows
  <2>5. OneEach(results')
    <3>1. Len(rows) \in Nat BY <2>4, LenProperties DEF OneEach
    <3>2. Len(Case) \in Nat BY CaseAssumption, LenProperties
    <3>3. n \in Nat /\ n <= Len(rows) BY <2>3, <3>1, <3>2
    <3> QED BY <2>3, <2>4, <3>3, OneEachPrefix
  <2> QED BY <2>1, <2>2, <2>3, <2>5 DEF WriteInv, EvalInv, OneEach
<1>10. ASSUME EvalWrites
       PROVE  EvalInv'
  <2>1. /\ results' = Merged(eval.kept, NewRows) /\ eval'.at = "off" /\ verdict' = Unseen
        /\ eval.at = "writing"
    BY <1>10 DEF EvalWrites, NoEval
  <2>2. OneEach(results')
    BY <2>1, RowsToWrite
  <2> QED BY <2>1, <2>2 DEF EvalInv, Unseen, Verdict, OneEach
<1> QED
  BY <1>1, <1>2, <1>3, <1>4, <1>5, <1>6, <1>7, <1>8, <1>9, <1>10
  DEF Next, OthersNext, EvalNext, EvalLearns, evalVars, vars

(* Whatever the dataset, the selections and the number of threads: an      *)
(* evaluation that completes has written one row for each case selected,   *)
(* or stopped at a failure it was told to stop at; one that ends before it *)
(* writes has left the rows alone (eval/runner.py, _run_real_eval_cases).  *)
THEOREM EvalKeepsAndCompletesSafe == Spec => EvalKeepsAndCompletes
<1> DEFINE KeepsAndCompletes ==
      eval.at # "off" /\ eval'.at = "off" =>
       CASE eval'.outcome = "written" ->
              LET rows == Range(results')
                  cases == {r.case : r \in rows}
              IN /\ Len(results') = Cardinality(cases)
                 /\ cases \subseteq Range(eval.selected)
                 /\ \/ cases = Range(eval.selected)
                    \/ eval.failFast /\ \E r \in rows : ~r.passed
                 /\ eval.resume =>
                      {r \in Range(eval.before) : r.case \in Range(eval.selected)} \subseteq rows
         [] eval'.outcome = "failed" -> results' = eval.before
         [] OTHER -> TRUE
<1>1. EvalInv /\ [Next]_vars => [KeepsAndCompletes]_vars
  <2> SUFFICES ASSUME EvalInv, Next, eval.at # "off", eval'.at = "off" PROVE KeepsAndCompletes
    OBVIOUS
  <2>1. PlanInv /\ WriteInv
    BY DEF EvalInv
  <2>2. EvalDies \/ EvalWrites
    <3>1. ~OthersNext
      BY DEF OthersNext, evalVars
    <3>2. ~EvalBuilds
      <4>1. ASSUME EvalBuilds PROVE FALSE
        <5>1. PICK a \in {"build", "run"} : eval' = [eval EXCEPT !.at = a]
          BY <4>1 DEF EvalBuilds
        <5> QED BY <2>1, <5>1, PlanKept
      <4> QED BY <4>1
    <3>3. ~CasesEnd /\ \A n, torn : ~EvalOpens(n, torn)
      BY <2>1, PlanKept DEF CasesEnd, EvalOpens
    <3> QED
      BY <3>1, <3>2, <3>3 DEF Next, EvalNext, EvalStarts, CaseStarts, CaseAnswers, CaseRaises,
         EvalLearns, evalVars
  <2>3. CASE EvalDies
    <3>1. results' = results /\ eval' = NoEval(IF eval.at = "writing" THEN "killed" ELSE "failed")
      BY <2>3 DEF EvalDies
    <3> QED BY <2>1, <3>1 DEF NoEval, WriteInv
  <2>4. CASE EvalWrites
    <3>1. /\ results' = Merged(eval.kept, NewRows) /\ eval.at = "writing"
          /\ eval'.outcome = "written"
      BY <2>4 DEF EvalWrites, NoEval
    <3>2. /\ OneEach(results')
          /\ CasesOf(results') \subseteq Range(eval.selected)
          /\ Range(eval.kept) \subseteq Range(results')
          /\ \/ CasesOf(results') = Range(eval.selected)
             \/ eval.failFast /\ \E r \in Range(results') : ~r.passed
      BY <3>1, RowsToWrite
    <3>3. Len(results') = Cardinality(CasesOf(results'))
      BY <3>2, OneEachCounts
    <3>4. eval.resume =>
            {r \in Range(eval.before) : r.case \in Range(eval.selected)} \subseteq Range(results')
      BY <2>1, <3>2 DEF PlanInv
    <3> QED BY <3>1, <3>2, <3>3, <3>4 DEF CasesOf
  <2> QED BY <2>2, <2>3, <2>4
<1> QED
  BY <1>1, EvalInvInit, EvalInvStep, PTL DEF Spec, EvalKeepsAndCompletes
=============================================================================
