----------------------------- MODULE EvalRunner -----------------------------
(***************************************************************************)
(* The real evaluation (agent_service/eval/runner.py): the process "eval"  *)
(* builds an application of its own over the same files and the same style *)
(* index as the service, answers the cases of a dataset with it, one after *)
(* another or on a few threads, and rewrites the file of results.          *)
(***************************************************************************)
EXTENDS StyleDataset, SequencesExt

CONSTANTS
  Case,      \* the cases, in the order of the dataset
  Expecting, \* cases that expect the id of some style sample
  Workers,   \* numbers of threads asked for
  MaxEvals   \* bound: evaluations started

(* Each case has an id of its own, as those of the dataset that is kept    *)
(* with the code do; the loader (cases.py:98-121) does not check it, and   *)
(* rows of two cases with one id would be taken for each other's.          *)
ASSUME CaseAssumption ==
  /\ "eval" \in Process /\ Case \in Seq(Range(Case)) /\ IsInjective(Case)
  /\ Expecting \subseteq Range(Case) /\ Workers \subseteq Nat \ {0}

VARIABLES
  eval,     \* the evaluation that runs, if one does
  verdict,  \* what came of each case of it
  results,  \* rows of the results file
  cut,      \* the last row of the file is not whole
  evals     \* number of evaluations so far

evalVars == <<eval, verdict, results, cut, evals>>
vars == <<styleVars, evalVars>>

(* Mutant: the rows the file had are left out.                             *)
OnlyNew(kept, new) == new
(* The rows there were, in the order of the selection, and the new ones.   *)
Merged(kept, new) == kept \o new

NoEval(outcome) == [at |-> "off", outcome |-> outcome]
Unseen == [c \in Range(Case) |-> "unseen"]

EvalInit ==
  /\ eval = NoEval("none") /\ verdict = Unseen
  /\ results = <<>> /\ cut = FALSE
  /\ evals = 0

(* _load_existing_real_results: the last row of a case. *)
Earlier == {results[i].case : i \in DOMAIN results}
EarlierRow(c) ==
  LET at == {i \in DOMAIN results : results[i].case = c}
  IN results[CHOOSE i \in at : \A j \in at : j <= i]

(* _select_real_cases: the dataset in its order, or shuffled by a seed,    *)
(* cut to the maximum.                                                     *)
Selections == {SubSeq(s, 1, n) : s \in SetToSeqs(Range(Case)), n \in 1..Len(Case)}

(* The members of s that are in S, in their order.                         *)
Those(s, S) ==
  LET at == {i \in DOMAIN s : s[i] \in S}
  IN [n \in 1..Cardinality(at) |-> s[CHOOSE i \in at : Place(at, i) = n]]

(* What is left to do.  A file that cannot be read fails a resumed run.    *)
EvalStarts(selected, resume, failFast, workers) ==
  /\ eval.at = "off" /\ evals < MaxEvals
  /\ resume => ~cut
  /\ LET existing == IF resume THEN Earlier ELSE {}
         pending  == Those(selected, Range(Case) \ existing)
         known    == Those(selected, existing)
     IN eval' = [at |-> IF pending = <<>> THEN "write" ELSE "build",
                 selected |-> selected, pending |-> pending,
                 kept |-> [i \in DOMAIN known |-> EarlierRow(known[i])],
                 failFast |-> failFast, workers |-> IF failFast THEN 1 ELSE workers,
                 \* history
                 before |-> results, resume |-> resume]
  /\ verdict' = Unseen
  /\ evals' = evals + 1
  /\ Elsewhere
  /\ UNCHANGED <<results, cut>>

(* create_app: the style store of the evaluation is built like a service's. *)
EvalBuilds ==
  /\ eval.at = "build"
  /\ StoreOpens("eval") \/ StoreLoads("eval") \/ StoreIndexes("eval")
  /\ eval' = [eval EXCEPT !.at = IF service'["eval"].at = "up" THEN "run" ELSE "build"]
  /\ UNCHANGED <<verdict, results, cut, evals>>

-----------------------------------------------------------------------------
Of(v) == {c \in Range(eval.pending) : verdict[c] = v}
Ended(c) == verdict[c] \in {"passed", "failed", "raised"}

(* The first failure of a fail-fast run; or the exception of a case whose  *)
(* predecessors have all ended, upon which the calls not yet begun are     *)
(* cancelled.                                                              *)
Stopped ==
  \/ eval.failFast /\ Of("failed") # {}
  \/ \E k \in DOMAIN eval.pending :
       verdict[eval.pending[k]] = "raised" /\ \A j \in 1..k : Ended(eval.pending[j])

CaseStarts(k) ==
  /\ eval.at = "run" /\ ~Stopped
  /\ k \in DOMAIN eval.pending
  /\ verdict[eval.pending[k]] = "unseen"
  /\ \A j \in 1..(k - 1) : verdict[eval.pending[j]] # "unseen"
  /\ Cardinality(Of("running")) < eval.workers
  /\ verdict' = [verdict EXCEPT ![eval.pending[k]] = "running"]
  /\ Elsewhere
  /\ UNCHANGED <<eval, results, cut, evals>>

(* The workflow answers.  A case that expects the id of a sample fails     *)
(* without one.                                                            *)
CaseAnswers(c, answer, persona) ==
  /\ eval.at = "run" /\ verdict[c] = "running"
  /\ IF c \in Expecting
       THEN Retrieve("eval", persona) /\ (answer = "passed" => retrieved'.samples # {})
       ELSE Elsewhere
  /\ verdict' = [verdict EXCEPT ![c] = answer]
  /\ UNCHANGED <<eval, results, cut, evals>>

(* A store or a model raises: the collection was deleted, say. *)
CaseRaises(c) ==
  /\ eval.at = "run" /\ verdict[c] = "running"
  /\ verdict' = [verdict EXCEPT ![c] = "raised"]
  /\ Elsewhere
  /\ UNCHANGED <<eval, results, cut, evals>>

(* The answers of the evaluation are learned from like those of a service. *)
EvalLearns(n, persona, t) ==
  /\ eval.at = "run" /\ Of("running") # {}
  /\ Learn("eval", n, persona, t)
  /\ UNCHANGED evalVars

(* All have ended. *)
CasesEnd ==
  /\ eval.at = "run" /\ Of("running") = {} /\ Of("raised") = {}
  /\ Stopped \/ Of("unseen") = {}
  /\ eval' = [eval EXCEPT !.at = "write"]
  /\ Elsewhere
  /\ UNCHANGED <<verdict, results, cut, evals>>

(* The process ends: with the exception of a case, or killed at any time.  *)
EvalDies ==
  /\ eval.at # "off"
  /\ eval' = NoEval(IF eval.at = "writing" THEN "killed" ELSE "failed")
  /\ verdict' = Unseen
  /\ IF service["eval"].at = "off" THEN Elsewhere ELSE StoreStops("eval")
  /\ UNCHANGED <<results, cut, evals>>

-----------------------------------------------------------------------------
(* _write_real_results *)
NewRows ==
  LET ended == Those(eval.pending, {c \in Range(Case) : Ended(c)})
  IN [i \in DOMAIN ended |-> [case |-> ended[i], passed |-> verdict[ended[i]] = "passed"]]

(* The file is opened, which empties it; part of it may be written.        *)
EvalOpens(n, torn) ==
  /\ eval.at = "write"
  /\ n < Len(Merged(eval.kept, NewRows))
  /\ results' = SubSeq(Merged(eval.kept, NewRows), 1, n)
  /\ cut' = torn
  /\ eval' = [eval EXCEPT !.at = "writing"]
  /\ Elsewhere
  /\ UNCHANGED <<verdict, evals>>

EvalWrites ==
  /\ eval.at = "writing"
  /\ results' = Merged(eval.kept, NewRows)
  /\ cut' = FALSE
  /\ eval' = NoEval("written")
  /\ verdict' = Unseen
  /\ IF service["eval"].at = "off" THEN Elsewhere ELSE StoreStops("eval")
  /\ UNCHANGED evals

EvalNext ==
  \/ \E selected \in Selections, resume, failFast \in BOOLEAN, workers \in Workers :
       EvalStarts(selected, resume, failFast, workers)
  \/ EvalBuilds
  \/ \E k \in DOMAIN Case : CaseStarts(k)
  \/ \E c \in Range(Case), answer \in {"passed", "failed"}, persona \in Persona :
       CaseAnswers(c, answer, persona)
  \/ \E c \in Range(Case) : CaseRaises(c)
  \/ \E n \in Reply, persona \in Persona, t \in Answer : EvalLearns(n, persona, t)
  \/ CasesEnd \/ EvalDies
  \/ \E n \in 0..(Len(Case) - 1), torn \in BOOLEAN : EvalOpens(n, torn)
  \/ EvalWrites

OthersNext ==
  /\ ScriptNext \/ OperatorNext \/ \E p \in Process \ {"eval"} : StoreNext(p)
  /\ UNCHANGED evalVars

Init == StyleInit /\ EvalInit
Next == OthersNext \/ EvalNext
Spec == Init /\ [][Next]_vars
=============================================================================
