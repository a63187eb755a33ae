---------------------------- MODULE MCHumanReview ----------------------------
(* Small instances of the human review for TLC. *)
EXTENDS HumanReviewProps, Naturals, TLC

RequestSymmetry == Permutations(ChatRequest) \cup Permutations(ReviewRequest)
                     \cup Permutations(Text)

(* Bound: beside a second chat request there are at most two review        *)
(* requests; beside a single one all of them.                              *)
TwoChatsScope ==
  (\A c \in ChatRequest : at[c] # "idle") =>
    Cardinality({r \in ReviewRequest : at[r] # "idle"}) <= 2
=============================================================================
