------------------------------ MODULE MCSignIn ------------------------------
(* Instances of SignIn for TLC. *)
EXTENDS SignIn, TLC

CONSTANTS s1, s2, s3, w1, w2

\* The two kinds of sign-in share nothing, so each is run by itself.
SameDuty == {[w \in Worker |-> d] : d \in {"browser", "session_key"}}

\* State strings are random, and goroutines are alike.
Symmetry == Permutations(State) \union Permutations(Worker)
=============================================================================
