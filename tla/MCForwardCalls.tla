---------------------------- MODULE MCForwardCalls ----------------------------
(* Instances of ForwardCalls for TLC. *)
EXTENDS ForwardCalls, TLC

CONSTANTS k, o, b, e, u,   \* accounts
          r1, r2           \* requests

\* b has nothing but an access token, e not even that; README.md lists u's type.
Types == k :> "apikey" @@ o :> "oauth" @@ b :> "session_key" @@ e :> "oauth" @@ u :> "setup_token"
Mixed == {{k, o}, {b, o}, {b, e}, {o, u}}

\* An accepted CLI, and one whose user id has the format of newer versions.
Genuine  == {"cli", "version", "beta", "app", "user_id", "prompt"}
TwoClients == {Genuine, Genuine \ {"user_id"}}

Symmetry == Permutations(Requests)
=============================================================================
