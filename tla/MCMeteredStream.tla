--------------------------- MODULE MCMeteredStream ---------------------------
(* Instances of MeteredStream for TLC. *)
EXTENDS MeteredStream, TLC

\* Usage objects with a total, with parts, with both, and with an old name.
Starts ==
    {"input" :> 2 @@ "output" :> 1 @@ "creation" :> 3 @@ "five" :> 1 @@ "hour" :> 1,
     "input" :> 1 @@ "five" :> 1 @@ "hour" :> 1,
     "input" :> 2 @@ "cached" :> 1 @@ "creation" :> 2}

Deltas ==
    {"input" :> 0 @@ "output" :> 2 @@ "creation" :> 0 @@ "hour" :> 0,
     "output" :> 3 @@ "read" :> 1 @@ "five" :> 2 @@ "hour" :> 2,
     "creation" :> 3}
=============================================================================
