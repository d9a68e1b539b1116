---------------------------- MODULE OneTimeTickets ----------------------------
(***************************************************************************)
(* What the OAuth session store promises to whoever starts a browser        *)
(* authorisation: the state string of the link is a ticket that can be      *)
(* redeemed once.  A ticket that was redeemed, or that was voided because   *)
(* it expired or got lost, is never open again.                             *)
(***************************************************************************)
EXTENDS Integers

CONSTANT Ticket

VARIABLES
    ticket,  \* none, open, redeemed or void
    uses     \* how often it was exchanged for a token

Init ==
    /\ ticket = [t \in Ticket |-> "none"]
    /\ uses = [t \in Ticket |-> 0]

\* A ticket is opened; others may be voided on that occasion, to make room.
Open(t, gone) ==
    /\ ticket[t] = "none"
    /\ \A g \in gone : ticket[g] = "open"
    /\ ticket' = [x \in Ticket |-> IF x = t THEN "open"
                                   ELSE IF x \in gone THEN "void" ELSE ticket[x]]
    /\ UNCHANGED uses

Redeem(t) ==
    /\ ticket[t] = "open"
    /\ ticket' = [ticket EXCEPT ![t] = "redeemed"]
    /\ uses' = [uses EXCEPT ![t] = @ + 1]

Void(gone) ==
    /\ \A g \in gone : ticket[g] \in {"none", "open"}
    /\ ticket' = [x \in Ticket |-> IF x \in gone THEN "void" ELSE ticket[x]]
    /\ UNCHANGED uses

Next ==
    \/ \E t \in Ticket, gone \in SUBSET Ticket : Open(t, gone)
    \/ \E t \in Ticket : Redeem(t)
    \/ \E gone \in SUBSET Ticket : Void(gone)

Spec == Init /\ [][Next]_<<ticket, uses>>

\* No ticket buys two tokens.
RedeemedOnce == \A t \in Ticket : uses[t] <= 1
=============================================================================
