-------------------------- MODULE PairingLifecycle --------------------------
(***************************************************************************)
(* What the device flow promises of one-time codes: a code is created,     *)
(* approved, redeemed for one token while it is approved, or expires.      *)
(* Implemented by Pairing.                                                 *)
(***************************************************************************)
CONSTANT Codes

VARIABLES
    status,     \* what a poll of the code answers
    redeeming,  \* codes whose redemption was accepted and is not over
    tokens      \* codes a token was issued for

vars == <<status, redeeming, tokens>>

\* A code nobody created answers "expired" like one that did expire.
Init ==
    /\ status = [c \in Codes |-> "expired"]
    /\ redeeming = {}
    /\ tokens = {}

Moves(c, from, to) ==
    /\ status[c] \in from
    /\ status' = [status EXCEPT ![c] = to]

Create(c) ==
    /\ c \notin tokens \cup redeeming
    /\ Moves(c, {"expired"}, "pending")
    /\ UNCHANGED <<redeeming, tokens>>

Approve(c) ==
    /\ c \notin redeeming
    /\ Moves(c, {"pending", "approved"}, "approved")
    /\ UNCHANGED <<redeeming, tokens>>

Expire(c) ==
    /\ Moves(c, {"pending", "approved"}, "expired")
    /\ UNCHANGED <<redeeming, tokens>>

Redeem(c) ==
    /\ status[c] = "approved" /\ c \notin redeeming
    /\ redeeming' = redeeming \cup {c}
    /\ UNCHANGED <<status, tokens>>

\* A redemption that was accepted in time may end after the code's expiry.
Consume(c) ==
    /\ c \in redeeming /\ c \notin tokens
    /\ Moves(c, {"approved", "expired"}, "consumed")
    /\ redeeming' = redeeming \ {c}
    /\ tokens' = tokens \cup {c}

\* Redemptions end without a token: a name conflict, a rollback, a crash.
GiveUp ==
    /\ redeeming' \subseteq redeeming /\ redeeming' # redeeming
    /\ UNCHANGED <<status, tokens>>

Next ==
    \/ \E c \in Codes : Create(c) \/ Approve(c) \/ Expire(c) \/ Redeem(c) \/ Consume(c)
    \/ GiveUp

Spec == Init /\ [][Next]_vars
=============================================================================
