------------------------------- MODULE SessionLife -------------------------------
(***************************************************************************)
(* What refresh token rotation promises about a session, with no Redis,    *)
(* index or clock in sight: a session is opened once and, once over, is    *)
(* over; while it is open exactly one token opens it, and a token that has *)
(* been replaced never does so again.                                      *)
(***************************************************************************)
CONSTANTS Family, Token, NoToken

VARIABLES
    session,     \* session[f]: "none", "open" or "over"
    current,     \* current[f]: the token that opens it
    replaced     \* replaced[f]: the tokens that used to

sessionVars == <<session, current, replaced>>

Init ==
    /\ session = [f \in Family |-> "none"]
    /\ current = [f \in Family |-> NoToken]
    /\ replaced = [f \in Family |-> {}]

Open(f) ==
    /\ session[f] = "none"
    /\ session' = [session EXCEPT ![f] = "open"]
    /\ \E t \in Token : current' = [current EXCEPT ![f] = t]
    /\ UNCHANGED replaced

Exchange(f) ==
    /\ session[f] = "open"
    /\ replaced' = [replaced EXCEPT ![f] = @ \cup {current[f]}]
    /\ \E t \in Token \ replaced'[f] : current' = [current EXCEPT ![f] = t]
    /\ UNCHANGED session

\* A session may also be over before it began: its login failed.
End(f) ==
    /\ session[f] /= "over"
    /\ session' = [session EXCEPT ![f] = "over"]
    /\ current' = [current EXCEPT ![f] = NoToken]
    /\ UNCHANGED replaced

\* Several sessions may end at once.
Expire ==
    \E F \in SUBSET Family :
        /\ \A f \in F : session[f] = "open"
        /\ session' = [f \in Family |-> IF f \in F THEN "over" ELSE session[f]]
        /\ current' = [f \in Family |-> IF f \in F THEN NoToken ELSE current[f]]
        /\ UNCHANGED replaced

Next == Expire \/ \E f \in Family : Open(f) \/ Exchange(f) \/ End(f)

Spec == Init /\ [][Next]_sessionVars

===============================================================================
