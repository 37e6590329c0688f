--------------------------- MODULE RefreshTokenRotation ---------------------------
(***************************************************************************)
(* AuthService with rotation enabled: logins, refreshes, logouts and       *)
(* logouts of all devices, each a sequence of Redis commands between which *)
(* any other call may run, and the passing of time.                        *)
(***************************************************************************)
EXTENDS RefreshTokenStore, FiniteSets

CONSTANTS
    Call,         \* slots for calls in flight
    NoFamily,     \* the family of a call that names none
    Careful,      \* the families whose client is careful with their tokens
    Scenario      \* what is possible in a behaviour, see scenario

\* What may go wrong: "refused" and "unacked" are the failed outcomes of a Redis
\* command; "lost_reply": a client may not get the answer to its call.
Events == {"refused", "unacked", "lost_reply"}
Scenarios == [events : SUBSET Events, families : SUBSET Family, calls : Nat]

ASSUME NoFamilyAssumption == NoFamily \notin Family
ASSUME ScenarioAssumption == Scenario \subseteq Scenarios

VARIABLES
    scenario,    \* the one of this behaviour: what may go wrong, the families
                 \* that are opened, bound: how many calls may be in flight
    call,        \* the service call each slot is running
    generated,   \* generated[f]: how many tokens of the family were generated
    given,       \* given[f]: the tokens clients have received
    replaced     \* history; replaced[f]: the tokens the store has replaced

vars == <<stored, members, indexTTL, scenario, call, generated, given, replaced>>

\* What a call returns: nil, one of the apperrors, or another error.
Codes == {"none", "ok", "invalid", "expired", "reused", "error"}

\* The command a call is about to send, or "reply".
Steps == {"set", "sadd", "expire", "get", "rotate", "lookup", "srem", "del",
          "smembers", "sweep", "reply"}

\* token is the one presented, fresh the one generated; of the families a
\* logout-all has listed, those in left are still to be deleted.
NoCall == [pc |-> "idle", op |-> "none", user |-> NoUser, family |-> NoFamily,
           token |-> NoToken, fresh |-> NoToken, listed |-> {}, left |-> {}, code |-> "none"]
InFlight ==
    [pc : Steps, op : {"login", "refresh", "logout", "logout_all"},
     user : User \cup {NoUser}, family : Family \cup {NoFamily},
     token : Token \cup {NoToken}, fresh : Token \cup {NoToken},
     listed : SUBSET Family, left : SUBSET Family, code : Codes]

TypeOK ==
    /\ StoreTypeOK
    /\ scenario \in Scenario
    /\ call \in [Call -> InFlight \cup {NoCall}]
    /\ generated \in [Family -> 0 .. MaxTokens]
    /\ given \in [Family -> SUBSET Token]
    /\ replaced \in [Family -> SUBSET Token]

Init ==
    /\ StoreInit
    /\ scenario \in Scenario
    /\ call = [c \in Call |-> NoCall]
    /\ generated = [f \in Family |-> 0]
    /\ given = [f \in Family |-> {}]
    /\ replaced = [f \in Family |-> {}]

\* How a write may end; a read has no effect to lose, it is answered or not.
Outcomes == {"ok"} \cup (scenario.events \cap {"refused", "unacked"})
ReadMayFail == Outcomes /= {"ok"}

Goto(c, pc) == call' = [call EXCEPT ![c].pc = pc]
Reply(c, code) == call' = [call EXCEPT ![c].pc = "reply", ![c].code = code]

Starts(c, record) ==
    /\ call[c] = NoCall
    /\ Cardinality({d \in Call : call[d] /= NoCall}) < scenario.calls
    /\ call' = [call EXCEPT ![c] = record]

clientVars == <<given, replaced, scenario>>

-------------------------------------------------------------------------------
(* Login and Register, from the point where they generate a token.         *)

Login(c, u, f) ==
    /\ f \in scenario.families /\ generated[f] = 0
    /\ generated' = [generated EXCEPT ![f] = 1]
    /\ Starts(c, [NoCall EXCEPT !.pc = "set", !.op = "login", !.user = u,
                                !.family = f, !.fresh = 1])
    /\ UNCHANGED <<storeVars, clientVars>>

\* ExpiresAt is computed just before; a command that is long under way makes
\* it shorter than the life of the key, never longer.
StoreFamily(c) ==
    /\ call[c].pc = "set"
    /\ \E outcome \in Outcomes :
         /\ SetFamily(call[c].family, call[c].user, call[c].fresh, outcome)
         /\ IF outcome = "ok" THEN Goto(c, "sadd") ELSE Reply(c, "error")
    /\ UNCHANGED <<generated, clientVars>>

\* Best effort: the login succeeds even if the index does not take the family.
IndexFamily(c) ==
    /\ call[c].pc = "sadd"
    /\ \E outcome \in Outcomes :
         /\ AddToIndex(call[c].user, call[c].family, outcome)
         /\ IF outcome = "ok" THEN Goto(c, "expire") ELSE Reply(c, "ok")
    /\ UNCHANGED <<generated, clientVars>>

RenewIndex(c) ==
    /\ call[c].pc = "expire"
    /\ \E outcome \in Outcomes : ExpireIndex(call[c].user, outcome)
    /\ Reply(c, "ok")
    /\ UNCHANGED <<generated, clientVars>>

-------------------------------------------------------------------------------
(* refreshWithRotation and performRotation.                                *)

\* A careful client presents the last token it received, and waits for the
\* answer to one refresh before it sends another; any other presents whatever
\* it was ever given, even the same token twice at once.
MayPresent(f, token) ==
    /\ token \in given[f]
    /\ \/ f \notin Careful
       \/ /\ \A t \in given[f] : t <= token
          /\ \A c \in Call : ~(call[c].op = "refresh" /\ call[c].family = f)

Refresh(c, f, token) ==
    /\ MayPresent(f, token)
    /\ Starts(c, [NoCall EXCEPT !.pc = "get", !.op = "refresh", !.family = f, !.token = token])
    /\ UNCHANGED <<storeVars, generated, clientVars>>

\* How the token presented compares with what was read.
Verdict(f, token) ==
    LET alive == Held(f) /\ stored[f].expiresIn > 0
        current == stored[f].current = token
    IN  CASE Held(f) /\ ~alive                                    -> "expired"
          [] alive /\ current                                     -> "current"
          [] alive /\ ~current /\ stored[f].previous = token      -> "reused"
          [] OTHER                                                -> "invalid"

ReadFamily(c) ==
    LET verdict == Verdict(call[c].family, call[c].token)
    IN  /\ call[c].pc = "get"
        /\ \/ verdict = "invalid" /\ Reply(c, "invalid")
           \/ ReadMayFail /\ Reply(c, "invalid")
           \/ verdict = "current" /\ Goto(c, "rotate")
           \/ /\ verdict \in {"expired", "reused"}
              /\ call' = [call EXCEPT ![c].pc = "lookup", ![c].code = verdict]
        /\ UNCHANGED <<storeVars, generated, clientVars>>

\* The store replaces whatever token is current by now, if there still is one.
Rotate(c) ==
    LET f == call[c].family
        fresh == generated[f] + 1
    IN  /\ call[c].pc = "rotate"
        /\ generated[f] < MaxTokens
        /\ generated' = [generated EXCEPT ![f] = fresh]
        /\ \E outcome \in Outcomes :
             /\ RotateScript(f, fresh, outcome)
             /\ replaced' = IF Held(f) /\ outcome /= "refused"
                              THEN [replaced EXCEPT ![f] = @ \cup {stored[f].current}]
                              ELSE replaced
             /\ IF Held(f) /\ outcome = "ok"
                  THEN call' = [call EXCEPT ![c].pc = "reply", ![c].code = "ok",
                                            ![c].fresh = fresh]
                  ELSE Reply(c, "error")
        /\ UNCHANGED <<given, scenario>>

-------------------------------------------------------------------------------
(* refreshTokenStore.Delete: on logout, on expiry, and when a token that    *)
(* was replaced is presented.  Its errors are ignored by all its callers.  *)

Logout(c, f, token) ==
    /\ token \in given[f]
    /\ Starts(c, [NoCall EXCEPT !.pc = "lookup", !.op = "logout", !.family = f,
                                !.token = token, !.code = "ok"])
    /\ UNCHANGED <<storeVars, generated, clientVars>>

LookUpUser(c) ==
    LET f == call[c].family
    IN  /\ call[c].pc = "lookup"
        /\ \/ /\ Held(f)
              /\ call' = [call EXCEPT ![c].pc = "srem", ![c].user = stored[f].user]
           \/ (ReadMayFail \/ ~Held(f)) /\ Goto(c, "del")
        /\ UNCHANGED <<storeVars, generated, clientVars>>

UnindexFamily(c) ==
    /\ call[c].pc = "srem"
    /\ \E outcome \in Outcomes : RemoveFromIndex(call[c].user, call[c].family, outcome)
    /\ Goto(c, "del")
    /\ UNCHANGED <<generated, clientVars>>

\* Mutant: the delete stops once the index is clean.
EndFamilyInIndexOnly(c) ==
    /\ call[c].pc = "del"
    /\ Goto(c, "reply")
    /\ UNCHANGED <<storeVars, generated, clientVars>>

EndFamily(c) ==
    /\ call[c].pc = "del"
    /\ \E outcome \in Outcomes : DeleteFamily(call[c].family, outcome)
    /\ Goto(c, "reply")
    /\ UNCHANGED <<generated, clientVars>>

-------------------------------------------------------------------------------
(* LogoutAll, as far as DeleteAllByUserID goes.                            *)

LogoutAll(c, u) ==
    /\ Starts(c, [NoCall EXCEPT !.pc = "smembers", !.op = "logout_all", !.user = u])
    /\ UNCHANGED <<storeVars, generated, clientVars>>

ListFamilies(c) ==
    /\ call[c].pc = "smembers"
    /\ \/ call' = [call EXCEPT ![c].pc = "sweep", ![c].listed = members[call[c].user],
                               ![c].left = members[call[c].user]]
       \/ ReadMayFail /\ Reply(c, "error")
    /\ UNCHANGED <<storeVars, generated, clientVars>>

\* The families are deleted in the order Redis listed them: any.
SweepFamily(c) ==
    /\ call[c].pc = "sweep"
    /\ \E f \in call[c].left, outcome \in Outcomes :
         /\ DeleteFamily(f, outcome)
         /\ call' = [call EXCEPT ![c].left = @ \ {f}]
    /\ UNCHANGED <<generated, clientVars>>

\* Mutant: the index is dropped, and the call answered, after the first family.
DropIndexEarly(c) ==
    /\ call[c].pc = "sweep" /\ call[c].left /= call[c].listed
    /\ \E outcome \in Outcomes : DeleteIndex(call[c].user, outcome)
    /\ Reply(c, "ok")
    /\ UNCHANGED <<generated, clientVars>>

DropIndex(c) ==
    /\ call[c].pc = "sweep" /\ call[c].left = {}
    /\ \E outcome \in Outcomes : DeleteIndex(call[c].user, outcome)
    /\ Reply(c, "ok")
    /\ UNCHANGED <<generated, clientVars>>

-------------------------------------------------------------------------------
\* The client receives the answer, and with it the token.
Respond(c) ==
    /\ call[c].pc = "reply"
    /\ \/ /\ call[c].code = "ok" /\ call[c].op \in {"login", "refresh"}
          /\ given' = [given EXCEPT ![call[c].family] = @ \cup {call[c].fresh}]
       \/ /\ \/ ~(call[c].code = "ok" /\ call[c].op \in {"login", "refresh"})
             \/ "lost_reply" \in scenario.events
          /\ UNCHANGED given
    /\ call' = [call EXCEPT ![c] = NoCall]
    /\ UNCHANGED <<storeVars, generated, replaced, scenario>>

Tick ==
    /\ ExpireKeys
    /\ UNCHANGED <<call, generated, clientVars>>

CallStep(c) ==
    \/ StoreFamily(c) \/ IndexFamily(c) \/ RenewIndex(c)
    \/ ReadFamily(c) \/ Rotate(c)
    \/ LookUpUser(c) \/ UnindexFamily(c) \/ EndFamily(c)
    \/ ListFamilies(c) \/ SweepFamily(c) \/ DropIndex(c)
    \/ Respond(c)

Next ==
    \/ \E c \in Call, u \in User, f \in Family : Login(c, u, f)
    \/ \E c \in Call, f \in Family, token \in Token : Refresh(c, f, token)
    \/ \E c \in Call, f \in Family, token \in Token : Logout(c, f, token)
    \/ \E c \in Call, u \in User : LogoutAll(c, u)
    \/ \E c \in Call : CallStep(c)
    \/ Tick

Spec == Init /\ [][Next]_vars

-------------------------------------------------------------------------------
(* Properties.                                                             *)

\* No command of Redis fails; and no answer is lost either.
NoFailures == scenario.events \cap {"refused", "unacked"} = {}
NothingLost == NoFailures /\ "lost_reply" \notin scenario.events

\* If Redis does not fail, an answer that ends a session is true and stays true:
\* after a logout, and when a client is told that its session has expired or that
\* its token was replaced, the family is gone, and no refresh that read it earlier
\* brings it back.
EndingAnswersHold ==
    NoFailures => \A c \in Call :
        call[c].pc = "reply" /\ (call[c].op = "logout" \/ call[c].code \in {"expired", "reused"})
            => ~Held(call[c].family)

\* If Redis does not fail, a logout of all devices ends every session it listed,
\* though refreshes, logins and logouts go on meanwhile.
ListedSessionsEnd ==
    NoFailures => \A c \in Call :
        call[c].op = "logout_all" /\ call[c].pc = "reply" /\ call[c].code = "ok"
            => \A f \in call[c].listed : ~Held(f)

\* A login has indexed the family f, or is still to do so.
BeingIndexed(f) ==
    \E c \in Call : call[c].family = f /\ call[c].pc \in {"set", "sadd", "expire"}

\* If Redis does not fail, a user's index outlives every session in it: it is
\* renewed by logins only, while the key of a family is renewed by refreshes; it is
\* expires_at, which nothing renews, that keeps sessions from outliving their index.
IndexOutlivesSessions ==
    NoFailures => \A u \in User : \A f \in members[u] :
        Held(f) /\ ~BeingIndexed(f) => stored[f].expiresIn <= indexTTL[u]

\* A client that uses each token once, one after the other, is never told
\* that its token was replaced, nor that it is invalid while the session is
\* there: if nothing fails, rotation and reuse detection do not end sessions.
CarefulClientsStay ==
    NothingLost => \A c \in Call :
        call[c].op = "refresh" /\ call[c].pc = "reply" /\ call[c].family \in Careful =>
            /\ call[c].code /= "reused"
            /\ call[c].code \in {"invalid", "error"} => ~Held(call[c].family)

\* Every session lives the life of SessionLife, whatever fails: one that is
\* over does not come back, and a token that was replaced stays so.
NotStored(f) ==
    generated[f] = 0 \/ \E c \in Call : call[c].family = f /\ call[c].pc = "set"

Sessions == INSTANCE SessionLife WITH
    session <- [f \in Family |-> IF Held(f) THEN "open"
                                 ELSE IF NotStored(f) THEN "none" ELSE "over"],
    current <- [f \in Family |-> stored[f].current]
ImplementsSessions == Sessions!Spec

\* spec/refresh-token-rotation.md, requirement 3: used tokens are invalidated
\* immediately; no token buys two others.
ExchangedOnce ==
    \A c, d \in Call :
        c /= d /\ call[c].op = "refresh" /\ call[d].op = "refresh"
        /\ call[c].pc = "reply" /\ call[d].pc = "reply"
        /\ call[c].code = "ok" /\ call[d].code = "ok"
        /\ call[c].family = call[d].family
            => call[c].token /= call[d].token

\* internal/cache/refresh_token_store.go, DeleteAllByUserID: all family ids of
\* the user are listed; every session somebody holds a token of, that has not
\* expired and that nobody is ending.
ListsAllFamilies ==
    [][\A c \in Call : ListFamilies(c) /\ call'[c].pc = "sweep" =>
         \A f \in Family :
            \/ ~Held(f) \/ stored[f].user /= call[c].user \/ stored[f].expiresIn = 0
            \/ given[f] = {}
            \/ \E d \in Call : call[d].family = f /\ call[d].pc = "del"
            \/ f \in call'[c].listed]_vars

===============================================================================
