---------------------------- MODULE RefreshTokenStore ----------------------------
(***************************************************************************)
(* What Redis holds for the sessions of users                              *)
(* (internal/cache/refresh_token_store.go): a key per family of refresh    *)
(* tokens, and per user the set of the user's families.  Every operator    *)
(* is one Redis command, hence atomic; the store's methods are sequences   *)
(* of them and belong to their callers.  A command has an outcome: "ok",   *)
(* "refused" (not applied, error) or "unacked" (applied, error).           *)
(*                                                                         *)
(* Time is what is left of it: expiresAt and the expiry of a key are       *)
(* counted down by Tick from Lifetime, the refreshTokenTTL.                *)
(***************************************************************************)
EXTENDS Integers

CONSTANTS
    User,
    NoUser,      \* the user of a family that Redis does not hold
    Family,      \* the family ids that may be generated
    MaxTokens,   \* bound: tokens generated in one family
    Lifetime     \* refreshTokenTTL

ASSUME NoUserAssumption == NoUser \notin User
ASSUME MaxTokensAssumption == MaxTokens \in Nat \ {0}
ASSUME LifetimeAssumption == Lifetime \in Nat \ {0}

VARIABLES
    stored,     \* stored[f]: the data under refresh_token:f, or Missing
    members,    \* members[u]: the set user_refresh_tokens:u
    indexTTL    \* indexTTL[u]: what is left of that key, or Forever

storeVars == <<stored, members, indexTTL>>

\* The tokens of a family in the order they were generated; 0 is no token.
\* A token stands for its hash.
Token == 1 .. MaxTokens
NoToken == 0

\* cache.RefreshTokenData, and the expiry of its key.
Data == [user : User, current : Token, previous : Token \cup {NoToken},
         expiresIn : 0 .. Lifetime, ttl : 1 .. Lifetime]

Missing == [user |-> NoUser, current |-> NoToken, previous |-> NoToken,
            expiresIn |-> 0, ttl |-> 0]

\* A set that has members and no expiry.
Forever == Lifetime + 1

StoreTypeOK ==
    /\ stored \in [Family -> Data \cup {Missing}]
    /\ members \in [User -> SUBSET Family]
    /\ indexTTL \in [User -> 0 .. Forever]

StoreInit ==
    /\ stored = [f \in Family |-> Missing]
    /\ members = [u \in User |-> {}]
    /\ indexTTL = [u \in User |-> 0]

Held(f) == stored[f] /= Missing

-------------------------------------------------------------------------------
\* Set, from Create.
SetFamily(f, u, token, outcome) ==
    /\ stored' = IF outcome = "refused" THEN stored
                 ELSE [stored EXCEPT ![f] = [user |-> u, current |-> token,
                         previous |-> NoToken, expiresIn |-> Lifetime, ttl |-> Lifetime]]
    /\ UNCHANGED <<members, indexTTL>>

\* SADD.
AddToIndex(u, f, outcome) ==
    /\ \/ outcome = "refused" /\ UNCHANGED <<members, indexTTL>>
       \/ /\ outcome /= "refused"
          /\ members' = [members EXCEPT ![u] = @ \cup {f}]
          /\ indexTTL' = IF members[u] = {} THEN [indexTTL EXCEPT ![u] = Forever] ELSE indexTTL
    /\ UNCHANGED stored

\* EXPIRE; nothing happens if the key has gone.
ExpireIndex(u, outcome) ==
    /\ indexTTL' = IF outcome = "refused" \/ members[u] = {} THEN indexTTL
                   ELSE [indexTTL EXCEPT ![u] = Lifetime]
    /\ UNCHANGED <<stored, members>>

\* SREM.
RemoveFromIndex(u, f, outcome) ==
    /\ \/ outcome = "refused" /\ UNCHANGED <<members, indexTTL>>
       \/ /\ outcome /= "refused"
          /\ members' = [members EXCEPT ![u] = @ \ {f}]
          /\ indexTTL' = IF members[u] \ {f} = {} THEN [indexTTL EXCEPT ![u] = 0] ELSE indexTTL
    /\ UNCHANGED stored

\* DEL of a family.
DeleteFamily(f, outcome) ==
    /\ stored' = IF outcome = "refused" THEN stored ELSE [stored EXCEPT ![f] = Missing]
    /\ UNCHANGED <<members, indexTTL>>

\* DEL of a user's set.
DeleteIndex(u, outcome) ==
    /\ \/ outcome = "refused" /\ UNCHANGED <<members, indexTTL>>
       \/ /\ outcome /= "refused"
          /\ members' = [members EXCEPT ![u] = {}]
          /\ indexTTL' = [indexTTL EXCEPT ![u] = 0]
    /\ UNCHANGED stored

\* Mutant: the script writes whether or not the key is there.
RotateScriptAnyway(f, token, outcome) ==
    /\ stored' = IF outcome = "refused" THEN stored
                 ELSE [stored EXCEPT ![f].previous = stored[f].current,
                                     ![f].current = token, ![f].ttl = Lifetime]
    /\ UNCHANGED <<members, indexTTL>>

\* Mutant: the script renews expires_at too.
RotateScriptRenewing(f, token, outcome) ==
    /\ stored' = IF outcome = "refused" \/ ~Held(f) THEN stored
                 ELSE [stored EXCEPT ![f].previous = stored[f].current, ![f].current = token,
                                     ![f].ttl = Lifetime, ![f].expiresIn = Lifetime]
    /\ UNCHANGED <<members, indexTTL>>

\* Mutant: the script forgets to store the new hash.
RotateScriptHalf(f, token, outcome) ==
    /\ stored' = IF outcome = "refused" \/ ~Held(f) THEN stored
                 ELSE [stored EXCEPT ![f].previous = stored[f].current, ![f].ttl = Lifetime]
    /\ UNCHANGED <<members, indexTTL>>

\* Mutant: the script sets the key without an expiry.
RotateScriptForever(f, token, outcome) ==
    /\ stored' = IF outcome = "refused" \/ ~Held(f) THEN stored
                 ELSE [stored EXCEPT ![f].previous = stored[f].current,
                                     ![f].current = token, ![f].ttl = Forever]
    /\ UNCHANGED <<members, indexTTL>>

\* rotateScript.  The expiry of the key starts again; expires_at, decoded and
\* encoded again with the rest, stays.
RotateScript(f, token, outcome) ==
    /\ stored' = IF outcome = "refused" \/ ~Held(f) THEN stored
                 ELSE [stored EXCEPT ![f].previous = stored[f].current,
                                     ![f].current = token, ![f].ttl = Lifetime]
    /\ UNCHANGED <<members, indexTTL>>

\* Time passes, and keys whose time has come are gone.
ExpireKeys ==
    /\ stored' = [f \in Family |->
         IF stored[f].ttl <= 1 THEN Missing
         ELSE [stored[f] EXCEPT !.ttl = @ - 1, !.expiresIn = IF @ = 0 THEN 0 ELSE @ - 1]]
    /\ indexTTL' = [u \in User |->
         IF indexTTL[u] \in {0, Forever} THEN indexTTL[u] ELSE indexTTL[u] - 1]
    /\ members' = [u \in User |-> IF indexTTL'[u] = 0 THEN {} ELSE members[u]]

===============================================================================
