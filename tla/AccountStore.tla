------------------------------- MODULE AccountStore -------------------------------
(***************************************************************************)
(* The collections users and refresh_tokens, and the Redis keys in front   *)
(* of them: user:<id> and refresh:<token>.  Every operator that changes    *)
(* one is a single command, and says nothing of the others.  Time passes   *)
(* in ticks; left is the number of them until a thing expires.             *)
(***************************************************************************)
EXTENDS Integers, FiniteSets

CONSTANTS
    User, Email, Name,
    MaxTokens,          \* bound: refresh tokens issued in a behaviour
    NoUser, NoEmail, NoName,
    UserCacheTTL, RefreshTokenTTL

ASSUME StoreAssumption ==
    /\ NoUser \notin User /\ NoEmail \notin Email /\ NoName \notin Name /\ Name /= {}
    /\ MaxTokens \in Nat /\ User \cap (1 .. MaxTokens) = {}
    /\ UserCacheTTL \in Nat \ {0} /\ RefreshTokenTTL \in Nat \ {0}

\* Random strings: a token that was issued is never issued again.
Token == 1 .. MaxTokens
NoToken == 0

VARIABLES
    users,          \* the documents of users
    tokens,         \* the documents of refresh_tokens; left goes on counting
                    \* down when a document has been deleted
    cachedUsers,    \* the keys user:<id>
    cachedTokens    \* the keys refresh:<token>: what is left of each

storeVars == <<users, tokens, cachedUsers, cachedTokens>>

NoDocument == [email |-> NoEmail, name |-> NoName]
Document == [email : Email, name : Name]

\* Ids are never used again.
NotRegistered == [state |-> "none", data |-> NoDocument]
Deleted == [state |-> "deleted", data |-> NoDocument]
UserDocument == [state : {"live"}, data : Document] \cup {NotRegistered, Deleted}

NotIssued == [state |-> "none", user |-> NoUser, left |-> 0]
TokenDocument ==
    [state : {"live", "deleted"}, user : User, left : 0 .. RefreshTokenTTL] \cup {NotIssued}

NotCached == [data |-> NoDocument, left |-> 0]

StoreTypeOK ==
    /\ users \in [User -> UserDocument]
    /\ tokens \in [Token -> TokenDocument]
    /\ cachedUsers \in [User -> [data : Document, left : 0 .. UserCacheTTL] \cup {NotCached}]
    /\ cachedTokens \in [Token -> 0 .. RefreshTokenTTL]

\* S: users that have registered before, and their emails.
StoreInit(S) ==
    /\ users = [u \in User |->
                  IF \E email \in Email : <<u, email>> \in S
                    THEN [state |-> "live",
                          data |-> [email |-> CHOOSE email \in Email : <<u, email>> \in S,
                                    name |-> CHOOSE name \in Name : TRUE]]
                    ELSE NotRegistered]
    /\ tokens = [k \in Token |-> NotIssued]
    /\ cachedUsers = [u \in User |-> NotCached]
    /\ cachedTokens = [k \in Token |-> 0]

-------------------------------------------------------------------------------
(* users.                                                                  *)

LiveUser(u) == users[u].state = "live"

FindByEmail(email) == {u \in User : LiveUser(u) /\ users[u].data.email = email}

\* The unique index on email refuses a second document.
EmailIndexed(u, email) == FindByEmail(email) \ {u} /= {}

PutUser(u, data) == users' = [users EXCEPT ![u] = [state |-> "live", data |-> data]]

RemoveUser(u) == users' = IF LiveUser(u) THEN [users EXCEPT ![u] = Deleted] ELSE users

-------------------------------------------------------------------------------
(* refresh_tokens.                                                         *)

\* Those a find selects: there, and not expired.
ValidToken(k) == tokens[k].state = "live" /\ tokens[k].left > 0

ValidTokensOf(u) == {k \in Token : ValidToken(k) /\ tokens[k].user = u}

InsertToken(k, u) ==
    tokens' = [tokens EXCEPT ![k] = [state |-> "live", user |-> u, left |-> RefreshTokenTTL]]

DeleteToken(k) ==
    tokens' = IF tokens[k].state = "live" THEN [tokens EXCEPT ![k].state = "deleted"] ELSE tokens

DeleteTokensOf(u) ==
    tokens' = [k \in Token |-> IF tokens[k].state = "live" /\ tokens[k].user = u
                                 THEN [tokens[k] EXCEPT !.state = "deleted"] ELSE tokens[k]]

-------------------------------------------------------------------------------
(* Redis.                                                                  *)

\* Mutant: a user is cached with no time to live, as Redis takes a TTL of zero.
CacheUserForever(u, data) ==
    cachedUsers' = [cachedUsers EXCEPT ![u] = [data |-> data, left |-> 0]]

CacheUser(u, data) ==
    cachedUsers' = [cachedUsers EXCEPT ![u] = [data |-> data, left |-> UserCacheTTL]]

UncacheUser(u) == cachedUsers' = [cachedUsers EXCEPT ![u] = NotCached]

\* Mutant: every token is cached for the lifetime of a new one.
CacheTokenAnew(k, left) == cachedTokens' = [cachedTokens EXCEPT ![k] = RefreshTokenTTL]

CacheToken(k, left) == cachedTokens' = [cachedTokens EXCEPT ![k] = left]

UncacheTokens(S) ==
    cachedTokens' = [k \in Token |-> IF k \in S THEN 0 ELSE cachedTokens[k]]

\* One tick: keys and documents come nearer to their end.
PassTime ==
    /\ cachedUsers' = [u \in User |->
                         CASE cachedUsers[u].left > 1 -> [cachedUsers[u] EXCEPT !.left = @ - 1]
                           [] cachedUsers[u].left = 1 -> NotCached
                           [] cachedUsers[u].left = 0 -> cachedUsers[u]]
    /\ cachedTokens' = [k \in Token |-> IF cachedTokens[k] > 0 THEN cachedTokens[k] - 1 ELSE 0]
    /\ tokens' = [k \in Token |->
                    IF tokens[k].left > 0 THEN [tokens[k] EXCEPT !.left = @ - 1] ELSE tokens[k]]
===============================================================================
