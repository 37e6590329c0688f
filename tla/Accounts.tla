--------------------------------- MODULE Accounts ---------------------------------
(***************************************************************************)
(* Accounts and sessions as the program runs by default, that is, without  *)
(* rotation of refresh tokens: the authentication service over documents   *)
(* of refresh_tokens cached in Redis, and the user service over documents  *)
(* of users cached in Redis.  A request is a sequence of commands to       *)
(* MongoDB and Redis, which those of other requests come between.          *)
(***************************************************************************)
EXTENDS AccountStore, Sequences

CONSTANTS
    Call,           \* slots for requests in flight
    Scenario        \* what is possible in a behaviour, see scenario

VARIABLES
    scenario,       \* the one of this behaviour: whether commands may be refused
                    \* (one in a request) and Redis may lose keys; the operations
                    \* requested; users registered before; the number of tokens
                    \* ever; and whether time passes
    call,           \* the request each slot is serving
    ended,          \* history: tokens that an undisturbed logout was about
    suspect         \* history: users whose last write, and tokens whose last
                    \* logout, was disturbed

vars == <<storeVars, scenario, call, ended, suspect>>

Operations == {"register", "login", "refresh", "logout", "logout_all",
               "get_user", "update_user", "delete_user"}

StoreCommands == {"check_email", "insert_user", "find_login", "insert_token", "find_token",
                  "delete_token", "list_tokens", "delete_tokens",
                  "find_user", "write_user", "reread_user", "remove_user"}
CacheCommands == {"cached_token", "cache_token", "uncache_token", "uncache_tokens",
                  "cached_user", "cache_user", "uncache_user"}
Commands == StoreCommands \cup CacheCommands

\* Nil, the apperrors, a violated unique index, or any other error.
Codes == {"ok", "exists", "credentials", "invalid", "not_found", "duplicate", "error"}

ASSUME CallAssumption == IsFiniteSet(Call)

\* The users registered before have an email each, of their own.
ASSUME ScenarioAssumption ==
    /\ Scenario \subseteq [faults : BOOLEAN, operations : SUBSET Operations,
                           registered : SUBSET (User \X Email), tokens : 0 .. MaxTokens,
                           time : BOOLEAN]
    /\ \A s \in Scenario : \A p, q \in s.registered : (p[1] = q[1]) <=> (p[2] = q[2])

\* user: the account a request is about; data: the document to be written, or
\* read; left: the time to live computed for a token; found: the tokens listed;
\* refused: the store that refused a command; met: whether requests about the same
\* account, or another one, were in flight at the same time.
NoCall ==
    [op |-> "none", todo |-> <<>>, user |-> NoUser, data |-> NoDocument, token |-> NoToken,
     left |-> 0, found |-> {}, code |-> "ok", refused |-> "none", met |-> {}]
InFlight ==
    [op : Operations, todo : Seq(Commands), user : User \cup {NoUser},
     data : [email : Email \cup {NoEmail}, name : Name \cup {NoName}],
     token : Token \cup {NoToken}, left : 0 .. RefreshTokenTTL, found : SUBSET Token,
     code : Codes, refused : {"none", "store", "cache"},
     met : SUBSET {"same", "other"}]

TypeOK ==
    /\ StoreTypeOK
    /\ scenario \in Scenario
    /\ call \in [Call -> InFlight \cup {NoCall}]
    /\ ended \in SUBSET Token
    /\ suspect \in SUBSET (User \cup Token)

Init ==
    /\ scenario \in Scenario
    /\ StoreInit(scenario.registered)
    /\ call = [c \in Call |-> NoCall]
    /\ ended = {}
    /\ suspect = {}

Idle(c) == call[c].op = "none"

Accepting(c, op) == Idle(c) /\ op \in scenario.operations

\* Whether two requests are about one account; a login has yet to find its own.
Meeting(k, l) == IF k.user = l.user \/ NoUser \in {k.user, l.user} THEN "same" ELSE "other"

\* The slot takes the request k.
Starts(c, k) ==
    LET busy == {d \in Call : ~Idle(d)}
    IN  /\ call' = [d \in Call |->
                      CASE d = c -> [k EXCEPT !.met = {Meeting(k, call[b]) : b \in busy}]
                        [] d \in busy -> [call[d] EXCEPT !.met = @ \cup {Meeting(k, call[d])}]
                        [] OTHER -> NoCall]
        /\ UNCHANGED <<storeVars, scenario, ended, suspect>>

Request(op, u, commands) == [NoCall EXCEPT !.op = op, !.user = u, !.todo = commands]

Registered == {u \in User : users[u].state /= "none"}

Issued == {k \in Token : tokens[k] /= NotIssued}

\* A new id: of no document, and of none about to be inserted.
NewUsers == {u \in User \ Registered : \A d \in Call : call[d].user /= u}
NewToken == Cardinality(Issued) + 1

MayIssue ==
    Cardinality(Issued) + Cardinality({d \in Call : /\ call[d].op \in {"register", "login"}
                                                    /\ call[d].token = NoToken})
      < scenario.tokens

\* Tokens a client may have: issued, and answered.
Presentable ==
    {k \in Issued : \A d \in Call : call[d].op \in {"register", "login"} => call[d].token /= k}

-------------------------------------------------------------------------------
(* The operations of the authentication service.                           *)

IssueCommands == <<"insert_token", "cache_token">>

Register(c) ==
    /\ Accepting(c, "register") /\ MayIssue
    /\ \E u \in NewUsers, email \in Email, name \in Name :
         Starts(c, [Request("register", u, <<"check_email", "insert_user">> \o IssueCommands)
                      EXCEPT !.data = [email |-> email, name |-> name]])

Login(c) ==
    /\ Accepting(c, "login") /\ MayIssue
    /\ \E email \in Email :
         Starts(c, [Request("login", NoUser, <<"find_login">> \o IssueCommands)
                      EXCEPT !.data.email = email])

RefreshCommands == <<"cached_token", "find_token", "cache_token">>

Refresh(c) ==
    /\ Accepting(c, "refresh")
    /\ \E k \in Presentable :
         Starts(c, [Request("refresh", tokens[k].user, RefreshCommands) EXCEPT !.token = k])

LogoutCommands == <<"delete_token", "uncache_token">>

Logout(c) ==
    /\ Accepting(c, "logout")
    /\ \E k \in Presentable :
         Starts(c, [Request("logout", tokens[k].user, LogoutCommands) EXCEPT !.token = k])

\* Mutant: the documents are gone when the tokens to uncache are listed.
LogoutAllThenList == <<"delete_tokens", "list_tokens", "uncache_tokens">>

LogoutAllCommands == <<"list_tokens", "uncache_tokens", "delete_tokens">>

LogoutAll(c) ==
    /\ Accepting(c, "logout_all")
    /\ \E u \in Registered : Starts(c, Request("logout_all", u, LogoutAllCommands))

-------------------------------------------------------------------------------
(* Those of the user service.                                              *)

GetUser(c) ==
    /\ Accepting(c, "get_user")
    /\ \E u \in Registered :
         Starts(c, Request("get_user", u, <<"cached_user", "find_user", "cache_user">>))

\* Mutant: an update trusts the index to tell that an email is taken.
UpdateUnchecked(email) == <<"write_user", "reread_user", "uncache_user">>

\* Mutant: an update leaves the cache alone.
UpdateOnly(email) ==
    (IF email = NoEmail THEN <<>> ELSE <<"check_email">>) \o <<"write_user", "reread_user">>

UpdateUserCommands(email) ==
    (IF email = NoEmail THEN <<>> ELSE <<"check_email">>)
      \o <<"write_user", "reread_user", "uncache_user">>

\* NoEmail and NoName: the request leaves that field alone.
UpdateUser(c) ==
    /\ Accepting(c, "update_user")
    /\ \E u \in Registered, email \in Email \cup {NoEmail}, name \in Name \cup {NoName} :
         Starts(c, [Request("update_user", u, UpdateUserCommands(email))
                      EXCEPT !.data = [email |-> email, name |-> name]])

DeleteUser(c) ==
    /\ Accepting(c, "delete_user")
    /\ \E u \in Registered : Starts(c, Request("delete_user", u, <<"remove_user", "uncache_user">>))

-------------------------------------------------------------------------------
(* Commands.  k is the request that sends one.                             *)

Sends(c, command) == ~Idle(c) /\ call[c].todo /= <<>> /\ Head(call[c].todo) = command

Proceeds(k) == [k EXCEPT !.todo = Tail(@)]
Fails(k, code) == [k EXCEPT !.todo = <<>>, !.code = code]

Becomes(c, k) == call' = [call EXCEPT ![c] = k] /\ UNCHANGED <<scenario, ended, suspect>>
Reads(c, k) == Becomes(c, k) /\ UNCHANGED storeVars

\* On registration, and on an update of the email.
CheckEmail(c) ==
    LET k == call[c]
        free == FindByEmail(k.data.email) \ {k.user} = {}
    IN  Sends(c, "check_email") /\ Reads(c, IF free THEN Proceeds(k) ELSE Fails(k, "exists"))

InsertUser(c) ==
    LET k == call[c]
    IN  /\ Sends(c, "insert_user")
        /\ IF EmailIndexed(k.user, k.data.email)
             THEN Becomes(c, Fails(k, "duplicate")) /\ UNCHANGED users
             ELSE Becomes(c, Proceeds(k)) /\ PutUser(k.user, k.data)
        /\ UNCHANGED <<tokens, cachedUsers, cachedTokens>>

\* No such email, or a wrong password; the client may or may not know it.
FindLogin(c) ==
    LET k == call[c]
        found == FindByEmail(k.data.email)
    IN  /\ Sends(c, "find_login")
        /\ \/ Reads(c, Fails(k, "credentials"))
           \/ \E u \in found : Reads(c, [Proceeds(k) EXCEPT !.user = u])

InsertTheToken(c) ==
    LET k == call[c]
    IN  /\ Sends(c, "insert_token")
        /\ InsertToken(NewToken, k.user)
        /\ Becomes(c, [Proceeds(k) EXCEPT !.token = NewToken, !.left = RefreshTokenTTL])
        /\ UNCHANGED <<users, cachedUsers, cachedTokens>>

\* Mutant: a token that is not in the cache is taken for an invalid one.
ReadCachedTokenOnly(c) ==
    LET k == call[c]
    IN  /\ Sends(c, "cached_token")
        /\ Reads(c, IF cachedTokens[k.token] > 0 THEN [k EXCEPT !.todo = <<>>]
                    ELSE Fails(k, "invalid"))

\* A token found in the cache is good.
ReadCachedToken(c) ==
    LET k == call[c]
    IN  /\ Sends(c, "cached_token")
        /\ Reads(c, IF cachedTokens[k.token] > 0 THEN [k EXCEPT !.todo = <<>>]
                    ELSE Proceeds(k))

FindToken(c) ==
    LET k == call[c]
    IN  /\ Sends(c, "find_token")
        /\ Reads(c, IF ValidToken(k.token)
                      THEN [Proceeds(k) EXCEPT !.left = tokens[k.token].left]
                      ELSE Fails(k, "invalid"))

CacheTheToken(c) ==
    LET k == call[c]
    IN  /\ Sends(c, "cache_token")
        /\ CacheToken(k.token, k.left)
        /\ Becomes(c, [Proceeds(k) EXCEPT !.left = 0])
        /\ UNCHANGED <<users, tokens, cachedUsers>>

DeleteTheToken(c) ==
    /\ Sends(c, "delete_token")
    /\ DeleteToken(call[c].token)
    /\ Becomes(c, Proceeds(call[c]))
    /\ UNCHANGED <<users, cachedUsers, cachedTokens>>

UncacheTheToken(c) ==
    /\ Sends(c, "uncache_token")
    /\ UncacheTokens({call[c].token})
    /\ Becomes(c, Proceeds(call[c]))
    /\ UNCHANGED <<users, tokens, cachedUsers>>

ListTokens(c) ==
    LET k == call[c]
    IN  Sends(c, "list_tokens") /\ Reads(c, [Proceeds(k) EXCEPT !.found = ValidTokensOf(k.user)])

UncacheListed(c) ==
    /\ Sends(c, "uncache_tokens")
    /\ UncacheTokens(call[c].found)
    /\ Becomes(c, [Proceeds(call[c]) EXCEPT !.found = {}])
    /\ UNCHANGED <<users, tokens, cachedUsers>>

DeleteAllTokens(c) ==
    /\ Sends(c, "delete_tokens")
    /\ DeleteTokensOf(call[c].user)
    /\ Becomes(c, Proceeds(call[c]))
    /\ UNCHANGED <<users, cachedUsers, cachedTokens>>

ReadCachedUser(c) ==
    LET k == call[c]
        cached == cachedUsers[k.user]
    IN  /\ Sends(c, "cached_user")
        /\ Reads(c, IF cached = NotCached THEN Proceeds(k)
                    ELSE [k EXCEPT !.todo = <<>>, !.data = cached.data])

\* By GetUser, and by an update that returns what it wrote.
FindUser(c) ==
    LET k == call[c]
    IN  /\ Sends(c, "find_user") \/ Sends(c, "reread_user")
        /\ Reads(c, IF LiveUser(k.user) THEN [Proceeds(k) EXCEPT !.data = users[k.user].data]
                    ELSE Fails(k, "not_found"))

CacheTheUser(c) ==
    LET k == call[c]
    IN  /\ Sends(c, "cache_user")
        /\ CacheUser(k.user, k.data)
        /\ Becomes(c, Proceeds(k))
        /\ UNCHANGED <<users, tokens, cachedTokens>>

UncacheTheUser(c) ==
    /\ Sends(c, "uncache_user")
    /\ UncacheUser(call[c].user)
    /\ Becomes(c, Proceeds(call[c]))
    /\ UNCHANGED <<users, tokens, cachedTokens>>

\* Mutant: fields that the request leaves alone are cleared.
UpdatedWhole(data, request) == request

\* What an update makes of a document.
Updated(data, request) ==
    [email |-> IF request.email = NoEmail THEN data.email ELSE request.email,
     name |-> IF request.name = NoName THEN data.name ELSE request.name]

WriteUser(c) ==
    LET k == call[c]
        data == Updated(users[k.user].data, k.data)
    IN  /\ Sends(c, "write_user")
        /\ CASE ~LiveUser(k.user) -> UNCHANGED users /\ Becomes(c, Fails(k, "not_found"))
             [] LiveUser(k.user) /\ EmailIndexed(k.user, data.email) ->
                  UNCHANGED users /\ Becomes(c, Fails(k, "duplicate"))
             [] OTHER -> PutUser(k.user, data) /\ Becomes(c, Proceeds(k))
        /\ UNCHANGED <<tokens, cachedUsers, cachedTokens>>

RemoveTheUser(c) ==
    LET k == call[c]
    IN  /\ Sends(c, "remove_user")
        /\ RemoveUser(k.user)
        /\ Becomes(c, IF LiveUser(k.user) THEN Proceeds(k) ELSE Fails(k, "not_found"))
        /\ UNCHANGED <<tokens, cachedUsers, cachedTokens>>

-------------------------------------------------------------------------------
(* Faults: a command is refused, and does nothing; Redis loses a key.      *)

\* Commands whose error the program drops, and those whose error it takes for
\* the absence of what it looked for.
ErrorIgnored == {"check_email", "cache_token", "uncache_token", "uncache_tokens",
                 "cached_user", "cache_user", "uncache_user"}
ErrorMistaken == [find_login |-> "credentials", find_token |-> "invalid"]

Refuse(c) ==
    LET k == call[c]
        command == Head(k.todo)
        after == IF command \in ErrorIgnored THEN [Proceeds(k) EXCEPT !.left = 0]
                 ELSE Fails(k, IF command \in DOMAIN ErrorMistaken
                                 THEN ErrorMistaken[command] ELSE "error")
    IN  /\ scenario.faults
        /\ ~Idle(c) /\ k.todo /= <<>> /\ k.refused = "none"
        /\ Reads(c, [after EXCEPT !.refused = IF command \in StoreCommands
                                                THEN "store" ELSE "cache"])

Evict ==
    /\ scenario.faults
    /\ \/ \E u \in User : cachedUsers[u] /= NotCached /\ UncacheUser(u) /\ UNCHANGED cachedTokens
       \/ \E k \in Token : cachedTokens[k] > 0 /\ UncacheTokens({k}) /\ UNCHANGED cachedUsers
    /\ UNCHANGED <<users, tokens, scenario, call, ended, suspect>>

\* A tick is long: a time to live has reached Redis before it is over.
Tick ==
    /\ scenario.time
    /\ \A c \in Call : call[c].left = 0
    /\ PassTime
    /\ UNCHANGED <<users, scenario, call, ended, suspect>>

-------------------------------------------------------------------------------
(* Answers.                                                                *)

\* What the handlers make of a service's answer; any other is a 500.
RegisterHandler == [ok |-> 201, exists |-> 409]
LoginHandler == [ok |-> 200, credentials |-> 401]
RefreshHandler == [ok |-> 200, invalid |-> 401]
LogoutHandler == [ok |-> 204]
LogoutAllHandler == [ok |-> 204]
GetUserHandler == [ok |-> 200, not_found |-> 404]
UpdateUserHandler == [ok |-> 200, not_found |-> 404, exists |-> 409]
DeleteUserHandler == [ok |-> 200, not_found |-> 404]

Handlers ==
    [register |-> RegisterHandler, login |-> LoginHandler, refresh |-> RefreshHandler,
     logout |-> LogoutHandler, logout_all |-> LogoutAllHandler, get_user |-> GetUserHandler,
     update_user |-> UpdateUserHandler, delete_user |-> DeleteUserHandler]

Status(k) == IF k.code \in DOMAIN Handlers[k.op] THEN Handlers[k.op][k.code] ELSE 500

Undisturbed(k) == "same" \notin k.met /\ k.refused = "none"

\* The tokens a logout is about, or the user that is written.  A logout of all
\* devices finds the tokens to uncache by their documents: it does not see one
\* that a disturbed logout left in the cache.
Subject(k) ==
    CASE k.op = "logout" -> {k.token}
      [] k.op = "logout_all" -> {n \in Token \ suspect : tokens[n].user = k.user}
      [] k.op \in {"update_user", "delete_user"} -> {k.user}
      [] OTHER -> {}

Respond(c) ==
    LET k == call[c]
    IN  /\ ~Idle(c) /\ k.todo = <<>>
        /\ call' = [call EXCEPT ![c] = NoCall]
        /\ CASE ~Undisturbed(k) -> suspect' = suspect \cup Subject(k) /\ UNCHANGED ended
             [] Undisturbed(k) /\ k.code = "ok" ->
                  ended' = ended \cup (Subject(k) \cap Token) /\ suspect' = suspect \ Subject(k)
             [] OTHER -> UNCHANGED <<ended, suspect>>
        /\ UNCHANGED <<storeVars, scenario>>

-------------------------------------------------------------------------------
RequestArrives(c) ==
    \/ Register(c) \/ Login(c) \/ Refresh(c) \/ Logout(c) \/ LogoutAll(c)
    \/ GetUser(c) \/ UpdateUser(c) \/ DeleteUser(c)

Step(c) ==
    \/ CheckEmail(c) \/ InsertUser(c) \/ FindLogin(c) \/ InsertTheToken(c)
    \/ ReadCachedToken(c) \/ FindToken(c) \/ CacheTheToken(c)
    \/ DeleteTheToken(c) \/ UncacheTheToken(c)
    \/ ListTokens(c) \/ UncacheListed(c) \/ DeleteAllTokens(c)
    \/ ReadCachedUser(c) \/ FindUser(c) \/ CacheTheUser(c) \/ UncacheTheUser(c)
    \/ WriteUser(c) \/ RemoveTheUser(c)
    \/ Refuse(c) \/ Respond(c)

Next ==
    \/ \E c \in Call : RequestArrives(c) \/ Step(c)
    \/ Evict
    \/ Tick

Spec == Init /\ [][Next]_vars

\* Requests go on, and time passes, if in the pauses between them.
Fairness == (\A c \in Call : WF_vars(Step(c))) /\ SF_vars(Tick)

FairSpec == Spec /\ Fairness

-------------------------------------------------------------------------------
(* Properties.                                                             *)

Answered(c) == ~Idle(c) /\ call[c].todo = <<>>

\* A refresh would accept the token.
Usable(k) == ValidToken(k) \/ cachedTokens[k] > 0

\* A token is not in the way of its own logout: once a logout, or one of all
\* devices, was answered, and no other request of the same user had been in
\* flight nor a command been refused, nothing makes the token good again.
LogoutHolds == \A k \in ended : ~Usable(k)

\* A client is sent to log in again only if its token expired or was deleted:
\* neither a lost key nor a Redis that fails costs it its session.
ValidTokensWork ==
    \A c \in Call : LET k == call[c] IN
        Answered(c) /\ k.op = "refresh" /\ Status(k) = 401 /\ k.refused /= "store"
            => ~ValidToken(k.token)

\* No key of a token outlives the expiresAt of its document, which may have
\* been deleted: however often it is cached again, a token ends in time.
NothingOutlivesExpiry == \A k \in Token : cachedTokens[k] <= tokens[k].left

Stale(u) == cachedUsers[u] /= NotCached /\ cachedUsers[u].data /= users[u].data

\* The cache differs from the collection only while a write is under way, or
\* after one that overlapped a request about the same user or was refused a
\* command.
UsersFresh ==
    \A u \in User : Stale(u) =>
        \/ u \in suspect
        \/ \E c \in Call : call[c].user = u /\ call[c].op \in {"update_user", "delete_user"}

\* That an email is taken is told as a conflict, unless the check failed or another
\* request was in flight: the index, which comes after it, then ends in a 500.
ConflictsReported ==
    \A c \in Call : LET k == call[c] IN
        Answered(c) /\ k.code = "duplicate" => k.refused = "store" \/ k.met /= {}

\* Whatever was cached when, a user that is not what the collection says, or
\* is not there any more, is forgotten after a time.
StaleUsersForgotten == \A u \in User : Stale(u) ~> ~Stale(u)
===============================================================================
